---------------------------- MODULE PacketFactory ----------------------------
(***************************************************************************)
(* PacketMethodFactory (OldCode/Packets/PacketFactory.cpp): the registry   *)
(* of packet classes and the pools of ready-made packets, as one process   *)
(* uses them.  The main thread runs one of the programs of the repository, *)
(* a sequence of operations; the network threads of TCPThreader create a   *)
(* packet for each one they receive and may hand it back.                  *)
(*                                                                         *)
(* A pool is a circular_buffer, here the queue of BoundedQueue that        *)
(* CircularBuffer is shown to implement.  The maps themselves have no      *)
(* lock: looking a pool up and using it are two steps of a network thread, *)
(* and Shutdown frees the pools one at a time before it clears the maps.   *)
(***************************************************************************)
EXTENDS Naturals, FiniteSets, SequencesExt

CONSTANTS NumClasses,   \* packet classes, ordered as their (type, subtype) keys
          PoolSize,     \* packets per pool, numToCreate
          Networks,     \* the connections whose handlers run on network threads
          Programs,     \* the programs the main thread may run
          MaxInits      \* how often a program initialises the factory, at most

ASSUME SizeAssumption == /\ NumClasses \in Nat \ {0}
                         /\ PoolSize \in Nat \ {0}
                         /\ MaxInits \in Nat

Classes == 1 .. NumClasses

Operations == {"register", "init", "start", "create", "release", "flush",
               "shutdown", "clear_flags", "init_copy", "shutdown_copy"}

\* An operation of main; create names the class, or none for any.
AnyClass == 0
Instructions == [op : Operations, class : Classes \cup {AnyClass}]

ASSUME ProgramAssumption == \A p \in Programs : p \in Seq(Instructions)

\* The pool made for class c by the g-th InitFactory, and its packets.
PoolIds == Classes \X (1 .. MaxInits)
Packets == PoolIds \X (1 .. PoolSize)
NoPool == <<>>

ClassOf(packet) == packet[1][1]

VARIABLES program,           \* what main runs
          at,                \* the operation main runs next
          remaining,         \* the classes the loop of that operation has left
          packs,             \* main's references, newest last, and whether it wrote them
          typeRegistered,    \* s_typeRegistered of each class
          methods,           \* s_methods: the classes found by name
          allocationMethods, \* s_allocationMethods: the classes found by type
          creationPool,      \* s_creationPool: the pool pointer of each class
          pools,             \* the contents of every pool ever made
          freed,             \* the pools that were deleted
          inits,             \* the number of InitFactory calls so far
          started,           \* the network threads run
          handler,           \* what each network thread is doing
          inward,            \* inwardPackets of each connection
          faults             \* what went wrong: unknown, assert, null, dangling

mainVars == <<program, at, remaining, packs>>
registryVars == <<typeRegistered, methods, allocationMethods>>
poolVars == <<creationPool, pools, freed, inits>>
networkVars == <<started, handler, inward>>
vars == <<mainVars, registryVars, poolVars, networkVars, faults>>

Idle == [doing |-> "idle"]

Init == /\ program \in Programs
        /\ at = 1
        /\ remaining = Classes
        /\ packs = <<>>
        /\ typeRegistered = [c \in Classes |-> FALSE]
        /\ methods = {} /\ allocationMethods = {}
        /\ creationPool = [c \in Classes |-> NoPool]
        /\ pools = [p \in PoolIds |-> <<>>]
        /\ freed = {}
        /\ inits = 0
        /\ started = FALSE
        /\ handler = [n \in Networks |-> Idle]
        /\ inward = [n \in Networks |-> <<>>]
        /\ faults = {}

-----------------------------------------------------------------------------
(* A null or dangling pointer that is used ends the process; _ASSERT(0) is *)
(* compiled out of the release build and execution goes on after it.       *)
Running == faults \cap {"null", "dangling"} = {}

Fails(f) == faults' = faults \cup f

\* The pools after one more packet was put in pool p (circular_buffer::put).
PutIn(p, packet) ==
    LET q == pools[p] IN
    [pools EXCEPT ![p] = IF Len(q) = PoolSize THEN Append(Tail(q), packet)
                         ELSE Append(q, packet)]

\* Main is at operation op, with class c the next of its loop.
AtOperation(op) == Running /\ at <= Len(program) /\ program[at].op = op

NextClass(c) == c \in remaining /\ \A d \in remaining : c <= d

\* One turn of a loop over the classes; the last one ends the operation.
LoopTurn(c) == IF remaining = {c}
               THEN remaining' = Classes /\ at' = at + 1
               ELSE remaining' = remaining \ {c} /\ at' = at

Advance == at' = at + 1 /\ UNCHANGED remaining

-----------------------------------------------------------------------------
(* Registration: SelfRegistery before main, MockRegistery in the tests.    *)
(* Register fills each of the two maps that lacks the class, and tells     *)
(* whether it changed one.                                                 *)
Register(c) ==
    /\ AtOperation("register") /\ NextClass(c)
    /\ LoopTurn(c)
    /\ IF typeRegistered[c]
       THEN UNCHANGED registryVars
       ELSE /\ allocationMethods' = allocationMethods \cup {c}
            /\ methods' = methods \cup {c}
            /\ typeRegistered' = [typeRegistered EXCEPT
                   ![c] = c \notin allocationMethods \/ c \notin methods]
    /\ UNCHANGED <<program, packs, poolVars, networkVars, faults>>

\* Faulty variant: FactoryMock's destructor forgets the flags.
ClearFlagsForgotten ==
    /\ AtOperation("clear_flags")
    /\ Advance
    /\ packs' = <<>>
    /\ UNCHANGED <<program, registryVars, poolVars, networkVars, faults>>

\* FactoryMock's destructor, after Shutdown: the classes may register again.
\* The test returns, and the references it still holds go with its locals.
ClearFlags ==
    /\ AtOperation("clear_flags")
    /\ Advance
    /\ typeRegistered' = [c \in Classes |-> FALSE]
    /\ packs' = <<>>
    /\ UNCHANGED <<program, methods, allocationMethods, poolVars, networkVars, faults>>

\* Faulty variant: the allocation counts from one, not from zero.
FilledOffByOne(p) == [i \in 1 .. PoolSize |-> <<p, i + 1>>]

\* Allocate: a pool filled to its capacity.
Filled(p) == [i \in 1 .. PoolSize |-> <<p, i>>]

\* One turn of the loop that makes the pools; classes that are not wanted keep
\* what they have.
MakePool(c, op, wanted) ==
    /\ AtOperation(op) /\ NextClass(c)
    /\ LoopTurn(c)
    /\ LET g == IF remaining = Classes THEN inits + 1 ELSE inits
           p == <<c, g>>
       IN  /\ g <= MaxInits
           /\ inits' = g
           /\ IF c \in allocationMethods /\ wanted
              THEN /\ pools' = [pools EXCEPT ![p] = Filled(p)]
                   /\ creationPool' = [creationPool EXCEPT ![c] = p]
              ELSE UNCHANGED <<pools, creationPool>>
    /\ UNCHANGED <<program, packs, registryVars, freed, networkVars, faults>>

\* Faulty variant: the loop ends before the last class.
InitFactoryButLast(c) == MakePool(c, "init", creationPool[c] = NoPool /\ c # NumClasses)

\* InitFactory, for one class: a registered class without a pool gets a full one.
InitFactory(c) == MakePool(c, "init", creationPool[c] = NoPool)

\* Init of the older copy of the class does not look for a pool.
InitCopy(c) == MakePool(c, "init_copy", TRUE)

\* One turn of the loop that deletes the pools, and what follows the last one.
DeletePool(c, op, mapsAreCleared) ==
    /\ AtOperation(op) /\ NextClass(c)
    /\ LoopTurn(c)
    /\ freed' = IF creationPool[c] = NoPool THEN freed ELSE freed \cup {creationPool[c]}
    /\ IF remaining = {c} /\ mapsAreCleared
       THEN /\ creationPool' = [d \in Classes |-> NoPool]
            /\ methods' = {} /\ allocationMethods' = {}
       ELSE UNCHANGED <<creationPool, methods, allocationMethods>>
    /\ UNCHANGED <<program, packs, typeRegistered, pools, inits, networkVars, faults>>

Shutdown(c) == DeletePool(c, "shutdown", TRUE)

\* Shutdown of the older copy leaves the maps as they are.
ShutdownCopy(c) == DeletePool(c, "shutdown_copy", FALSE)

\* Starting the server hands connections to the network threads.
StartNetwork ==
    /\ AtOperation("start")
    /\ Advance
    /\ started' = TRUE
    /\ UNCHANGED <<program, packs, registryVars, poolVars, handler, inward, faults>>

-----------------------------------------------------------------------------
(* Create and Release by the main thread, which is also the only one that  *)
(* initialises and shuts down.                                             *)

\* Create(name) makes a throw-away packet to learn its type and goes on as
\* Create(type, subtype), which asserts that the type has a pool.  The
\* programs use what they get without looking: a null packet ends them.
MainCreate(c, byName) ==
    LET p == creationPool[c]
        known == byName => c \in methods
        ready == known /\ p # NoPool /\ pools[p] # <<>>
    IN  /\ AtOperation("create")
        /\ program[at].class \in {AnyClass, c}
        /\ Advance
        /\ \/ /\ ready
              /\ packs' = Append(packs, [packet |-> Head(pools[p]), written |-> FALSE])
              /\ pools' = [pools EXCEPT ![p] = Tail(@)]
              /\ UNCHANGED faults
           \/ /\ ~ready
              /\ Fails(IF known /\ p = NoPool THEN {"assert", "null"} ELSE {"null"})
              /\ UNCHANGED <<packs, pools>>
        /\ UNCHANGED <<program, registryVars, creationPool, freed, inits, networkVars>>

\* The references that main may hand back, in any order.
Held == {i \in DOMAIN packs : ~packs[i].written}

\* Release takes the caller's reference: put(std::move(data)).  Without a
\* pool it returns false and the caller keeps the packet.
ReleaseOf(packet) ==
    IF creationPool[ClassOf(packet)] = NoPool THEN pools
    ELSE PutIn(creationPool[ClassOf(packet)], packet)

\* Faulty variant: Release copies the reference, the caller keeps it.
HandleKept(i) == packs

HandleAfterRelease(i) ==
    IF creationPool[ClassOf(packs[i].packet)] = NoPool THEN packs
    ELSE RemoveAt(packs, i)

MainRelease(i) ==
    /\ AtOperation("release") /\ i \in Held
    /\ Advance
    /\ pools' = ReleaseOf(packs[i].packet)
    /\ packs' = HandleAfterRelease(i)
    /\ UNCHANGED <<program, registryVars, creationPool, freed, inits, networkVars, faults>>

\* A copy of main's reference is released and main's own stays: the deque's
\* copy of a packet that was given to TCPClient::Write, or the copy that a
\* loop over an array of packets makes.
Flush(i) ==
    /\ AtOperation("flush") /\ i \in Held
    /\ Advance
    /\ pools' = ReleaseOf(packs[i].packet)
    /\ packs' = [packs EXCEPT ![i].written = TRUE]
    /\ UNCHANGED <<program, registryVars, creationPool, freed, inits, networkVars, faults>>

MainStep == \/ \E c \in Classes : \/ Register(c)
                                  \/ InitFactory(c) \/ Shutdown(c)
                                  \/ InitCopy(c) \/ ShutdownCopy(c)
                                  \/ \E byName \in BOOLEAN : MainCreate(c, byName)
            \/ \E i \in Held : MainRelease(i) \/ Flush(i)
            \/ ClearFlags \/ StartNetwork

-----------------------------------------------------------------------------
(* The network threads.  The read handler of a connection creates one      *)
(* packet for each frame; DequeMessage hands the oldest one back.          *)

\* What the bytes on the wire name: a class, or none that was ever registered
\* (a ServerTickPacket, or bytes that are not a packet's header).
Unknown == 0
OnTheWire == Classes \cup {Unknown}

HasPool(c) == c \in Classes /\ creationPool[c] # NoPool

\* Create(type, subtype) looks up the pool of the type on the wire.  The
\* caller dereferences the result: without a pool the null one.
FindPool(n, c) ==
    /\ Running /\ started /\ handler[n] = Idle
    /\ \/ /\ HasPool(c)
          /\ handler' = [handler EXCEPT ![n] = [doing |-> "get", pool |-> creationPool[c]]]
          /\ UNCHANGED faults
       \/ /\ ~HasPool(c)
          /\ Fails({"assert", "null"} \cup (IF c = Unknown THEN {"unknown"} ELSE {}))
          /\ UNCHANGED handler
    /\ UNCHANGED <<mainVars, registryVars, poolVars, started, inward>>

\* Faulty variant: the packet is copied out of the pool and stays there.
GetWithoutRemoving(n) ==
    /\ Running /\ handler[n].doing = "get"
    /\ handler' = [handler EXCEPT ![n] = Idle]
    /\ handler[n].pool \notin freed /\ pools[handler[n].pool] # <<>>
    /\ inward' = [inward EXCEPT ![n] = Append(@, Head(pools[handler[n].pool]))]
    /\ UNCHANGED <<pools, faults>>
    /\ UNCHANGED <<mainVars, registryVars, creationPool, freed, inits, started>>

\* it->second->get(), and the packet reads itself from the buffer.
GetFromPool(n) ==
    LET p == handler[n].pool IN
    /\ Running /\ handler[n].doing = "get"
    /\ handler' = [handler EXCEPT ![n] = Idle]
    /\ \/ /\ p \in freed
          /\ Fails({"dangling"})
          /\ UNCHANGED <<pools, inward>>
       \/ /\ p \notin freed /\ pools[p] = <<>>
          /\ Fails({"null"})
          /\ UNCHANGED <<pools, inward>>
       \/ /\ p \notin freed /\ pools[p] # <<>>
          /\ inward' = [inward EXCEPT ![n] = Append(@, Head(pools[p]))]
          /\ pools' = [pools EXCEPT ![p] = Tail(@)]
          /\ UNCHANGED faults
    /\ UNCHANGED <<mainVars, registryVars, creationPool, freed, inits, started>>

\* DequeMessage: the oldest packet leaves inwardPackets and Release looks up
\* its pool; without one the last reference goes with the local variable.
DequeMessage(n) ==
    /\ Running /\ handler[n] = Idle /\ inward[n] # <<>>
    /\ inward' = [inward EXCEPT ![n] = Tail(@)]
    /\ LET packet == Head(inward[n])
           p == creationPool[ClassOf(packet)]
       IN  handler' = [handler EXCEPT
               ![n] = IF p = NoPool THEN Idle
                      ELSE [doing |-> "put", pool |-> p, packet |-> packet]]
    /\ UNCHANGED <<mainVars, registryVars, poolVars, started, faults>>

PutIntoPool(n) ==
    /\ Running /\ handler[n].doing = "put"
    /\ handler' = [handler EXCEPT ![n] = Idle]
    /\ IF handler[n].pool \in freed
       THEN Fails({"dangling"}) /\ UNCHANGED pools
       ELSE pools' = PutIn(handler[n].pool, handler[n].packet) /\ UNCHANGED faults
    /\ UNCHANGED <<mainVars, registryVars, creationPool, freed, inits, started, inward>>

\* A closed connection is destroyed with the packets nobody dequeued.
Disconnect(n) ==
    /\ Running /\ handler[n] = Idle /\ inward[n] # <<>>
    /\ inward' = [inward EXCEPT ![n] = <<>>]
    /\ UNCHANGED <<mainVars, registryVars, poolVars, started, handler, faults>>

NetworkStep(n) == \/ \E c \in OnTheWire : FindPool(n, c)
                  \/ GetFromPool(n) \/ DequeMessage(n) \/ PutIntoPool(n) \/ Disconnect(n)

Next == MainStep \/ \E n \in Networks : NetworkStep(n)

Spec == Init /\ [][Next]_vars

-----------------------------------------------------------------------------
LivePools == {creationPool[c] : c \in Classes} \ (freed \cup {NoPool})

InPool(p, x) == \E i \in 1 .. Len(pools[p]) : pools[p][i] = x

\* Everything that can hand out or use a packet, as <<holder, position>>.
\* What main has written belongs to the client and then to the pool.
Places(x) ==
         {v \in LivePools \X (1 .. PoolSize) : v[2] <= Len(pools[v[1]]) /\ pools[v[1]][v[2]] = x}
    \cup {<<"main", i>> : i \in {j \in DOMAIN packs : packs[j] = [packet |-> x, written |-> FALSE]}}
    \cup (UNION {{<<n, i>> : i \in {j \in DOMAIN inward[n] : inward[n][j] = x}} : n \in Networks})
    \cup {<<n, "put">> : n \in {m \in Networks : handler[m].doing = "put" /\ handler[m].packet = x}}

(* The registry, the pools and the holders of packets have their types.    *)
TypeOK == /\ program \in Programs
          /\ at \in 1 .. Len(program) + 1
          /\ remaining \subseteq Classes /\ remaining # {}
          /\ packs \in Seq([packet : Packets, written : BOOLEAN])
          /\ typeRegistered \in [Classes -> BOOLEAN]
          /\ methods \subseteq Classes /\ allocationMethods \subseteq Classes
          /\ creationPool \in [Classes -> PoolIds \cup {NoPool}]
          /\ \A p \in PoolIds : pools[p] \in Seq(Packets) /\ Len(pools[p]) <= PoolSize
          /\ freed \subseteq PoolIds
          /\ inits \in 0 .. MaxInits
          /\ started \in BOOLEAN
          /\ \A n \in Networks : /\ inward[n] \in Seq(Packets)
                                 /\ handler[n].doing \in {"idle", "get", "put"}
          /\ faults \subseteq {"unknown", "assert", "null", "dangling"}

(* A packet is in one place: two threads that Create at the same time, or  *)
(* one that Creates while another Releases, never end up with the same     *)
(* object, and a packet in use is not in the pool.                         *)
OnePlacePerPacket == \A x \in Packets : Cardinality(Places(x)) <= 1

Starts(p) == \E i \in 1 .. Len(p) : p[i].op = "start"

(* put on a full pool would silently destroy a packet that is ready for    *)
(* use.  Releases never do: a packet leaves a live pool only for the hands *)
(* of a caller of Create.                                                  *)
PacketsLeavePoolsByCreate ==
    [][\A p \in LivePools, x \in Packets :
          InPool(p, x) /\ p \notin freed' => Places(x)' # {}]_vars

\* What a program does for that: it gives up what it created before it calls
\* InitFactory, and calls it again only after Shutdown, without network threads.
Initializes(p, i) == p[i].op \in {"init", "init_copy"}
OneFactoryAtATime(p) ==
    \A i, j \in 1 .. Len(p) : i < j /\ Initializes(p, j) =>
        /\ p[i].op = "create" => \E k \in i .. j : p[k].op = "clear_flags"
        /\ Initializes(p, i) => ~Starts(p) /\ \E k \in i .. j : p[k].op = "shutdown"

\* What a program does in order not to run out: it registers again only after
\* clearing the flags, and creates a packet only between InitFactory and
\* Shutdown, and only when it holds fewer than a pool has, or has created fewer
\* of that class.
RegistersAnew(p) ==
    \A i, j \in 1 .. Len(p) : i < j /\ p[i].op = "shutdown" /\ p[j].op = "register" =>
        \E k \in i .. j : p[k].op = "clear_flags"

Creates(p, j, i, cs) == {k \in j .. i - 1 : p[k].op = "create" /\ p[k].class \in cs}
Gives(p, j, i) == {k \in j .. i - 1 : p[k].op \in {"release", "flush"}}
EndsCycle == {"shutdown", "shutdown_copy", "clear_flags"}

CreatesWhatIsThere(p) ==
    \A i \in 1 .. Len(p) : p[i].op = "create" =>
        \E j \in 1 .. i - 1 : \E r \in 1 .. j - 1 :
            /\ p[r].op = "register" /\ Initializes(p, j)
            /\ \A k \in r .. i : p[k].op \notin EndsCycle
            /\ \/ Cardinality(Creates(p, j, i, Classes \cup {AnyClass}))
                    < PoolSize + Cardinality(Gives(p, j, i))
               \/ \A c \in Classes : p[i].class \in {AnyClass, c} =>
                      Cardinality(Creates(p, j, i, {AnyClass, c})) < PoolSize

KeepsTheCycle(p) == OneFactoryAtATime(p) /\ RegistersAnew(p) /\ CreatesWhatIsThere(p)
Orderly == {p \in Programs : ~Starts(p) /\ KeepsTheCycle(p)}

(* The factory cycles of the unit tests (register, InitFactory, use,       *)
(* Shutdown, clear the flags, and again) never meet a missing pool, a null *)
(* packet or a deleted pool, however often they are repeated and in        *)
(* whatever order a test releases what it created; nor does the client, as *)
(* long as no more keys are pressed than its pool has packets left.        *)
TestsNeverFail == program \in Orderly => faults = {}

(* While the server serves, from the last pool that InitFactory makes to   *)
(* the first that Shutdown deletes, no network thread uses a deleted pool, *)
(* and Create asserts only if no class has the type on the wire: every     *)
(* registered class has its pool.  BoostASIO_Server03.cpp starts the       *)
(* server too early and ends it too late, when a class may lack its pool.  *)
Reached(op) == \E i \in 1 .. at - 1 : program[i].op = op
Serving == Reached("init") /\ ~Reached("shutdown")
           /\ (at <= Len(program) /\ program[at].op = "shutdown" => remaining = Classes)

\* What a program with network threads does in order for that: it uses the
\* current factory and registers its classes before it calls InitFactory.
InOrder(p) ==
    \A i \in 1 .. Len(p) : /\ p[i].op \notin {"init_copy", "shutdown_copy"}
                           /\ p[i].op = "init" => \E j \in 1 .. i - 1 : p[j].op = "register"
RegistersFirst(p) == Starts(p) => InOrder(p)

ServiceIsSafe ==
    started /\ Serving => /\ "dangling" \notin faults
                          /\ "assert" \in faults => "unknown" \in faults
=============================================================================
