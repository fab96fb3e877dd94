------------------------------- MODULE Framing -------------------------------
(***************************************************************************)
(* Packets on a TCP connection: TCPClient::start_write wraps each in a     *)
(* SizePacket and writes it, TCPConnection::Start reads what has arrived   *)
(* and unwraps it (OldCode/Packets/BasePacket.cpp, MovementPacket.cpp,     *)
(* Socket/ClientSocket.h, Socket/Socket.cpp).                              *)
(*                                                                         *)
(* The transport is external.  It keeps the bytes in order; a read gets    *)
(* any number of those that have arrived.  One that ends inside a frame is *)
(* a cut.  The transport is chosen at the start: one that never cuts, or   *)
(* one that may.                                                           *)
(*                                                                         *)
(* The writes find their bytes in the state start_write left them in,      *)
(* although its buffer is a local variable.                                *)
(***************************************************************************)
EXTENDS Naturals, Sequences, FiniteSets, SequencesExt

CONSTANTS Classes,     \* the classes of packets the client writes
          MaxPackets,  \* packets the client writes, at most
          MaxCuts,     \* reads that end inside a frame, at most
          PoolSize,    \* packets of a class that the factory has for this connection
          Fills,       \* what memory that was never written may hold
          max_length,  \* the size of receiveBuffer
          write_length \* the size of start_write's buffer

\* The (type, subtype) of the classes the factory registers, and how many
\* bytes each has after those of BasePacket.
BasePacket == <<0, 0>>
ConnectionCommsPacket == <<0, 2>>
PositionPacket == <<2, 1>>
MovementPacket == <<2, 2>>

MoreBytes(class) == CASE class = BasePacket -> 0
                      [] class = ConnectionCommsPacket -> 2
                      [] class = PositionPacket -> 2 + 8 + 4
                      [] class = MovementPacket -> 2 + 8 + 4 + 8

Registered == {BasePacket, ConnectionCommsPacket, PositionPacket, MovementPacket}

ASSUME ClassAssumption == Classes \subseteq Registered
ASSUME BoundAssumption == /\ MaxPackets \in 0 .. 255 /\ MaxCuts \in Nat
                          /\ PoolSize \in Nat
                          /\ Fills \subseteq 0 .. 255
                          /\ max_length \in Nat \ {0} /\ write_length \in Nat

VARIABLES whole,         \* the transport never cuts a frame
          cuts,          \* cuts so far
          written,       \* packets given to Write so far
          queue,         \* packetOutDeque
          wire,          \* the packets whose frames were put on the wire
          stream,        \* bytes on the wire that were not read yet
          fill,          \* what unwritten memory holds
          receiveBuffer,
          length,        \* bytes that the last read put there
          inOffset,
          at,            \* the server: reading, parsing, crashed
          inwardPackets

clientVars == <<written, queue, wire>>
bufferVars == <<fill, receiveBuffer, length>>
vars == <<whole, cuts, clientVars, stream, bufferVars, inOffset, at, inwardPackets>>

-----------------------------------------------------------------------------
(* Serialization.                                                          *)

U16Out(v) == <<v \div 256, v % 256>>

BasePacketOut(p) == <<p.type, p.subtype, p.major, p.minor, p.product>> \o U16Out(p.instance)

PacketOut(p) == BasePacketOut(p) \o p.more

\* SizePacket::SerializeOut: PacketType_NetworkProtocol, the size, the packet.
FrameOut(p) == LET body == PacketOut(p) IN <<3>> \o U16Out(Len(body)) \o body

FrameLength(p) == 3 + 7 + Len(p.more)

Frames(packets) == FlattenSeq([i \in DOMAIN packets |-> FrameOut(packets[i])])

\* How many bytes there are before the i-th of the packets.
StartOf(packets, i) ==
    LET start[j \in 1 .. i] == IF j = 1 THEN 0 ELSE start[j - 1] + FrameLength(packets[j - 1])
    IN  start[i]

\* Behind receiveBuffer lies other memory.
Byte(i) == IF i < max_length THEN receiveBuffer[i] ELSE fill
U16In(i) == 256 * Byte(i) + Byte(i + 1)

\* Faulty variant: SerializeIn reads the fields in the order of the class, not
\* in that of SerializeOut.
BasePacketInClassOrder(i) ==
    [type |-> Byte(i), subtype |-> Byte(i + 1), product |-> Byte(i + 2),
     major |-> Byte(i + 3), minor |-> Byte(i + 4), instance |-> U16In(i + 5)]

BasePacketIn(i) == [type |-> Byte(i), subtype |-> Byte(i + 1), major |-> Byte(i + 2),
                    minor |-> Byte(i + 3), product |-> Byte(i + 4), instance |-> U16In(i + 5)]

\* The packet of the given class that begins at offset i.
PacketIn(class, i) ==
    LET base == BasePacketIn(i) IN
    [type |-> base.type, subtype |-> base.subtype, major |-> base.major, minor |-> base.minor,
     product |-> base.product, instance |-> base.instance,
     more |-> [j \in 1 .. MoreBytes(class) |-> Byte(i + 6 + j)]]

\* Faulty variant: the bytes of the header are not counted.
WithoutHeader(offset, total) == U16In(offset + 1) + offset <= total

\* Faulty variant: a frame that ends with the buffer does not fit.
StrictlyBigEnough(offset, total) == U16In(offset + 1) + offset + 3 < total

IsRemainingBufferBigenough(offset, total) ==
    LET probeOffset == offset + 3 IN U16In(offset + 1) + probeOffset <= total

-----------------------------------------------------------------------------
Init == /\ whole \in BOOLEAN
        /\ cuts = 0
        /\ written = 0 /\ queue = <<>> /\ wire = <<>>
        /\ stream = <<>>
        /\ fill \in Fills
        /\ receiveBuffer = [i \in 0 .. max_length - 1 |-> fill]
        /\ length = 0 /\ inOffset = 0
        /\ at = "reading"
        /\ inwardPackets = <<>>

\* A packet from the factory, filled in: the n-th one says so.
NewPacket(class, n) ==
    [type |-> class[1], subtype |-> class[2], major |-> 51, minor |-> 0, product |-> 56,
     instance |-> n, more |-> [i \in 1 .. MoreBytes(class) |-> i]]

\* TCPClient::Write
Write(class) ==
    /\ written < MaxPackets
    /\ StartOf(queue, Len(queue) + 1) + 10 + MoreBytes(class) <= write_length
    /\ written' = written + 1
    /\ queue' = Append(queue, NewPacket(class, written + 1))
    /\ UNCHANGED <<whole, cuts, wire, stream, bufferVars, inOffset, at, inwardPackets>>

\* Faulty variant: one write after the loop, of the last packet only.
LastOnly(packets) == <<packets[Len(packets)]>>

\* The writes of one start_write: outOffset is not reset between the packets,
\* so the n-th write begins with the first n - 1 frames again.
Writes(packets) == FlattenSeq([n \in DOMAIN packets |-> SubSeq(packets, 1, n)])

StartWrite ==
    /\ queue # <<>>
    /\ wire' = wire \o Writes(queue)
    /\ stream' = stream \o Frames(Writes(queue))
    /\ queue' = <<>>
    /\ UNCHANGED <<whole, cuts, written, bufferVars, inOffset, at, inwardPackets>>

-----------------------------------------------------------------------------
(* The server.                                                             *)

\* Where on the wire the next unread byte is, and where frames begin.
Taken == StartOf(wire, Len(wire) + 1) - Len(stream)
Boundaries == {StartOf(wire, i) : i \in 1 .. Len(wire) + 1}

\* Faulty variant: async_read_some is not told the size of the buffer.
Unlimited == Len(stream)

\* async_read_some gets max_length bytes at most.
ReadLimit == IF Len(stream) < max_length THEN Len(stream) ELSE max_length

\* async_read_some completes with n bytes.
Receive(n) ==
    /\ at = "reading" /\ at' = "parsing"
    /\ receiveBuffer' = [i \in 0 .. max_length - 1 |->
                            IF i < n THEN stream[i + 1] ELSE receiveBuffer[i]]
    /\ stream' = SubSeq(stream, n + 1, Len(stream))
    /\ length' = n
    /\ inOffset' = 0
    /\ UNCHANGED <<whole, clientVars, fill, inwardPackets>>

\* The lengths of the reads that end with a frame.
WholeReads == LET taken == Taken IN {b - taken : b \in Boundaries} \cap 1 .. ReadLimit

ReadWhole == (\E n \in WholeReads : Receive(n)) /\ UNCHANGED cuts

ReadCut == /\ ~whole /\ cuts < MaxCuts
           /\ \E n \in 1 .. ReadLimit \ WholeReads : Receive(n)
           /\ cuts' = cuts + 1

\* Nothing calls DequeMessage, so every packet of a class that was read is
\* still in inwardPackets; PacketMethodFactory::Create finds the pool empty
\* when they are as many as it held.
ClassOf(p) == <<p.type, p.subtype>>
IsExhausted(class) ==
    Cardinality({i \in DOMAIN inwardPackets : ClassOf(inwardPackets[i]) = class}) >= PoolSize

\* One turn of the loop.  SizePacket::SerializeIn skips the header, probes
\* for the class and lets a packet from the factory read itself; Create
\* returns null, which is used all the same, for a class without a pool (after
\* an assertion) and for one whose pool is empty.
SerializeIn ==
    LET body == inOffset + 3
        class == <<Byte(body), Byte(body + 1)>>
    IN  /\ at = "parsing"
        /\ IsRemainingBufferBigenough(inOffset, length)
        /\ \/ /\ class \in Registered /\ ~IsExhausted(class)
              /\ inwardPackets' = Append(inwardPackets, PacketIn(class, body))
              /\ inOffset' = body + 7 + MoreBytes(class)
              /\ UNCHANGED at
           \/ /\ class \notin Registered \/ IsExhausted(class)
              /\ at' = "crashed"
              /\ UNCHANGED <<inwardPackets, inOffset>>
        /\ UNCHANGED <<whole, cuts, clientVars, stream, bufferVars>>

\* The rest of the buffer is dropped; RescheduleMe leads to the next read.
ReadAgain ==
    /\ at = "parsing" /\ at' = "reading"
    /\ ~IsRemainingBufferBigenough(inOffset, length)
    /\ UNCHANGED <<whole, cuts, clientVars, stream, bufferVars, inOffset, inwardPackets>>

ServerStep == ReadWhole \/ ReadCut \/ SerializeIn \/ ReadAgain

Next == (\E class \in Classes : Write(class)) \/ StartWrite \/ ServerStep

Spec == Init /\ [][Next]_vars

\* The server's threads run, and what arrived is read.
FairSpec == Spec /\ WF_vars(ServerStep)

-----------------------------------------------------------------------------
Stream == INSTANCE PacketStream WITH sent <- wire, received <- inwardPackets

\* Every variable has its type; a read fits the buffer.
TypeOK ==
    /\ whole \in BOOLEAN /\ cuts \in 0 .. MaxCuts
    /\ written \in 0 .. MaxPackets
    /\ Len(queue) <= written
    /\ stream \in Seq(0 .. 255) /\ Len(stream) <= StartOf(wire, Len(wire) + 1)
    /\ receiveBuffer \in [0 .. max_length - 1 -> 0 .. 255]
    /\ length \in 0 .. max_length
    /\ at \in {"reading", "parsing", "crashed"}
    /\ \A i \in DOMAIN inwardPackets : ClassOf(inwardPackets[i]) \in Registered

\* The read loop, over reads that join any number of frames of any classes
\* and a buffer that still holds earlier ones, delivers what was sent.
IsPacketStream == Stream!Spec

\* Wherever cuts and misread frames have led the loop: when it stands at the
\* beginning of a frame it goes on only when it has all of it, and then reads
\* the packet that was sent in it unless the pool of its class is empty, which
\* is the one reason to crash there.
FramesReadAsSent ==
    [][\A i \in DOMAIN wire :
          (/\ inwardPackets' # inwardPackets \/ (at = "parsing" /\ at' = "crashed")
           /\ Taken - length + inOffset = StartOf(wire, i)) =>
              /\ StartOf(wire, i + 1) <= Taken
              /\ IF IsExhausted(ClassOf(wire[i]))
                 THEN at' = "crashed" /\ inwardPackets' = inwardPackets
                 ELSE /\ inwardPackets' = Append(inwardPackets, wire[i])
                      /\ inOffset' = inOffset + FrameLength(wire[i])]_vars

\* From Write to inwardPackets: start_write's repetitions may deliver a packet
\* again, but none arrives before those written earlier.
NoneSkipped ==
    whole => \A i \in DOMAIN inwardPackets : \A n \in 1 .. inwardPackets[i].instance :
                 \E j \in 1 .. i : inwardPackets[j].instance = n

\* The next packet on the wire has a class whose pool is empty.
NextExhausted == /\ Len(inwardPackets) < Len(wire)
                 /\ IsExhausted(ClassOf(wire[Len(inwardPackets) + 1]))

\* The last frame of a read is not left behind: all frames arrive, or all
\* before the first one that the pools have no packet for.
EveryFrameArrives == whole => []<>(inwardPackets = wire \/ NextExhausted)

\* The size in the header is there "for predicting the next length": what is
\* delivered is what was sent, wherever the transport cuts it.
ReceivedAsSent == IsPrefix(inwardPackets, wire)
=============================================================================
