--------------------------- MODULE TcpClientProofs ---------------------------
(***************************************************************************)
(* For every number of endpoints and packets and all time limits, TCPClient *)
(* keeps its types and never has two actors where there should be one, each *)
(* pending operation has its own deadline, and a packet that leaves the     *)
(* queue is on the wire as long as the connection lasts.                    *)
(***************************************************************************)
EXTENDS TcpClient, FiniteSetTheorems, TLAPS

-----------------------------------------------------------------------------
(* The inductive invariant.                                                *)

Handlers == [wait : Nat, ready : Nat]
Count(h) == h.wait + h.ready

Ops == [pending : Nat, ok : Nat, error : Nat]
Total(ops) == ops.pending + ops.ok + ops.error

\* Variables have types, whatever they say of each other.
Types ==
    /\ started \in BOOLEAN /\ stopped \in BOOLEAN /\ isConnected \in BOOLEAN
    /\ endpoints \in 0 .. NumEndpoints /\ endpoint \in 1 .. endpoints + 1
    /\ socket \in {"closed", "open"}
    /\ connectOp \in {"none", "pending", "ok", "error"}
    /\ readOp \in {"none", "pending", "line", "error"}
    /\ writeOps \in Ops
    /\ deadline \in 0 .. Never
    /\ checks \in Handlers
    /\ heartbeat \in 0 .. HeartbeatPeriod
    /\ writers \in Handlers
    /\ written \in 0 .. MaxPackets
    /\ queue \in Seq(Packets)
    /\ sent \in [Packets -> 0 .. MaxPackets]

\* The connect actor ends before the read actor begins, and both are watched
\* by one deadline actor from start to stop.
ActorInv ==
    /\ ~started => ~stopped /\ ~isConnected /\ Count(checks) = 0 /\ connectOp = "none" /\ readOp = "none"
    /\ stopped => connectOp # "pending" /\ readOp # "pending"
    /\ Count(checks) <= 1
    /\ started /\ ~stopped => Count(checks) = 1
    /\ connectOp = "pending" => deadline <= ConnectTimeout
    /\ readOp = "pending" => deadline <= ReadTimeout
    /\ connectOp # "none" => readOp = "none" /\ ~isConnected
    /\ connectOp # "none" /\ ~stopped => endpoint <= endpoints

\* Every write, every wait of the heartbeat timer and every start_write has a
\* packet of its own that left the queue, and begins on a connection.
WriteInv ==
    /\ Total(writeOps) + Count(writers) + Len(queue) <= written
    /\ Total(writeOps) + Count(writers) > 0 /\ ~stopped => isConnected

\* The queue holds the packets written last, in order, and none of them was
\* sent; those before them were, unless the connection is lost.
QueueInv ==
    /\ \A i \in 1 .. Len(queue) : queue[i] = written - Len(queue) + i
    /\ \A p \in Packets :
          IF p > written - Len(queue)
          THEN sent[p] = 0
          ELSE sent[p] > 0 \/ stopped \/ (isConnected /\ socket = "closed")

Inv == Types /\ ActorInv /\ WriteInv /\ QueueInv

-----------------------------------------------------------------------------
(* What Boost.Asio does, counted.                                          *)

\* Handlers and writes are counted by natural numbers.
LEMMA CountNat ==
    /\ \A h \in Handlers : Count(h) \in Nat
    /\ \A ops \in Ops : Total(ops) \in Nat
  BY DEF Handlers, Count, Ops, Total

\* Cancelling a timer loses no handler.
LEMMA CancelledCount ==
    ASSUME NEW h \in Handlers
    PROVE  Cancelled(h) \in Handlers /\ Count(Cancelled(h)) = Count(h)
  BY DEF Cancelled, Handlers, Count

\* A handler that runs is one less.
LEMMA TakenCount ==
    ASSUME NEW h \in Handlers, h.ready > 0
    PROVE  Taken(h) \in Handlers /\ Count(Taken(h)) = Count(h) - 1 /\ Count(h) > 0
  BY DEF Taken, Handlers, Count

\* A new wait is one handler more.
LEMMA WaitingCount ==
    ASSUME NEW h \in Handlers, NEW left
    PROVE  Waiting(h, left) \in Handlers /\ Count(Waiting(h, left)) = Count(h) + 1
  BY DEF Waiting, Handlers, Count

\* Closing the socket leaves as many writes, none of them pending.
LEMMA AbortedTotal ==
    ASSUME NEW ops \in Ops
    PROVE  /\ AbortedWrites(ops) \in Ops /\ Total(AbortedWrites(ops)) = Total(ops)
           /\ AbortedWrites(ops).pending = 0
  BY DEF AbortedWrites, Ops, Total

\* A handler of a write takes it away.
LEMMA WriteTaken ==
    ASSUME NEW ops \in Ops, NEW result \in {"ok", "error"}, ops[result] > 0
    PROVE  /\ [ops EXCEPT ![result] = @ - 1] \in Ops
           /\ Total([ops EXCEPT ![result] = @ - 1]) = Total(ops) - 1 /\ Total(ops) > 0
  <1>1. CASE result = "ok"
    BY <1>1 DEF Ops, Total
  <1>2. CASE result = "error"
    BY <1>2 DEF Ops, Total
  <1>3. QED
    BY <1>1, <1>2

\* A write that completes is still one write.
LEMMA CompletedTotal ==
    ASSUME NEW ops \in Ops, NEW result \in {"ok", "error"}, ops.pending > 0
    PROVE  Completed(ops, result) \in Ops /\ Total(Completed(ops, result)) = Total(ops)
  <1> DEFINE less == [ops EXCEPT !.pending = @ - 1]
  <1>1. /\ less \in Ops /\ less.pending = ops.pending - 1 /\ less.ok = ops.ok /\ less.error = ops.error
    BY DEF Ops
  <1>2. Completed(ops, result) = [less EXCEPT ![result] = @ + 1]
    BY DEF Completed
  <1> HIDE DEF less
  <1>3. CASE result = "ok"
    BY <1>1, <1>2, <1>3 DEF Ops, Total
  <1>4. CASE result = "error"
    <2>1. Completed(ops, result) = [less EXCEPT !.error = @ + 1]
      BY <1>2, <1>4
    <2>2. /\ Completed(ops, result) \in Ops
          /\ Completed(ops, result).pending = less.pending /\ Completed(ops, result).ok = less.ok
          /\ Completed(ops, result).error = less.error + 1
      BY <1>1, <2>1 DEF Ops
    <2>3. QED
      BY <1>1, <2>2 DEF Ops, Total
  <1>5. QED
    BY <1>3, <1>4

\* New writes are as many as there are packets.
LEMMA WritesAdded ==
    ASSUME NEW ops \in Ops, NEW n \in Nat
    PROVE  /\ [ops EXCEPT !.pending = @ + n] \in Ops
           /\ Total([ops EXCEPT !.pending = @ + n]) = Total(ops) + n
           /\ [ops EXCEPT !.error = @ + n] \in Ops
           /\ Total([ops EXCEPT !.error = @ + n]) = Total(ops) + n
  BY DEF Ops, Total

\* How many writes hold a packet, when the queue has the packets that follow
\* the m-th in a row.
LEMMA HoldingWrites ==
    ASSUME NEW list \in Seq(Packets), NEW m \in Nat, \A i \in 1 .. Len(list) : list[i] = m + i,
           NEW p \in Nat
    PROVE  Cardinality(Holding(list, p)) = IF p \in m + 1 .. m + Len(list) THEN Len(list) - (p - m) + 1 ELSE 0
  <1> DEFINE n == Len(list)
  <1>a. n \in Nat
    OBVIOUS
  <1>1. CASE p \notin m + 1 .. m + n
    <2>1. \A i \in 1 .. n : list[i] # p
      BY <1>1
    <2>2. Holding(list, p) = {}
      BY <2>1 DEF Holding
    <2>3. QED
      BY <1>1, <2>2, FS_EmptySet
  <1>2. CASE p \in m + 1 .. m + n
    <2>1. PICK k \in 1 .. n : k = p - m
      BY <1>2
    <2>2. \A i \in 1 .. n : list[i] = p <=> i = k
      BY <2>1
    <2>3. Holding(list, p) = k .. n
      BY <2>2 DEF Holding
    <2> HIDE DEF n
    <2>4. Cardinality(k .. n) = IF k > n THEN 0 ELSE n - k + 1
      <3>1. k \in Int /\ n \in Int
        BY <1>a, <2>1
      <3>2. QED
        BY <3>1, FS_Interval
    <2>5. Cardinality(Holding(list, p)) = n - (p - m) + 1
      BY <1>a, <2>1, <2>3, <2>4
    <2>6. QED
      BY <1>2, <2>5 DEF n
  <1>3. QED
    BY <1>1, <1>2

-----------------------------------------------------------------------------
(* What the shared functions keep.                                         *)

\* Whoever calls stop, once the client was started, keeps the invariant.
LEMMA StopKeepsInv ==
    ASSUME Inv, started, started' = started,
           NEW c \in {"none", connectOp}, NEW r \in {"none", readOp},
           NEW w \in Ops, Total(w) <= Total(writeOps),
           NEW chk \in Handlers, Count(chk) <= Count(checks),
           NEW wrt \in Handlers, Count(wrt) = Count(writers),
           Stop(c, r, w, chk, wrt),
           endpoint' \in 1 .. endpoints + 1, UNCHANGED <<endpoints, packetVars>>
    PROVE  Inv'
  <1>1. /\ stopped' = TRUE /\ isConnected' = FALSE /\ socket' = "closed"
        /\ deadline' = deadline /\ heartbeat' = heartbeat
        /\ writeOps' = AbortedWrites(w) /\ checks' = Cancelled(chk) /\ writers' = Cancelled(wrt)
    BY DEF Stop
  <1>2. /\ connectOp' \in {"none", "ok", "error"} /\ readOp' \in {"none", "line", "error"}
        /\ connectOp' # "none" => readOp' = "none"
    BY DEF Stop, Aborted, Inv, Types, ActorInv
  <1>3. /\ writeOps' \in Ops /\ Total(writeOps') <= Total(writeOps)
        /\ checks' \in Handlers /\ Count(checks') <= Count(checks)
        /\ writers' \in Handlers /\ Count(writers') = Count(writers)
    BY <1>1, AbortedTotal, CancelledCount
  <1>4. Types'
    BY <1>1, <1>2, <1>3 DEF Inv, Types, packetVars
  <1>5. ActorInv'
    <2>1. Count(checks') <= 1
      BY <1>3, CountNat DEF Inv, Types, ActorInv
    <2>2. QED
      BY <1>1, <1>2, <2>1 DEF ActorInv
  <1>6. WriteInv'
    <2>1. Total(writeOps') + Count(writers') + Len(queue) <= written
      <3>1. /\ Total(writeOps) \in Nat /\ Total(writeOps') \in Nat /\ Count(writers) \in Nat
            /\ Len(queue) \in Nat /\ written \in Nat
        BY <1>3, CountNat DEF Inv, Types
      <3>2. QED
        BY <1>3, <3>1 DEF Inv, WriteInv
    <2>2. QED
      BY <1>1, <2>1 DEF WriteInv, packetVars
  <1>7. QueueInv'
    BY <1>1 DEF Inv, QueueInv, packetVars
  <1>8. QED
    BY <1>4, <1>5, <1>6, <1>7 DEF Inv

\* A handler that ignores its call once stop was called keeps the invariant.
LEMMA IgnoreKeepsInv ==
    ASSUME Inv, stopped, Ignore, started' = started,
           connectOp' \in {"none", connectOp}, readOp' \in {"none", readOp},
           writeOps' \in Ops, Total(writeOps') <= Total(writeOps),
           checks' \in Handlers, Count(checks') <= Count(checks), UNCHANGED writers
    PROVE  Inv'
  <1>1. Types'
    BY DEF Inv, Types, Ignore, actorVars, packetVars
  <1>2. started
    BY DEF Inv, ActorInv
  <1>3. ActorInv'
    <2>1. Count(checks') <= 1
      BY DEF Inv, Types, ActorInv, Count, Handlers
    <2>2. QED
      BY <1>2, <2>1 DEF Inv, ActorInv, Ignore, actorVars
  <1>4. WriteInv'
    <2>1. Total(writeOps') + Count(writers') + Len(queue) <= written
      <3>1. /\ Total(writeOps) \in Nat /\ Total(writeOps') \in Nat /\ Count(writers) \in Nat
            /\ Len(queue) \in Nat /\ written \in Nat
        BY CountNat DEF Inv, Types
      <3>2. QED
        BY <3>1 DEF Inv, WriteInv
    <2>2. QED
      BY <2>1 DEF WriteInv, Ignore, packetVars
  <1>5. QueueInv'
    BY DEF Inv, QueueInv, Ignore, packetVars, actorVars
  <1>6. QED
    BY <1>1, <1>3, <1>4, <1>5 DEF Inv

\* start_write empties the queue; on an open socket it puts every packet of it
\* on the wire, on a closed one it loses them.
LEMMA StartWriteEffect ==
    ASSUME Types, QueueInv, Len(queue) <= written, StartWrite
    PROVE  /\ queue' = <<>>
           /\ writeOps' \in Ops /\ Total(writeOps') = Total(writeOps) + Len(queue)
           /\ sent' \in [Packets -> 0 .. MaxPackets]
           /\ \A p \in Packets : p > written => sent'[p] = 0
           /\ \A p \in Packets : sent'[p] >= sent[p]
           /\ socket = "open" => \A p \in Packets : p <= written /\ p > written - Len(queue) => sent'[p] > 0
  <1> DEFINE n == Len(queue)
             m == written - n
             times(p) == Cardinality(Holding(queue, p))
  <1>1. n \in Nat /\ m \in Nat /\ m + n = written /\ written <= MaxPackets /\ MaxPackets \in Nat
    BY BoundAssumption DEF Types
  <1>2. queue' = <<>>
    BY DEF StartWrite
  <1>3. writeOps' \in Ops /\ Total(writeOps') = Total(writeOps) + n
    <2>1. \/ writeOps' = [writeOps EXCEPT !.pending = @ + n]
          \/ writeOps' = [writeOps EXCEPT !.error = @ + n]
      BY DEF StartWrite
    <2> HIDE DEF n
    <2>2. writeOps \in Ops
      BY DEF Types
    <2>3. QED
      BY <1>1, <2>1, <2>2, WritesAdded
  <1>4. ASSUME NEW p \in Packets
        PROVE  times(p) = IF p \in m + 1 .. m + n THEN n - (p - m) + 1 ELSE 0
    <2>1. \A i \in 1 .. n : queue[i] = m + i
      BY DEF QueueInv
    <2>2. p \in Nat
      BY DEF Packets
    <2>3. queue \in Seq(Packets)
      BY DEF Types
    <2>4. QED
      BY <1>1, <2>1, <2>2, <2>3, HoldingWrites
  <1>5. CASE socket # "open"
    <2>1. sent' = sent
      BY <1>5 DEF StartWrite
    <2>2. QED
      BY <1>1, <1>2, <1>3, <1>5, <2>1 DEF Types, QueueInv, Packets
  <1>6. CASE socket = "open"
    <2>1. sent' = [p \in Packets |-> sent[p] + times(p)]
      BY <1>6 DEF StartWrite
    <2> HIDE DEF times
    <2>2. ASSUME NEW p \in Packets
          PROVE  /\ sent'[p] \in 0 .. MaxPackets /\ sent'[p] >= sent[p]
                 /\ p > written => sent'[p] = 0
                 /\ p <= written /\ p > m => sent'[p] > 0
      <3>1. sent'[p] = sent[p] + times(p) /\ sent[p] \in 0 .. MaxPackets /\ p \in Nat /\ p >= 1
        BY <2>1 DEF Types, Packets
      <3>2. p > m => sent[p] = 0
        BY DEF QueueInv
      <3> HIDE DEF n, m
      <3>3. CASE p \in m + 1 .. m + n
        BY <1>1, <1>4, <3>1, <3>2, <3>3
      <3>4. CASE p \notin m + 1 .. m + n
        BY <1>1, <1>4, <3>1, <3>2, <3>4
      <3>5. QED
        BY <3>3, <3>4
    <2>3. sent' \in [Packets -> 0 .. MaxPackets]
      BY <2>1, <2>2
    <2>4. QED
      BY <1>2, <1>3, <1>6, <2>2, <2>3
  <1>7. QED
    BY <1>5, <1>6

-----------------------------------------------------------------------------
(* The invariant is inductive, action by action.                           *)

\* The numbers that the arithmetic below is about.
LEMMA Numbers ==
    ASSUME Types
    PROVE  /\ Total(writeOps) \in Nat /\ Count(writers) \in Nat /\ Count(checks) \in Nat
           /\ Len(queue) \in Nat /\ written \in Nat /\ MaxPackets \in Nat /\ NumEndpoints \in Nat
           /\ ConnectTimeout \in Nat \ {0} /\ ReadTimeout \in Nat \ {0} /\ HeartbeatPeriod \in Nat \ {0}
           /\ Never \in Nat /\ Never = ConnectTimeout + ReadTimeout + 1
  BY CountNat, BoundAssumption, TimeAssumption DEF Types, Never

\* A step that leaves the packets, the writes and the connection alone.
LEMMA PacketsKept ==
    ASSUME Inv, UNCHANGED <<packetVars, isConnected>>, stopped => stopped',
           Total(writeOps') + Count(writers') = Total(writeOps) + Count(writers),
           socket' = socket \/ socket' = "closed" \/ ~isConnected
    PROVE  WriteInv' /\ QueueInv'
  <1>1. WriteInv'
    BY DEF Inv, WriteInv, packetVars
  <1>2. QueueInv'
    BY DEF Inv, QueueInv, packetVars
  <1>3. QED
    BY <1>1, <1>2

\* start
LEMMA StartKeepsInv == Inv /\ Start => Inv'
  <1> SUFFICES ASSUME Inv, Start
               PROVE  Inv'
    OBVIOUS
  <1>1. /\ ~started /\ started' = TRUE /\ ~stopped /\ ~isConnected /\ isConnected' = isConnected
        /\ Count(checks) = 0 /\ connectOp = "none" /\ readOp = "none"
        /\ UNCHANGED <<readOp, writeOps, heartbeat, writers, packetVars>>
        /\ endpoints' \in 0 .. NumEndpoints /\ endpoint' = 1
    BY DEF Inv, ActorInv, Start
  <1>a. Types /\ MaxPackets \in Nat /\ NumEndpoints \in Nat
    BY Numbers DEF Inv
  <1>2. checks' \in Handlers /\ Count(checks') = 1
    BY <1>1, WaitingCount DEF Inv, Types, Start
  <1>3. \/ connectOp' = "pending" /\ socket' = "open" /\ deadline' = ConnectTimeout /\ stopped' = stopped
           /\ endpoints' > 0
        \/ connectOp' = "none" /\ socket' = socket /\ deadline' = deadline /\ stopped' = TRUE
    BY <1>1 DEF Start
  <1>4. Types'
    <2>1. endpoint' \in 1 .. endpoints' + 1
      <3>1. PICK k \in 0 .. NumEndpoints : endpoints' = k
        BY <1>1
      <3>2. k \in Nat
        BY <1>a
      <3>3. 1 \in 1 .. k + 1
        BY <3>2
      <3>4. QED
        BY <1>1, <3>1, <3>3
    <2>2. deadline' \in 0 .. Never
      BY <1>a, <1>3, Numbers DEF Types
    <2>3. QED
      BY <1>a, <1>1, <1>2, <1>3, <2>1, <2>2 DEF Types, packetVars
  <1>5. ActorInv'
    BY <1>a, <1>1, <1>2, <1>3, Numbers DEF ActorInv
  <1>6. WriteInv' /\ QueueInv'
    BY <1>1, PacketsKept
  <1>7. QED
    BY <1>4, <1>5, <1>6 DEF Inv

\* Write
LEMMA WriteKeepsInv == Inv /\ Write => Inv'
  <1> SUFFICES ASSUME Inv, Write
               PROVE  Inv'
    OBVIOUS
  <1>1. written < MaxPackets /\ written' = written + 1 /\ queue' = Append(queue, written + 1)
        /\ UNCHANGED <<started, stopped, actorVars, opVars, timerVars, sent>>
    BY DEF Write
  <1>2. Types /\ ActorInv /\ WriteInv /\ QueueInv
    BY DEF Inv
  <1>3. /\ queue' \in Seq(Packets) /\ Len(queue') = Len(queue) + 1
        /\ \A i \in 1 .. Len(queue) : queue'[i] = queue[i]
        /\ queue'[Len(queue) + 1] = written + 1
    <2>1. queue \in Seq(Packets) /\ written + 1 \in Packets
      BY <1>1, <1>2, Numbers DEF Types, Packets
    <2>2. QED
      BY <1>1, <2>1
  <1>4. Types'
    <2>1. written' \in 0 .. MaxPackets
      BY <1>1, <1>2, Numbers
    <2>2. QED
      BY <1>1, <1>2, <1>3, <2>1 DEF Types, actorVars, opVars, timerVars
  <1>5. ActorInv'
    BY <1>1, <1>2 DEF ActorInv, actorVars, opVars, timerVars
  <1>6. WriteInv'
    <2>1. /\ Total(writeOps) \in Nat /\ Count(writers) \in Nat /\ Len(queue) \in Nat /\ written \in Nat
          /\ Len(queue') = Len(queue) + 1 /\ written' = written + 1
          /\ UNCHANGED <<writeOps, writers, stopped, isConnected>>
      BY <1>1, <1>2, <1>3, Numbers DEF actorVars, opVars, timerVars
    <2>2. QED
      BY <1>2, <2>1 DEF WriteInv
  <1>7. QueueInv'
    <2>1. Len(queue) \in Nat /\ written \in Nat
      BY <1>2, Numbers
    <2>2. \A i \in 1 .. Len(queue') : queue'[i] = written' - Len(queue') + i
      BY <1>1, <1>2, <1>3, <2>1 DEF QueueInv
    <2>3. written' - Len(queue') = written - Len(queue)
      BY <1>1, <1>3, <2>1
    <2>4. QED
      BY <1>1, <1>2, <2>2, <2>3 DEF QueueInv, actorVars
  <1>8. QED
    BY <1>4, <1>5, <1>6, <1>7 DEF Inv

\* start_connect, from handle_connect for the next endpoint.
LEMMA StartConnectKeepsInv ==
    ASSUME Inv, connectOp \in {"ok", "error"}, ~stopped, StartConnect(endpoint + 1, checks),
           UNCHANGED <<started, endpoints, packetVars>>
    PROVE  Inv'
  <1>1. Types /\ ActorInv /\ WriteInv /\ QueueInv
    BY DEF Inv
  <1>2. started /\ readOp = "none" /\ ~isConnected /\ endpoint <= endpoints
    BY <1>1 DEF ActorInv
  <1>3. endpoint' = endpoint + 1 /\ endpoint' \in 1 .. endpoints + 1
    BY <1>1, <1>2, Numbers DEF StartConnect, Types
  <1>4. CASE endpoint + 1 > endpoints
    <2>1. Stop("none", readOp, writeOps, checks, writers)
      BY <1>1, <1>4, Numbers DEF StartConnect, Types
    <2>2. Total(writeOps) <= Total(writeOps) /\ Count(checks) <= Count(checks)
      BY <1>1, Numbers
    <2>3. QED
      BY <1>1, <1>2, <1>3, <2>1, <2>2, StopKeepsInv DEF Types
  <1>5. CASE endpoint + 1 <= endpoints
    <2>1. /\ deadline' = ConnectTimeout /\ checks' = Cancelled(checks) /\ connectOp' = "pending"
          /\ socket' = "open"
          /\ UNCHANGED <<stopped, readOp, writeOps, heartbeat, writers, isConnected>>
      BY <1>1, <1>5, Numbers DEF StartConnect, Types
    <2>2. checks' \in Handlers /\ Count(checks') = Count(checks)
      BY <1>1, <2>1, CancelledCount DEF Types
    <2>3. Types'
      <3>1. deadline' \in 0 .. Never
        BY <1>1, <2>1, Numbers
      <3>2. QED
        BY <1>1, <1>3, <2>1, <2>2, <3>1 DEF Types, packetVars
    <2>4. ActorInv'
      BY <1>1, <1>2, <1>3, <1>5, <2>1, <2>2, Numbers DEF ActorInv
    <2>5. WriteInv' /\ QueueInv'
      BY <1>2, <2>1, PacketsKept
    <2>6. QED
      BY <2>3, <2>4, <2>5 DEF Inv
  <1>6. QED
    BY <1>1, <1>3, <1>4, <1>5, Numbers DEF Types

\* handle_connect, when the connect succeeded over a socket that is still open.
LEMMA ConnectedKeepsInv ==
    ASSUME Inv, ~stopped, socket = "open", connectOp = "ok", connectOp' = "none", isConnected' = TRUE,
           StartRead, StartWrite,
           UNCHANGED <<started, stopped, endpoints, endpoint, socket, heartbeat, writers, written>>
    PROVE  Inv'
  <1>1. Types /\ ActorInv /\ WriteInv /\ QueueInv
    BY DEF Inv
  <1>2. started /\ Count(checks) = 1
    BY <1>1 DEF ActorInv
  <1>3. /\ deadline' = ReadTimeout /\ readOp' = "pending" /\ checks' = Cancelled(checks)
        /\ checks' \in Handlers /\ Count(checks') = Count(checks)
    BY <1>1, CancelledCount DEF StartRead, Types
  <1>4. Len(queue) <= written
    BY <1>1, Numbers DEF WriteInv
  <1>5. /\ queue' = <<>> /\ Len(queue') = 0 /\ queue' \in Seq(Packets)
        /\ writeOps' \in Ops /\ Total(writeOps') = Total(writeOps) + Len(queue)
        /\ sent' \in [Packets -> 0 .. MaxPackets]
        /\ \A p \in Packets : p > written => sent'[p] = 0
        /\ \A p \in Packets : p <= written /\ p > written - Len(queue) => sent'[p] > 0
        /\ \A p \in Packets : sent'[p] >= sent[p]
    BY <1>1, <1>4, StartWriteEffect
  <1>6. Types'
    <2>1. deadline' \in 0 .. Never
      BY <1>1, <1>3, Numbers
    <2>2. QED
      BY <1>1, <1>3, <1>5, <2>1 DEF Types
  <1>7. ActorInv'
    BY <1>1, <1>2, <1>3, Numbers DEF ActorInv
  <1>8. WriteInv'
    <2>1. Total(writeOps') + Count(writers') + Len(queue') <= written'
      BY <1>1, <1>5, Numbers DEF WriteInv
    <2>2. QED
      BY <2>1 DEF WriteInv
  <1>9. QueueInv'
    <2>1. ASSUME NEW p \in Packets, p <= written
          PROVE  sent'[p] > 0 \/ stopped \/ (isConnected /\ socket = "closed")
      <3>1. /\ p \in Nat /\ written \in Nat /\ Len(queue) \in Nat
            /\ sent[p] \in Nat /\ sent'[p] \in Nat
        <4>1. sent[p] \in 0 .. MaxPackets /\ sent'[p] \in 0 .. MaxPackets
          BY <1>1, <1>5 DEF Types
        <4>2. QED
          BY <1>1, <4>1, Numbers DEF Packets
      <3>2. CASE p > written - Len(queue)
        BY <1>5, <2>1, <3>2
      <3>3. CASE ~(p > written - Len(queue))
        BY <1>1, <1>5, <3>1, <3>3 DEF QueueInv
      <3>4. QED
        BY <3>2, <3>3
    <2>2. written \in Nat /\ \A p \in Packets : p \in Nat
      BY <1>1, Numbers DEF Packets
    <2>3. \A p \in Packets : IF p > written THEN sent'[p] = 0 ELSE sent'[p] > 0
      BY <1>5, <2>1, <2>2
    <2>4. QED
      BY <1>5, <2>2, <2>3 DEF QueueInv
  <1>10. QED
    BY <1>6, <1>7, <1>8, <1>9 DEF Inv

\* handle_connect
LEMMA HandleConnectKeepsInv == Inv /\ HandleConnect => Inv'
  <1> SUFFICES ASSUME Inv, HandleConnect
               PROVE  Inv'
    OBVIOUS
  <1>a. Types
    BY DEF Inv
  <1>1. CASE stopped
    <2>1. /\ Ignore /\ connectOp' = "none" /\ UNCHANGED <<started, readOp, writeOps, checks, writers>>
      BY <1>1 DEF HandleConnect
    <2>2. Total(writeOps) <= Total(writeOps) /\ Count(checks) <= Count(checks)
      BY <1>a, Numbers
    <2>3. QED
      BY <1>1, <1>a, <2>1, <2>2, IgnoreKeepsInv DEF Types
  <1>2. CASE ~stopped /\ (socket = "closed" \/ connectOp = "error")
    <2>1. /\ connectOp \in {"ok", "error"} /\ StartConnect(endpoint + 1, checks)
          /\ UNCHANGED <<started, endpoints, packetVars>>
      BY <1>2 DEF HandleConnect
    <2>2. QED
      BY <1>2, <2>1, StartConnectKeepsInv
  <1>3. CASE ~stopped /\ socket = "open" /\ connectOp = "ok"
    <2>1. /\ connectOp' = "none" /\ isConnected' = TRUE /\ StartRead /\ StartWrite
          /\ UNCHANGED <<started, stopped, endpoints, endpoint, socket, heartbeat, writers, written>>
      BY <1>3 DEF HandleConnect
    <2>2. QED
      BY <1>3, <2>1, ConnectedKeepsInv
  <1>4. QED
    BY <1>1, <1>2, <1>3, <1>a DEF HandleConnect, Types

\* handle_read
LEMMA HandleReadKeepsInv == Inv /\ HandleRead => Inv'
  <1> SUFFICES ASSUME Inv, HandleRead
               PROVE  Inv'
    OBVIOUS
  <1>a. Types /\ ActorInv
    BY DEF Inv
  <1>b. readOp \in {"line", "error"} /\ started /\ started' = started /\ connectOp = "none"
    BY <1>a DEF HandleRead, ActorInv
  <1>c. Total(writeOps) <= Total(writeOps) /\ Count(checks) <= Count(checks)
    BY <1>a, Numbers
  <1>1. CASE stopped
    <2>1. /\ Ignore /\ readOp' = "none" /\ UNCHANGED <<connectOp, writeOps, checks, writers>>
      BY <1>1 DEF HandleRead
    <2>2. QED
      BY <1>1, <1>a, <1>b, <1>c, <2>1, IgnoreKeepsInv DEF Types
  <1>2. CASE ~stopped /\ readOp = "line"
    <2>1. /\ StartRead
          /\ UNCHANGED <<stopped, actorVars, connectOp, writeOps, heartbeat, writers, packetVars>>
      BY <1>2 DEF HandleRead
    <2>2. /\ deadline' = ReadTimeout /\ readOp' \in {"pending", "error"} /\ checks' = Cancelled(checks)
          /\ checks' \in Handlers /\ Count(checks') = Count(checks)
      BY <1>a, <2>1, CancelledCount DEF StartRead, Types
    <2>3. Types'
      <3>1. deadline' \in 0 .. Never
        BY <1>a, <2>2, Numbers
      <3>2. QED
        BY <1>a, <1>b, <2>1, <2>2, <3>1 DEF Types, actorVars, packetVars
    <2>4. ActorInv'
      BY <1>a, <1>b, <1>2, <2>1, <2>2, Numbers DEF ActorInv, actorVars
    <2>5. WriteInv' /\ QueueInv'
      BY <2>1, PacketsKept DEF actorVars
    <2>6. QED
      BY <2>3, <2>4, <2>5 DEF Inv
  <1>3. CASE ~stopped /\ readOp = "error"
    <2>1. Stop(connectOp, "none", writeOps, checks, writers) /\ UNCHANGED <<endpoints, endpoint, packetVars>>
      BY <1>3 DEF HandleRead
    <2>2. QED
      BY <1>a, <1>b, <1>c, <2>1, StopKeepsInv DEF Types
  <1>4. QED
    BY <1>1, <1>2, <1>3, <1>b

\* handle_write
LEMMA HandleWriteKeepsInv ==
    ASSUME Inv, NEW result \in {"ok", "error"}, HandleWrite(result)
    PROVE  Inv'
  <1> DEFINE ops == [writeOps EXCEPT ![result] = @ - 1]
  <1>a. Types /\ ActorInv /\ WriteInv
    BY DEF Inv
  <1>b. ops \in Ops /\ Total(ops) = Total(writeOps) - 1 /\ Total(writeOps) > 0
    BY <1>a, WriteTaken DEF HandleWrite, Types
  <1>c. Total(ops) <= Total(writeOps) /\ Count(checks) <= Count(checks)
    BY <1>a, <1>b, Numbers
  <1>d. started' = started
    BY DEF HandleWrite
  <1>1. CASE stopped
    <2>1. Ignore /\ writeOps' = ops /\ UNCHANGED <<connectOp, readOp, checks, writers>>
      BY <1>1 DEF HandleWrite
    <2> HIDE DEF ops
    <2>2. QED
      BY <1>1, <1>a, <1>b, <1>c, <1>d, <2>1, IgnoreKeepsInv DEF Types
  <1>2. CASE ~stopped /\ result = "ok"
    <2>1. /\ writeOps' = ops /\ heartbeat' = HeartbeatPeriod
          /\ writers' = Waiting(Cancelled(writers), HeartbeatPeriod)
          /\ UNCHANGED <<stopped, actorVars, connectOp, readOp, deadline, checks, packetVars>>
      BY <1>2 DEF HandleWrite
    <2> HIDE DEF ops
    <2>2. writers' \in Handlers /\ Count(writers') = Count(writers) + 1
      BY <1>a, <2>1, CancelledCount, WaitingCount DEF Types
    <2>3. Types'
      <3>1. heartbeat' \in 0 .. HeartbeatPeriod
        BY <1>a, <2>1, Numbers
      <3>2. QED
        BY <1>a, <1>b, <1>d, <2>1, <2>2, <3>1 DEF Types, actorVars, packetVars
    <2>4. ActorInv'
      BY <1>a, <1>d, <2>1 DEF ActorInv, actorVars
    <2>5. Total(writeOps') + Count(writers') = Total(writeOps) + Count(writers)
      BY <1>a, <1>b, <2>1, <2>2, Numbers
    <2>6. WriteInv' /\ QueueInv'
      BY <2>1, <2>5, PacketsKept DEF actorVars
    <2>7. QED
      BY <2>3, <2>4, <2>6 DEF Inv
  <1>3. CASE ~stopped /\ result = "error"
    <2>1. Stop(connectOp, readOp, ops, checks, writers) /\ UNCHANGED <<endpoints, endpoint, packetVars>>
      BY <1>3 DEF HandleWrite
    <2>2. started
      BY <1>a, <1>b, <1>3, Numbers DEF ActorInv, WriteInv
    <2> HIDE DEF ops
    <2>3. QED
      BY <1>a, <1>b, <1>c, <1>d, <2>1, <2>2, StopKeepsInv DEF Types
  <1>4. QED
    BY <1>1, <1>2, <1>3

\* start_write, when the heartbeat timer calls it.
LEMMA HeartbeatKeepsInv == Inv /\ HeartbeatExpired => Inv'
  <1> SUFFICES ASSUME Inv, HeartbeatExpired
               PROVE  Inv'
    OBVIOUS
  <1>1. Types /\ ActorInv /\ WriteInv /\ QueueInv
    BY DEF Inv
  <1>2. /\ writers' \in Handlers /\ Count(writers') = Count(writers) - 1 /\ Count(writers) > 0
        /\ UNCHANGED <<started, stopped, actorVars, connectOp, readOp, deadline, checks, heartbeat, written>>
    BY <1>1, TakenCount DEF HeartbeatExpired, Types
  <1>3. ActorInv'
    BY <1>1, <1>2 DEF ActorInv, actorVars
  <1>4. CASE stopped
    <2>1. UNCHANGED <<writeOps, queue, sent>>
      BY <1>4 DEF HeartbeatExpired
    <2>2. Types'
      BY <1>1, <1>2, <2>1 DEF Types, actorVars
    <2>3. WriteInv'
      <3>1. Total(writeOps') + Count(writers') + Len(queue') <= written'
        BY <1>1, <1>2, <2>1, Numbers DEF WriteInv
      <3>2. QED
        BY <1>2, <1>4, <3>1 DEF WriteInv
    <2>4. QueueInv'
      BY <1>1, <1>2, <2>1 DEF QueueInv, actorVars
    <2>5. QED
      BY <1>3, <2>2, <2>3, <2>4 DEF Inv
  <1>5. CASE ~stopped
    <2>1. isConnected /\ Len(queue) <= written
      BY <1>1, <1>2, <1>5, Numbers DEF WriteInv
    <2>2. /\ queue' = <<>> /\ Len(queue') = 0 /\ queue' \in Seq(Packets)
          /\ writeOps' \in Ops /\ Total(writeOps') = Total(writeOps) + Len(queue)
          /\ sent' \in [Packets -> 0 .. MaxPackets]
          /\ \A p \in Packets : p > written => sent'[p] = 0
          /\ \A p \in Packets : sent'[p] >= sent[p]
          /\ socket = "open" => \A p \in Packets : p <= written /\ p > written - Len(queue) => sent'[p] > 0
      BY <1>1, <1>5, <2>1, StartWriteEffect DEF HeartbeatExpired
    <2>3. Types'
      BY <1>1, <1>2, <2>2 DEF Types, actorVars
    <2>4. WriteInv'
      <3>1. Total(writeOps') + Count(writers') + Len(queue') <= written'
        BY <1>1, <1>2, <2>2, Numbers DEF WriteInv
      <3>2. QED
        BY <1>2, <2>1, <3>1 DEF WriteInv, actorVars
    <2>5. QueueInv'
      <3>1. ASSUME NEW p \in Packets, p <= written
            PROVE  sent'[p] > 0 \/ socket = "closed"
        <4>1. /\ p \in Nat /\ written \in Nat /\ Len(queue) \in Nat
              /\ sent[p] \in Nat /\ sent'[p] \in Nat
          <5>1. sent[p] \in 0 .. MaxPackets /\ sent'[p] \in 0 .. MaxPackets
            BY <1>1, <2>2 DEF Types
          <5>2. QED
            BY <1>1, <5>1, Numbers DEF Packets
        <4>2. CASE p > written - Len(queue)
          BY <1>1, <2>2, <3>1, <4>2 DEF Types
        <4>3. CASE ~(p > written - Len(queue))
          BY <1>1, <1>5, <2>2, <4>1, <4>3 DEF QueueInv
        <4>4. QED
          BY <4>2, <4>3
      <3>2. written \in Nat /\ \A p \in Packets : p \in Nat
        BY <1>1, Numbers DEF Packets
      <3>3. \A p \in Packets : IF p > written THEN sent'[p] = 0 ELSE sent'[p] > 0 \/ socket = "closed"
        BY <2>2, <3>1, <3>2
      <3>4. QED
        BY <1>2, <2>1, <2>2, <3>2, <3>3 DEF QueueInv, actorVars
    <2>6. QED
      BY <1>3, <2>3, <2>4, <2>5 DEF Inv
  <1>6. QED
    BY <1>4, <1>5

\* check_deadline
LEMMA CheckDeadlineKeepsInv == Inv /\ CheckDeadline => Inv'
  <1> SUFFICES ASSUME Inv, CheckDeadline
               PROVE  Inv'
    OBVIOUS
  <1>a. Types /\ ActorInv
    BY DEF Inv
  <1>b. /\ UNCHANGED <<started, writers>>
        /\ Taken(checks) \in Handlers /\ Count(Taken(checks)) = Count(checks) - 1 /\ Count(checks) > 0
    BY <1>a, TakenCount DEF CheckDeadline, Types
  <1>c. started /\ Count(checks) = 1 /\ Count(checks) \in Nat
    BY <1>a, <1>b, Numbers DEF ActorInv
  <1>1. CASE stopped
    <2>1. Ignore /\ checks' = Taken(checks) /\ UNCHANGED opVars
      BY <1>1 DEF CheckDeadline
    <2>2. Total(writeOps) <= Total(writeOps) /\ Count(checks') <= Count(checks)
      BY <1>a, <1>b, <1>c, <2>1, Numbers
    <2>3. QED
      BY <1>1, <1>a, <1>b, <2>1, <2>2, IgnoreKeepsInv DEF Types, opVars
  <1>2. CASE ~stopped /\ deadline = 0
    <2>1. /\ socket' = "closed" /\ connectOp' = Aborted(connectOp) /\ readOp' = Aborted(readOp)
          /\ writeOps' = AbortedWrites(writeOps) /\ deadline' = Never
          /\ checks' = Waiting(Taken(checks), Never)
          /\ UNCHANGED <<stopped, endpoints, endpoint, isConnected, heartbeat, packetVars>>
      BY <1>2 DEF CheckDeadline
    <2>2. /\ connectOp' \in {"none", "ok", "error"} /\ (connectOp' = "none" <=> connectOp = "none")
          /\ readOp' \in {"none", "line", "error"} /\ (readOp' = "none" <=> readOp = "none")
      BY <1>a, <2>1 DEF Aborted, Types
    <2>3. /\ writeOps' \in Ops /\ Total(writeOps') = Total(writeOps)
          /\ checks' \in Handlers /\ Count(checks') = 1
      BY <1>a, <1>b, <1>c, <2>1, AbortedTotal, WaitingCount DEF Types
    <2>4. Types'
      <3>1. deadline' \in 0 .. Never
        BY <1>a, <2>1, Numbers
      <3>2. QED
        BY <1>a, <1>b, <2>1, <2>2, <2>3, <3>1 DEF Types, packetVars
    <2>5. ActorInv'
      BY <1>2, <1>a, <1>b, <1>c, <2>1, <2>2, <2>3 DEF ActorInv
    <2>6. WriteInv' /\ QueueInv'
      BY <1>b, <2>1, <2>3, PacketsKept
    <2>7. QED
      BY <2>4, <2>5, <2>6 DEF Inv
  <1>3. CASE ~stopped /\ deadline # 0
    <2>1. /\ checks' = Waiting(Taken(checks), deadline)
          /\ UNCHANGED <<stopped, actorVars, opVars, deadline, heartbeat, packetVars>>
      BY <1>3 DEF CheckDeadline
    <2>2. checks' \in Handlers /\ Count(checks') = 1
      BY <1>b, <1>c, <2>1, WaitingCount
    <2>3. Types'
      BY <1>a, <1>b, <2>1, <2>2 DEF Types, actorVars, opVars, packetVars
    <2>4. ActorInv'
      BY <1>a, <1>b, <1>c, <2>1, <2>2 DEF ActorInv, actorVars, opVars
    <2>5. WriteInv' /\ QueueInv'
      BY <1>b, <2>1, PacketsKept DEF actorVars, opVars
    <2>6. QED
      BY <2>3, <2>4, <2>5 DEF Inv
  <1>4. QED
    BY <1>1, <1>2, <1>3

\* The network completes an operation.
LEMMA NetworkKeepsInv == Inv /\ Network => Inv'
  <1> SUFFICES ASSUME Inv, Network
               PROVE  Inv'
    OBVIOUS
  <1> USE DEF actorVars, timerVars, packetVars
  <1>a. Types /\ ActorInv
    BY DEF Inv
  <1>1. CASE ConnectCompletes \/ ReadCompletes
    <2>1. /\ UNCHANGED <<started, stopped, actorVars, writeOps, timerVars, packetVars>>
          /\ \/ connectOp = "pending" /\ connectOp' \in {"ok", "error"} /\ readOp' = readOp
             \/ readOp = "pending" /\ readOp' \in {"line", "error"} /\ connectOp' = connectOp
      BY <1>1 DEF ConnectCompletes, ReadCompletes
    <2>2. Types'
      BY <1>a, <2>1 DEF Types
    <2>3. ActorInv'
      BY <1>a, <2>1 DEF ActorInv
    <2>4. WriteInv' /\ QueueInv'
      BY <2>1, PacketsKept
    <2>5. QED
      BY <2>2, <2>3, <2>4 DEF Inv
  <1>2. CASE WriteCompletes
    <2>1. UNCHANGED <<started, stopped, actorVars, connectOp, readOp, timerVars, packetVars>>
      BY <1>2 DEF WriteCompletes
    <2>2. writeOps' \in Ops /\ Total(writeOps') = Total(writeOps)
      <3>1. PICK result \in {"ok", "error"} :
               writeOps' = Completed(writeOps, result)
        BY <1>2 DEF WriteCompletes
      <3>2. writeOps \in Ops /\ writeOps.pending > 0
        BY <1>2, <1>a DEF WriteCompletes, Types
      <3>3. QED
        BY <3>1, <3>2, CompletedTotal
    <2>3. Types'
      BY <1>a, <2>1, <2>2 DEF Types
    <2>4. ActorInv'
      BY <1>a, <2>1 DEF ActorInv
    <2>5. WriteInv' /\ QueueInv'
      BY <2>1, <2>2, PacketsKept
    <2>6. QED
      BY <2>3, <2>4, <2>5 DEF Inv
  <1>3. QED
    BY <1>1, <1>2 DEF Network

\* Time passes.
LEMMA TickKeepsInv == Inv /\ Tick => Inv'
  <1> SUFFICES ASSUME Inv, Tick
               PROVE  Inv'
    OBVIOUS
  <1>a. Types /\ ActorInv
    BY DEF Inv
  <1>1. /\ deadline' = Less(deadline) /\ checks' = Expire(deadline, checks)
        /\ heartbeat' = Less(heartbeat) /\ writers' = Expire(heartbeat, writers)
        /\ UNCHANGED <<started, stopped, actorVars, opVars, packetVars>>
    BY DEF Tick
  <1>2. deadline' \in 0 .. Never /\ deadline' <= deadline /\ heartbeat' \in 0 .. HeartbeatPeriod
    <2>1. deadline \in 0 .. Never /\ heartbeat \in 0 .. HeartbeatPeriod
      BY <1>a DEF Types
    <2>2. /\ deadline' = deadline \/ (deadline' = deadline - 1 /\ deadline # 0)
          /\ heartbeat' = heartbeat \/ (heartbeat' = heartbeat - 1 /\ heartbeat # 0)
      BY <1>1 DEF Less
    <2>3. deadline' \in 0 .. Never /\ deadline' <= deadline
      BY <1>a, <2>1, <2>2, Numbers
    <2>4. heartbeat' \in 0 .. HeartbeatPeriod
      BY <1>a, <2>1, <2>2, Numbers
    <2>5. QED
      BY <2>3, <2>4
  <1>3. /\ checks' \in Handlers /\ Count(checks') = Count(checks)
        /\ writers' \in Handlers /\ Count(writers') = Count(writers)
    BY <1>a, <1>1, CancelledCount DEF Expire, Types
  <1>4. Types'
    BY <1>a, <1>1, <1>2, <1>3 DEF Types, actorVars, opVars, packetVars
  <1>5. ActorInv'
    <2>2. deadline \in Nat /\ deadline' \in Nat
      BY <1>a, <1>2, Numbers DEF Types
    <2>3. QED
      BY <1>a, <1>1, <1>2, <1>3, <2>2, Numbers DEF ActorInv, actorVars, opVars
  <1>6. WriteInv' /\ QueueInv'
    BY <1>1, <1>3, PacketsKept DEF actorVars, opVars
  <1>7. QED
    BY <1>4, <1>5, <1>6 DEF Inv

\* The invariant holds before start.
LEMMA InitInv == Init => Inv
  <1> SUFFICES ASSUME Init
               PROVE  Inv
    OBVIOUS
  <1> USE DEF Init
  <1>1. Types
    <2>1. sent \in [Packets -> 0 .. MaxPackets] /\ queue \in Seq(Packets)
      BY BoundAssumption
    <2>2. writeOps \in Ops /\ checks \in Handlers /\ writers \in Handlers
      BY DEF Ops, Handlers
    <2>3. deadline \in 0 .. Never /\ heartbeat \in 0 .. HeartbeatPeriod
      BY TimeAssumption DEF Never
    <2>4. endpoints \in 0 .. NumEndpoints /\ endpoint \in 1 .. endpoints + 1 /\ written \in 0 .. MaxPackets
      BY BoundAssumption
    <2>5. QED
      BY <2>1, <2>2, <2>3, <2>4 DEF Types
  <1>2. Count(checks) = 0 /\ Count(writers) = 0 /\ Total(writeOps) = 0 /\ Len(queue) = 0
    BY DEF Count, Total
  <1>3. ActorInv /\ WriteInv
    BY <1>2 DEF ActorInv, WriteInv
  <1>4. QueueInv
    BY <1>2 DEF QueueInv, Packets
  <1>5. QED
    BY <1>1, <1>3, <1>4 DEF Inv

\* The invariant holds for ever.
LEMMA Invariance == Spec => []Inv
  <1>1. Inv /\ [Next]_vars => Inv'
    <2> SUFFICES ASSUME Inv, [Next]_vars
                 PROVE  Inv'
      OBVIOUS
    <2>1. CASE Start \/ Write \/ Network \/ Tick
      BY <2>1, StartKeepsInv, WriteKeepsInv, NetworkKeepsInv, TickKeepsInv
    <2>2. CASE UserStop
      <3>1. /\ Stop(connectOp, readOp, writeOps, checks, writers) /\ started
            /\ UNCHANGED <<started, endpoints, endpoint, packetVars>>
        BY <2>2 DEF UserStop
      <3>2. /\ Total(writeOps) <= Total(writeOps) /\ Count(checks) <= Count(checks)
            /\ writeOps \in Ops /\ checks \in Handlers /\ writers \in Handlers
            /\ endpoint' \in 1 .. endpoints + 1
        BY <3>1, Numbers DEF Inv, Types
      <3>3. QED
        BY <3>1, <3>2, StopKeepsInv
    <2>3. CASE Handler
      BY <2>3, HandleConnectKeepsInv, HandleReadKeepsInv, HeartbeatKeepsInv, CheckDeadlineKeepsInv,
         HandleWriteKeepsInv DEF Handler
    <2>4. CASE UNCHANGED vars
      BY <2>4 DEF vars, actorVars, opVars, timerVars, packetVars, Inv, Types, ActorInv, WriteInv, QueueInv
    <2>5. QED
      BY <2>1, <2>2, <2>3, <2>4 DEF Next
  <1>2. QED
    BY <1>1, InitInv, PTL DEF Spec

-----------------------------------------------------------------------------
(* The client's properties.                                                *)

\* Every variable has its type: no packet has more than one write, one wait
\* and one start_write, and there is one deadline actor.
THEOREM TypeCorrect == Spec => []TypeOK
  <1>1. Inv => TypeOK
    <2> SUFFICES ASSUME Inv
                 PROVE  TypeOK
      OBVIOUS
    <2>1. Types
      BY DEF Inv
    <2>2. checks.wait + checks.ready \in 0 .. 1
      <3>1. Count(checks) \in Nat /\ Count(checks) <= 1
        BY <2>1, Numbers DEF Inv, ActorInv
      <3>2. Count(checks) \in 0 .. 1
        BY <3>1
      <3>3. QED
        BY <3>2 DEF Count
    <2>3. Total(writeOps) + Count(writers) <= written /\ written <= MaxPackets
      <3>1. Total(writeOps) + Count(writers) + Len(queue) <= written
        BY DEF Inv, WriteInv
      <3>2. /\ Total(writeOps) \in Nat /\ Count(writers) \in Nat /\ Len(queue) \in Nat
            /\ written \in 0 .. MaxPackets /\ MaxPackets \in Nat
        BY <2>1, Numbers DEF Types
      <3>3. QED
        BY <3>1, <3>2
    <2>4. /\ writeOps.pending \in Nat /\ writeOps.ok \in Nat /\ writeOps.error \in Nat
          /\ writers.wait \in Nat /\ writers.ready \in Nat
      BY <2>1 DEF Types, Ops, Handlers
    <2>5. writeOps.pending + writeOps.ok + writeOps.error + writers.wait + writers.ready <= written
      BY <2>3, <2>4 DEF Total, Count
    <2>6. /\ writeOps.pending \in 0 .. MaxPackets /\ writeOps.ok \in 0 .. MaxPackets
          /\ writeOps.error \in 0 .. MaxPackets
          /\ writers.wait \in 0 .. MaxPackets /\ writers.ready \in 0 .. MaxPackets
      <3>1. written \in Nat /\ MaxPackets \in Nat
        BY <2>1, Numbers
      <3>2. QED
        BY <2>3, <2>4, <2>5, <3>1
    <2>7. /\ writeOps \in [pending : 0 .. MaxPackets, ok : 0 .. MaxPackets, error : 0 .. MaxPackets]
          /\ writers \in HandlerCount
      BY <2>1, <2>6 DEF Types, Ops, Handlers, HandlerCount
    <2>8. QED
      BY <2>1, <2>2, <2>5, <2>7 DEF Types, TypeOK
  <1>2. QED
    BY <1>1, Invariance, PTL

\* A pending connect or read is watched by the one deadline actor, under its
\* own time limit.
THEOREM DeadlinesHold == Spec => []OperationsHaveDeadlines
  <1>1. Inv => OperationsHaveDeadlines
    <2> SUFFICES ASSUME Inv
                 PROVE  OperationsHaveDeadlines
      OBVIOUS
    <2>1. /\ connectOp = "pending" => deadline <= ConnectTimeout
          /\ readOp = "pending" => deadline <= ReadTimeout
          /\ connectOp = "pending" \/ readOp = "pending" => Count(checks) = 1
      BY DEF Inv, ActorInv
    <2>2. deadline \in Nat /\ ConnectTimeout \in Nat /\ ReadTimeout \in Nat
      BY Numbers DEF Inv, Types
    <2>3. QED
      BY <2>1, <2>2 DEF OperationsHaveDeadlines, Count
  <1>2. QED
    BY <1>1, Invariance, PTL

\* A packet that left packetOutDeque is on the wire, unless the connection is
\* lost or was stopped.
THEOREM PacketsKeptUntilSent == Spec => []PacketsNotLost
  <1>1. Inv => PacketsNotLost
    <2> SUFFICES ASSUME Inv, NEW p \in 1 .. written
                 PROVE  \/ sent[p] > 0
                        \/ \E i \in DOMAIN queue : queue[i] = p
                        \/ isConnected /\ socket = "closed"
                        \/ stopped
      BY DEF PacketsNotLost
    <2>1. /\ p \in Packets /\ p \in Nat /\ p <= written /\ written \in Nat /\ Len(queue) \in Nat
      BY Numbers DEF Inv, Types, Packets
    <2>2. CASE p > written - Len(queue)
      <3>1. p - (written - Len(queue)) \in 1 .. Len(queue)
        BY <2>1, <2>2
      <3>2. queue[p - (written - Len(queue))] = p
        BY <2>1, <3>1 DEF Inv, QueueInv
      <3>3. DOMAIN queue = 1 .. Len(queue)
        BY DEF Inv, Types
      <3>4. QED
        BY <3>1, <3>2, <3>3
    <2>3. CASE ~(p > written - Len(queue))
      BY <2>1, <2>3 DEF Inv, QueueInv
    <2>4. QED
      BY <2>2, <2>3
  <1>2. QED
    BY <1>1, Invariance, PTL

\* handle_connect is the only step that establishes a connection, and it does
\* not for a socket that the deadline actor closed in the meantime.
THEOREM OnlyOpenSocketsConnect == Spec => ConnectsOverOpenSocket
  <1> USE DEF actorVars, Stop
  <1>1. [Next]_vars => [~isConnected /\ isConnected' => socket = "open"]_vars
    <2> SUFFICES ASSUME Next, ~isConnected, isConnected'
                 PROVE  socket = "open"
      OBVIOUS
    <2>1. CASE HandleConnect
      BY <2>1 DEF HandleConnect, Ignore, StartConnect
    <2>2. CASE ~HandleConnect
      <3>1. CASE Start \/ Write \/ UserStop \/ Network \/ Tick
        BY <3>1 DEF Start, Write, UserStop, Network, ConnectCompletes, ReadCompletes, WriteCompletes, Tick
      <3>2. CASE HandleRead \/ HeartbeatExpired \/ CheckDeadline
        BY <3>2 DEF HandleRead, HeartbeatExpired, CheckDeadline, Ignore
      <3>3. ASSUME NEW result \in {"ok", "error"}, HandleWrite(result)
            PROVE  FALSE
        BY <3>3 DEF HandleWrite, Ignore
      <3>4. QED
        BY <2>2, <3>1, <3>2, <3>3 DEF Next, Handler
    <2>3. QED
      BY <2>1, <2>2
  <1>2. QED
    BY <1>1, PTL DEF Spec, ConnectsOverOpenSocket
=============================================================================
