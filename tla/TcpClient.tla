------------------------------ MODULE TcpClient ------------------------------
(***************************************************************************)
(* TCPClient (OldCode/Socket/ClientSocket.h): a connect actor that tries   *)
(* the endpoints in turn, then a read actor and a write actor, all watched *)
(* by a deadline actor.  One thread runs the io_context, so each handler   *)
(* is one step; the application calls start, Write and stop in between.    *)
(*                                                                         *)
(* Boost.Asio is external.  An operation that completed, a timer that      *)
(* expired and a wait that was cancelled leave a handler that is ready to  *)
(* run.  The timers' handlers are bound without the error code, so they    *)
(* run the same whether the timer expired or was moved.  Time is counted   *)
(* in units of ten seconds and does not pass while a handler is ready.     *)
(***************************************************************************)
EXTENDS Naturals, Sequences, FiniteSets

CONSTANTS NumEndpoints,    \* endpoints the resolver may return, at most
          MaxPackets,      \* packets the application writes, at most
          ConnectTimeout, ReadTimeout, HeartbeatPeriod

ASSUME BoundAssumption == NumEndpoints \in Nat /\ MaxPackets \in Nat
ASSUME TimeAssumption == /\ ConnectTimeout \in Nat \ {0}
                         /\ ReadTimeout \in Nat \ {0}
                         /\ HeartbeatPeriod \in Nat \ {0}

Packets == 1 .. MaxPackets

\* time_point::max(): a number that no deadline reaches.
Never == ConnectTimeout + ReadTimeout + 1

VARIABLES started,     \* start was called
          stopped,     \* stopped_
          endpoints,   \* the number of endpoints_
          endpoint,    \* the endpoint_iter of the connect operation
          socket,      \* socket_: closed or open
          isConnected,
          connectOp,   \* the connect operation: none, pending, ok, error
          readOp,      \* the read operation: none, pending, line, error
          writeOps,    \* how many write operations are pending, ok, error
          deadline,    \* time left on deadline_
          checks,      \* check_deadline handlers: how many wait, are ready
          heartbeat,   \* time left on heartbeat_timer_
          writers,     \* start_write handlers: how many wait, are ready
          written,     \* packets the application has written so far
          queue,       \* packetOutDeque
          sent         \* how often each packet is on the wire

actorVars == <<endpoints, endpoint, socket, isConnected>>
opVars == <<connectOp, readOp, writeOps>>
timerVars == <<deadline, checks, heartbeat, writers>>
packetVars == <<written, queue, sent>>
vars == <<started, stopped, actorVars, opVars, timerVars, packetVars>>

Init == /\ started = FALSE /\ stopped = FALSE
        /\ endpoints = 0 /\ endpoint = 1
        /\ socket = "closed"
        /\ isConnected = FALSE
        /\ connectOp = "none" /\ readOp = "none"
        /\ writeOps = [pending |-> 0, ok |-> 0, error |-> 0]
        /\ deadline = 0 /\ heartbeat = 0
        /\ checks = [wait |-> 0, ready |-> 0]
        /\ writers = [wait |-> 0, ready |-> 0]
        /\ written = 0
        /\ queue = <<>>
        /\ sent = [p \in Packets |-> 0]

-----------------------------------------------------------------------------
(* What Boost.Asio does to the timers and the operations.                  *)

\* Moving or cancelling a timer makes the handlers that wait on it ready.
Cancelled(handlers) == [wait |-> 0, ready |-> handlers.ready + handlers.wait]

\* A handler that runs, and a new wait on a timer that has time left.
Taken(handlers) == [handlers EXCEPT !.ready = @ - 1]
Waiting(handlers, left) == IF left = 0 THEN [handlers EXCEPT !.ready = @ + 1]
                           ELSE [handlers EXCEPT !.wait = @ + 1]

\* A pending write completes.
Completed(ops, result) == [[ops EXCEPT !.pending = @ - 1] EXCEPT ![result] = @ + 1]

\* Closing the socket makes the operations on it fail.
Aborted(op) == IF op = "pending" THEN "error" ELSE op
AbortedWrites(ops) == [pending |-> 0, ok |-> ops.ok, error |-> ops.error + ops.pending]

-----------------------------------------------------------------------------
(* The functions that the handlers share, as what they do to the           *)
(* variables; none of them changes written.                                *)

\* stop, called when the operations are c, r and w and the timers' handlers
\* are chk and wrt.
Stop(c, r, w, chk, wrt) ==
    /\ stopped' = TRUE
    /\ socket' = "closed"
    /\ connectOp' = Aborted(c)
    /\ readOp' = Aborted(r)
    /\ writeOps' = AbortedWrites(w)
    /\ checks' = Cancelled(chk)
    /\ writers' = Cancelled(wrt)
    /\ isConnected' = FALSE
    /\ UNCHANGED <<deadline, heartbeat>>

\* start_connect for endpoint e, with the deadline handlers chk; without an
\* endpoint left it stops the client.
StartConnect(e, chk) ==
    /\ endpoint' = e
    /\ \/ /\ e <= endpoints
          /\ deadline' = ConnectTimeout
          /\ checks' = Cancelled(chk)
          /\ connectOp' = "pending"
          /\ socket' = "open"
          /\ UNCHANGED <<stopped, readOp, writeOps, heartbeat, writers, isConnected>>
       \/ /\ e > endpoints
          /\ Stop("none", readOp, writeOps, chk, writers)

\* Faulty variant: the read runs under what is left of the connect's deadline.
StartReadWithoutDeadline ==
    /\ readOp' = IF socket = "open" THEN "pending" ELSE "error"
    /\ UNCHANGED <<deadline, checks>>

\* start_read; on a closed socket the read fails at once.
StartRead == /\ deadline' = ReadTimeout
             /\ checks' = Cancelled(checks)
             /\ readOp' = IF socket = "open" THEN "pending" ELSE "error"

\* Faulty variant: packetOutDeque is not cleared.
StartWriteKeepsQueue ==
    LET n == Len(queue) IN
    /\ writeOps' = IF socket = "open" THEN [writeOps EXCEPT !.pending = @ + n]
                   ELSE [writeOps EXCEPT !.error = @ + n]
    /\ sent' = [p \in Packets |-> IF \E i \in 1 .. n : queue[i] = p THEN 1 ELSE sent[p]]
    /\ UNCHANGED queue

\* Faulty variant: the loop sends the first packet only.
StartWriteFirstOnly ==
    LET n == IF queue = <<>> THEN 0 ELSE 1 IN
    /\ writeOps' = IF socket = "open" THEN [writeOps EXCEPT !.pending = @ + n]
                   ELSE [writeOps EXCEPT !.error = @ + n]
    /\ sent' = [p \in Packets |-> IF n = 1 /\ Head(queue) = p THEN 1 ELSE sent[p]]
    /\ queue' = <<>>

\* The writes that hold the packet p.  The buffer is not reset between the
\* packets, so the n-th write repeats the first n - 1 packets.
Holding(list, p) == {j \in 1 .. Len(list) : \E i \in 1 .. j : list[i] = p}

\* start_write: one write for each queued packet.
StartWrite ==
    LET n == Len(queue) IN
    /\ writeOps' = IF socket = "open" THEN [writeOps EXCEPT !.pending = @ + n]
                   ELSE [writeOps EXCEPT !.error = @ + n]
    /\ sent' = IF socket = "open"
               THEN [p \in Packets |-> sent[p] + Cardinality(Holding(queue, p))]
               ELSE sent
    /\ queue' = <<>>

-----------------------------------------------------------------------------
(* The application.                                                        *)

\* start: the connect actor, then the deadline actor.
Start ==
    /\ ~started
    /\ started' = TRUE
    /\ endpoints' \in 0 .. NumEndpoints
    /\ endpoint' = 1
    /\ \/ /\ endpoints' > 0
          /\ deadline' = ConnectTimeout
          /\ connectOp' = "pending"
          /\ socket' = "open"
          /\ checks' = Waiting(checks, ConnectTimeout)
          /\ UNCHANGED stopped
       \/ /\ endpoints' = 0
          /\ stopped' = TRUE
          /\ checks' = Waiting(checks, 0)
          /\ UNCHANGED <<deadline, connectOp, socket>>
    /\ UNCHANGED <<isConnected, readOp, writeOps, heartbeat, writers, packetVars>>

Write == /\ written < MaxPackets
         /\ written' = written + 1
         /\ queue' = Append(queue, written + 1)
         /\ UNCHANGED <<started, stopped, actorVars, opVars, timerVars, sent>>

UserStop == /\ started /\ ~stopped
            /\ Stop(connectOp, readOp, writeOps, checks, writers)
            /\ UNCHANGED <<started, endpoints, endpoint, packetVars>>

-----------------------------------------------------------------------------
(* The handlers.                                                           *)

\* What each handler does first once stop was called.
Ignore == UNCHANGED <<stopped, actorVars, deadline, heartbeat, packetVars>>

\* Faulty variant: handle_connect does not ask whether the socket is open.
HandleConnectLate ==
    /\ connectOp \in {"ok", "error"}
    /\ \/ /\ stopped /\ Ignore
          /\ connectOp' = "none"
          /\ UNCHANGED <<readOp, writeOps, checks, writers>>
       \/ /\ ~stopped /\ connectOp = "error"
          /\ StartConnect(endpoint + 1, checks)
          /\ UNCHANGED <<endpoints, packetVars>>
       \/ /\ ~stopped /\ connectOp = "ok"
          /\ connectOp' = "none"
          /\ isConnected' = TRUE
          /\ StartRead
          /\ StartWrite
          /\ UNCHANGED <<stopped, endpoints, endpoint, socket, heartbeat, writers, written>>
    /\ UNCHANGED started

HandleConnect ==
    /\ connectOp \in {"ok", "error"}
    /\ \/ /\ stopped /\ Ignore
          /\ connectOp' = "none"
          /\ UNCHANGED <<readOp, writeOps, checks, writers>>
       \* Timed out, or refused: close the socket and try the next endpoint.
       \/ /\ ~stopped /\ (socket = "closed" \/ connectOp = "error")
          /\ StartConnect(endpoint + 1, checks)
          /\ UNCHANGED <<endpoints, packetVars>>
       \/ /\ ~stopped /\ socket = "open" /\ connectOp = "ok"
          /\ connectOp' = "none"
          /\ isConnected' = TRUE
          /\ StartRead
          /\ StartWrite
          /\ UNCHANGED <<stopped, endpoints, endpoint, socket, heartbeat, writers, written>>
    /\ UNCHANGED started

\* Faulty variant: a failed read is tried again.
HandleReadRetries ==
    /\ readOp \in {"line", "error"}
    /\ \/ /\ stopped /\ Ignore
          /\ readOp' = "none"
          /\ UNCHANGED <<connectOp, writeOps, checks, writers>>
       \/ /\ ~stopped
          /\ StartRead
          /\ UNCHANGED <<stopped, actorVars, connectOp, writeOps, heartbeat, writers, packetVars>>
    /\ UNCHANGED started

HandleRead ==
    /\ readOp \in {"line", "error"}
    /\ \/ /\ stopped /\ Ignore
          /\ readOp' = "none"
          /\ UNCHANGED <<connectOp, writeOps, checks, writers>>
       \/ /\ ~stopped /\ readOp = "line"
          /\ StartRead
          /\ UNCHANGED <<stopped, actorVars, connectOp, writeOps, heartbeat, writers, packetVars>>
       \/ /\ ~stopped /\ readOp = "error"
          /\ Stop(connectOp, "none", writeOps, checks, writers)
          /\ UNCHANGED <<endpoints, endpoint, packetVars>>
    /\ UNCHANGED started

\* Each completed write arms the heartbeat timer again, which cancels the
\* wait an earlier write began.
HandleWrite(result) ==
    LET ops == [writeOps EXCEPT ![result] = @ - 1] IN
    /\ writeOps[result] > 0
    /\ \/ /\ stopped /\ Ignore
          /\ writeOps' = ops
          /\ UNCHANGED <<connectOp, readOp, checks, writers>>
       \/ /\ ~stopped /\ result = "ok"
          /\ writeOps' = ops
          /\ heartbeat' = HeartbeatPeriod
          /\ writers' = Waiting(Cancelled(writers), HeartbeatPeriod)
          /\ UNCHANGED <<stopped, actorVars, connectOp, readOp, deadline, checks, packetVars>>
       \/ /\ ~stopped /\ result = "error"
          /\ Stop(connectOp, readOp, ops, checks, writers)
          /\ UNCHANGED <<endpoints, endpoint, packetVars>>
    /\ UNCHANGED started

\* start_write as the handler of the heartbeat timer.
HeartbeatExpired ==
    /\ writers.ready > 0
    /\ writers' = Taken(writers)
    /\ IF stopped THEN UNCHANGED <<writeOps, queue, sent>> ELSE StartWrite
    /\ UNCHANGED <<started, stopped, actorVars, connectOp, readOp, deadline, checks,
                   heartbeat, written>>

\* Faulty variant: the actor does not go back to sleep when the deadline moved.
CheckDeadlineOnce ==
    /\ checks.ready > 0
    /\ \/ /\ stopped /\ Ignore
          /\ checks' = Taken(checks)
          /\ UNCHANGED opVars
       \/ /\ ~stopped /\ deadline = 0
          /\ socket' = "closed"
          /\ connectOp' = Aborted(connectOp)
          /\ readOp' = Aborted(readOp)
          /\ writeOps' = AbortedWrites(writeOps)
          /\ deadline' = Never
          /\ checks' = Waiting(Taken(checks), Never)
          /\ UNCHANGED <<stopped, endpoints, endpoint, isConnected, heartbeat, packetVars>>
       \/ /\ ~stopped /\ deadline # 0
          /\ checks' = Taken(checks)
          /\ UNCHANGED <<stopped, actorVars, opVars, deadline, heartbeat, packetVars>>
    /\ UNCHANGED <<started, writers>>

\* Faulty variant: the actor goes back to sleep although the client stopped.
CheckDeadlineForever ==
    /\ checks.ready > 0
    /\ checks' = Waiting(Taken(checks), IF deadline = 0 THEN Never ELSE deadline)
    /\ IF deadline = 0
       THEN /\ socket' = "closed"
            /\ connectOp' = Aborted(connectOp)
            /\ readOp' = Aborted(readOp)
            /\ writeOps' = AbortedWrites(writeOps)
            /\ deadline' = Never
       ELSE UNCHANGED <<socket, opVars, deadline>>
    /\ UNCHANGED <<started, stopped, endpoints, endpoint, isConnected, heartbeat, writers,
                   packetVars>>

\* An expired deadline closes the socket; the actor goes back to sleep.
CheckDeadline ==
    /\ checks.ready > 0
    /\ \/ /\ stopped /\ Ignore
          /\ checks' = Taken(checks)
          /\ UNCHANGED opVars
       \/ /\ ~stopped /\ deadline = 0
          /\ socket' = "closed"
          /\ connectOp' = Aborted(connectOp)
          /\ readOp' = Aborted(readOp)
          /\ writeOps' = AbortedWrites(writeOps)
          /\ deadline' = Never
          /\ checks' = Waiting(Taken(checks), Never)
          /\ UNCHANGED <<stopped, endpoints, endpoint, isConnected, heartbeat, packetVars>>
       \/ /\ ~stopped /\ deadline # 0
          /\ checks' = Waiting(Taken(checks), deadline)
          /\ UNCHANGED <<stopped, actorVars, opVars, deadline, heartbeat, packetVars>>
    /\ UNCHANGED <<started, writers>>

Handler == \/ HandleConnect \/ HandleRead \/ HeartbeatExpired \/ CheckDeadline
           \/ \E result \in {"ok", "error"} : HandleWrite(result)

-----------------------------------------------------------------------------
(* The network and the clock.                                              *)

ConnectCompletes ==
    /\ connectOp = "pending"
    /\ \E result \in {"ok", "error"} : connectOp' = result
    /\ UNCHANGED <<started, stopped, actorVars, readOp, writeOps, timerVars, packetVars>>

ReadCompletes ==
    /\ readOp = "pending"
    /\ \E result \in {"line", "error"} : readOp' = result
    /\ UNCHANGED <<started, stopped, actorVars, connectOp, writeOps, timerVars, packetVars>>

WriteCompletes ==
    /\ writeOps.pending > 0
    /\ \E result \in {"ok", "error"} : writeOps' = Completed(writeOps, result)
    /\ UNCHANGED <<started, stopped, actorVars, connectOp, readOp, timerVars, packetVars>>

Network == ConnectCompletes \/ ReadCompletes \/ WriteCompletes

HandlerReady == \/ connectOp \in {"ok", "error"} \/ readOp \in {"line", "error"}
                \/ writeOps.ok > 0 \/ writeOps.error > 0
                \/ checks.ready > 0 \/ writers.ready > 0

Runs(left, handlers) == handlers.wait > 0 /\ left # Never

Less(left) == IF left \in {0, Never} THEN left ELSE left - 1
Expire(left, handlers) == IF Less(left) = 0 THEN Cancelled(handlers) ELSE handlers

Tick == /\ ~HandlerReady
        /\ Runs(deadline, checks) \/ Runs(heartbeat, writers)
        /\ deadline' = Less(deadline) /\ checks' = Expire(deadline, checks)
        /\ heartbeat' = Less(heartbeat) /\ writers' = Expire(heartbeat, writers)
        /\ UNCHANGED <<started, stopped, actorVars, opVars, packetVars>>

-----------------------------------------------------------------------------
Next == Start \/ Write \/ UserStop \/ Handler \/ Network \/ Tick

Spec == Init /\ [][Next]_vars

\* The io_context runs every ready handler and time passes.  The network
\* owes nothing: a peer may be silent for ever.
FairSpec == Spec /\ WF_vars(HandleConnect) /\ WF_vars(HandleRead) /\ WF_vars(HeartbeatExpired)
                 /\ WF_vars(CheckDeadline) /\ WF_vars(Tick)
                 /\ \A result \in {"ok", "error"} : WF_vars(HandleWrite(result))

-----------------------------------------------------------------------------
HandlerCount == [wait : 0 .. MaxPackets, ready : 0 .. MaxPackets]

\* Every variable has its type.  No packet has more than one write, one wait
\* and one start_write, one after the other: the writers never multiply.
TypeOK ==
    /\ started \in BOOLEAN /\ stopped \in BOOLEAN /\ isConnected \in BOOLEAN
    /\ endpoints \in 0 .. NumEndpoints /\ endpoint \in 1 .. endpoints + 1
    /\ socket \in {"closed", "open"}
    /\ connectOp \in {"none", "pending", "ok", "error"}
    /\ readOp \in {"none", "pending", "line", "error"}
    /\ writeOps \in [pending : 0 .. MaxPackets, ok : 0 .. MaxPackets, error : 0 .. MaxPackets]
    /\ deadline \in 0 .. Never
    /\ checks.wait + checks.ready \in 0 .. 1
    /\ heartbeat \in 0 .. HeartbeatPeriod
    /\ writers \in HandlerCount
    /\ writeOps.pending + writeOps.ok + writeOps.error + writers.wait + writers.ready <= written
    /\ written \in 0 .. MaxPackets
    /\ queue \in Seq(Packets)
    /\ sent \in [Packets -> 0 .. MaxPackets]

\* "The connect and input actors will update the deadline prior to each
\* asynchronous operation": a pending operation is watched by the deadline
\* actor, under its own time limit, whatever deadline came before it.
OperationsHaveDeadlines ==
    /\ connectOp = "pending" => deadline \in 0 .. ConnectTimeout
    /\ readOp = "pending" => deadline \in 0 .. ReadTimeout
    /\ (connectOp = "pending" \/ readOp = "pending") => checks.wait + checks.ready = 1

\* A packet given to Write waits in packetOutDeque until it is on the wire;
\* only the end of the connection loses it.
PacketsNotLost ==
    \A p \in 1 .. written : \/ sent[p] > 0
                            \/ \E i \in DOMAIN queue : queue[i] = p
                            \/ isConnected /\ socket = "closed"
                            \/ stopped

\* handle_connect never takes a connection for established that the deadline
\* actor has closed in the meantime, even if the connect had succeeded.
ConnectsOverOpenSocket == [][~isConnected /\ isConnected' => socket = "open"]_vars

\* Whatever the endpoints do, the connect actor ends up connected or stopped.
ConnectDecides == started ~> (isConnected \/ stopped)

\* isConnected does not stay true after the deadline actor closed the socket.
LostConnectionNoticed == (isConnected /\ socket = "closed") ~> ~isConnected

\* stop "terminates all the actors": none of the handlers that are still run
\* starts anything again, so io_context::run runs out of work.
StopEndsEverything ==
    stopped ~> [](/\ connectOp = "none" /\ readOp = "none"
                  /\ writeOps = [pending |-> 0, ok |-> 0, error |-> 0]
                  /\ checks.wait + checks.ready + writers.wait + writers.ready = 0)

\* "The heartbeat actor sends a heartbeat every 10 seconds": while connected
\* there is always a write that completes or a timer that will start one.
HeartbeatActorAlive ==
    (isConnected /\ ~stopped) =>
        writeOps.pending + writeOps.ok + writeOps.error + writers.wait + writers.ready > 0
=============================================================================
