------------------------------ MODULE TcpServer ------------------------------
(***************************************************************************)
(* The TCP server: TCPThreader, TCPServer and TCPConnection                *)
(* (OldCode/Socket/Socket.h, Socket.cpp) and the life of a ServerSocket.   *)
(*                                                                         *)
(* Threads: the pool threads that call io_service::run, the detached       *)
(* service thread of TCPThreader::ThreadRun, the detached thread that      *)
(* TCPServer::Start uses for the first accept, and the main thread, which  *)
(* starts the service and destroys it.                                     *)
(*                                                                         *)
(* The io_service (Boost.Asio on Windows) is external: an operation that   *)
(* completed is picked up by any thread inside run(); once the service is  *)
(* stopped, run() may still deliver what has completed and then returns.   *)
(* It is stopped as soon as it starts: BeginService's signal_set is a      *)
(* local variable, its destruction cancels the wait, and the handler of    *)
(* the wait, io_service::stop, runs whatever the reason it is called for.  *)
(*                                                                         *)
(* The two connection lists have no lock.  Each operation on them is one   *)
(* step here, the mildest outcome of the data race: what goes wrong below  *)
(* goes wrong even so.                                                     *)
(***************************************************************************)
EXTENDS Naturals, Sequences, FiniteSets

CONSTANTS Workers,      \* the pool threads
          MaxConns,     \* clients that connect, at most
          MaxMessages,  \* completed reads per connection, at most
          PrepareFirst, \* main lowers isThreadRunning before it stops the service
          Prompt        \* no step takes as long as a Sleep of the code

ASSUME BoundAssumption == MaxConns \in Nat \ {0} /\ MaxMessages \in Nat
ASSUME SwitchAssumption == PrepareFirst \in BOOLEAN /\ Prompt \in BOOLEAN
ASSUME WorkerAssumption == Workers \cap {"service", "starter"} = {}

Threads == Workers \cup {"service", "starter"}

\* The connection being accepted when MaxConns clients are in is the last.
Conns == 1 .. MaxConns + 1

VARIABLES at,              \* what each thread does next
          on,              \* the connection its handler works on, 0 if none
          pos,             \* the service thread's iterator
          main,            \* what the main thread does next
          nap,             \* remaining sleep of the service and the main thread
          isThreadRunning, \* TCPThreader::isThreadRunning
          stopped,         \* io_service::stop was called
          stopHandler,     \* the handler of the signal_set: none, ready, done
          created,         \* connections made by BeginAcceptingNewConnections
          accept,          \* the accept operation: its state
          read,            \* the read operation of each connection: its state
          messages,        \* reads each connection completed
          awaiting,        \* connectionsAwaitingSchedule
          made,            \* connectionsMade
          closed,          \* hasClosed of each connection
          deleted          \* the TCPThreader and its TCPServer are gone

threadVars == <<at, on, pos>>
mainVars == <<main, nap, isThreadRunning, deleted>>
serviceVars == <<stopped, stopHandler>>
acceptVars == <<created, accept>>
readVars == <<read, messages>>
listVars == <<awaiting, made>>
vars == <<threadVars, mainVars, serviceVars, acceptVars, readVars, listVars, closed>>

Init == /\ at = [t \in Threads |-> "off"]
        /\ on = [t \in Threads |-> 0]
        /\ pos = 1
        /\ main = "begin"
        /\ nap = [service |-> 0, main |-> 0]
        /\ isThreadRunning = FALSE
        /\ stopped = FALSE /\ stopHandler = "none"
        /\ created = 0 /\ accept = "none"
        /\ read = [c \in Conns |-> "none"]
        /\ messages = [c \in Conns |-> 0]
        /\ awaiting = <<>> /\ made = <<>>
        /\ closed = [c \in Conns |-> FALSE]
        /\ deleted = FALSE

Goto(t, from, to) == at[t] = from /\ at' = [at EXCEPT ![t] = to]

\* A handler is over: back into run(), or out of the starter's function.
HandlerDone(t) == IF t = "starter" THEN "exited" ELSE "run"

-----------------------------------------------------------------------------
(* The main thread: BeginService, then the end of the ServerSocket.        *)

MainGoto(from, to) == main = from /\ main' = to

\* new TCPServer; Start() spawns the thread that begins to accept.
BeginService ==
    /\ MainGoto("begin", "spawn")
    /\ at' = [at EXCEPT !["starter"] = "accept_again"]
    /\ UNCHANGED <<on, pos, nap, isThreadRunning, deleted, serviceVars, acceptVars,
                   readVars, listVars, closed>>

\* The pool threads and the service thread.
SpawnThreads ==
    /\ MainGoto("spawn", "signals")
    /\ isThreadRunning' = TRUE
    /\ at' = [t \in Threads |-> CASE t \in Workers -> "run"
                                  [] t = "service" -> "check"
                                  [] OTHER -> at[t]]
    /\ UNCHANGED <<on, pos, nap, deleted, serviceVars, acceptVars, readVars, listVars, closed>>

\* Faulty variant: the signal_set outlives BeginService.
SignalsKept ==
    /\ MainGoto("signals", "serving")
    /\ UNCHANGED <<threadVars, nap, isThreadRunning, deleted, serviceVars, acceptVars,
                   readVars, listVars, closed>>

\* The local signal_set is destroyed: its handler becomes ready.
LoseSignals ==
    /\ MainGoto("signals", "serving")
    /\ stopHandler' = "ready"
    /\ UNCHANGED <<threadVars, nap, isThreadRunning, deleted, stopped, acceptVars,
                   readVars, listVars, closed>>

\* ~ServerSocket: PrepareStop, Sleep(10), Stop, Sleep(50), delete threader.
\* SocketTest_CreateTCPServer does the same without PrepareStop.
PrepareStop ==
    /\ MainGoto("serving", "napping")
    /\ isThreadRunning' = (isThreadRunning /\ ~PrepareFirst)
    /\ nap' = [nap EXCEPT !.main = 1]
    /\ UNCHANGED <<threadVars, deleted, serviceVars, acceptVars, readVars, listVars, closed>>

\* Faulty variant: ~ServerSocket does not sleep before it deletes the threader.
StopWithoutSleep ==
    /\ MainGoto("napping", "join") /\ nap.main = 0
    /\ UNCHANGED <<threadVars, nap, isThreadRunning, deleted, serviceVars, acceptVars,
                   readVars, listVars, closed>>

\* work.reset(): a pending accept is work too, so run() does not return for it.
StopWork ==
    /\ MainGoto("napping", "join") /\ nap.main = 0
    /\ nap' = [nap EXCEPT !.main = 5]
    /\ UNCHANGED <<threadVars, isThreadRunning, deleted, serviceVars, acceptVars,
                   readVars, listVars, closed>>

\* ~TCPThreader: join_all waits for the pool threads, then the server and
\* the io_service with every operation in it are destroyed.
Destroy ==
    /\ MainGoto("join", "done") /\ nap.main = 0
    /\ \A w \in Workers : at[w] = "exited"
    /\ deleted' = TRUE
    /\ UNCHANGED <<threadVars, nap, isThreadRunning, serviceVars, acceptVars,
                   readVars, listVars, closed>>

MainStep == \/ BeginService \/ SpawnThreads \/ LoseSignals
            \/ PrepareStop \/ StopWork \/ Destroy

-----------------------------------------------------------------------------
(* The peers complete operations: a client connects, sends something, or   *)
(* goes away.                                                              *)

Connect == /\ accept = "pending" /\ created <= MaxConns /\ ~deleted
           /\ \E result \in {"accepted", "refused"} : accept' = result
           /\ UNCHANGED <<threadVars, mainVars, serviceVars, created, readVars, listVars, closed>>

Send(c) == /\ read[c] = "pending" /\ messages[c] < MaxMessages /\ ~deleted
           /\ read' = [read EXCEPT ![c] = "data"]
           /\ messages' = [messages EXCEPT ![c] = @ + 1]
           /\ UNCHANGED <<threadVars, mainVars, serviceVars, acceptVars, listVars, closed>>

Hangup(c) == /\ read[c] = "pending" /\ ~deleted
             /\ read' = [read EXCEPT ![c] = "error"]
             /\ UNCHANGED <<threadVars, mainVars, serviceVars, acceptVars, messages, listVars, closed>>

Peers == Connect \/ \E c \in Conns : Send(c) \/ Hangup(c)

-----------------------------------------------------------------------------
(* Dispatch: a thread inside run() takes a completed operation and calls   *)
(* its handler, or returns from run() once the service is stopped.         *)

CallStop(t) == /\ stopHandler = "ready" /\ stopHandler' = "done"
               /\ stopped' = TRUE
               /\ UNCHANGED <<threadVars, mainVars, acceptVars, readVars, listVars, closed>>

CallAcceptHandler(t) ==
    /\ \/ accept = "accepted" /\ Goto(t, "run", "accepted")
       \/ accept = "refused" /\ Goto(t, "run", "accept_again")
    /\ on' = [on EXCEPT ![t] = created]
    /\ accept' = "none"
    /\ UNCHANGED <<pos, mainVars, serviceVars, created, readVars, listVars, closed>>

\* The lambda of TCPConnection::Start, in its two branches.  Its hasClosed
\* is set by the first statement of Close.
CallReadHandler(t, c) ==
    /\ \/ read[c] = "data" /\ Goto(t, "run", "received") /\ UNCHANGED closed
       \/ /\ read[c] = "error" /\ Goto(t, "run", "failed")
          /\ closed' = [closed EXCEPT ![c] = TRUE]
    /\ on' = [on EXCEPT ![t] = c]
    /\ read' = [read EXCEPT ![c] = "none"]
    /\ UNCHANGED <<pos, mainVars, serviceVars, acceptVars, messages, listVars>>

Dispatch(t) == /\ at[t] = "run" /\ ~deleted
               /\ \/ CallStop(t)
                  \/ CallAcceptHandler(t)
                  \/ \E c \in Conns : CallReadHandler(t, c)

\* The service thread goes on to Sleep(10) after run().
LeaveRun(t) ==
    /\ stopped
    /\ IF t = "service"
       THEN Goto(t, "run", "sleep") /\ nap' = [nap EXCEPT !.service = 1]
       ELSE Goto(t, "run", "exited") /\ UNCHANGED nap
    /\ UNCHANGED <<on, pos, main, isThreadRunning, deleted, serviceVars, acceptVars,
                   readVars, listVars, closed>>

-----------------------------------------------------------------------------
(* The handlers.                                                           *)

\* Faulty variant: RescheduleMe also enters the connection into connectionsMade.
RescheduleIntoBothLists(t) ==
    /\ \/ Goto(t, "accepted", "accepted_made") /\ UNCHANGED on
       \/ Goto(t, "received", HandlerDone(t)) /\ on' = [on EXCEPT ![t] = 0]
    /\ awaiting' = Append(awaiting, on[t])
    /\ made' = Append(made, on[t])
    /\ UNCHANGED <<pos, mainVars, serviceVars, acceptVars, readVars, closed>>

\* RescheduleMe, for a connection just accepted and for one just read.
RescheduleMe(t) ==
    /\ \/ Goto(t, "accepted", "accepted_made") /\ UNCHANGED on
       \/ Goto(t, "received", HandlerDone(t)) /\ on' = [on EXCEPT ![t] = 0]
    /\ awaiting' = Append(awaiting, on[t])
    /\ UNCHANGED <<pos, mainVars, serviceVars, acceptVars, readVars, made, closed>>

\* Faulty variant: the accepted connection is not entered into connectionsMade.
KeepForgotten(t) ==
    /\ Goto(t, "accepted_made", "accept_again")
    /\ UNCHANGED <<on, pos, mainVars, serviceVars, acceptVars, readVars, listVars, closed>>

\* connectionsMade.push_back(newConnection)
KeepConnection(t) ==
    /\ Goto(t, "accepted_made", "accept_again")
    /\ made' = Append(made, on[t])
    /\ UNCHANGED <<on, pos, mainVars, serviceVars, acceptVars, readVars, awaiting, closed>>

BeginAcceptingNewConnections(t) ==
    /\ Goto(t, "accept_again", HandlerDone(t))
    /\ on' = [on EXCEPT ![t] = 0]
    /\ created' = created + 1
    /\ accept' = "pending"
    /\ UNCHANGED <<pos, mainVars, serviceVars, readVars, listVars, closed>>

\* socket_.close() and socket_.release(), then RemoveConnection, which only
\* looks the connection up in connectionsMade.
CloseSocket(t) ==
    /\ Goto(t, "failed", "closing")
    /\ UNCHANGED <<on, pos, mainVars, serviceVars, acceptVars, readVars, listVars, closed>>

RemoveConnection(t) ==
    /\ Goto(t, "closing", HandlerDone(t))
    /\ on' = [on EXCEPT ![t] = 0]
    /\ UNCHANGED <<pos, mainVars, serviceVars, acceptVars, readVars, listVars, closed>>

HandlerStep(t) == \/ RescheduleMe(t) \/ KeepConnection(t)
                  \/ BeginAcceptingNewConnections(t)
                  \/ CloseSocket(t) \/ RemoveConnection(t)

-----------------------------------------------------------------------------
(* ThreadRun, on the service thread.                                       *)

ServiceStep(from, to) ==
    Goto("service", from, to) /\ UNCHANGED <<on, mainVars, serviceVars, acceptVars>>

\* while (isThreadRunning)
CheckRunning == /\ ServiceStep("check", IF isThreadRunning THEN "run" ELSE "exited")
                /\ UNCHANGED <<pos, readVars, listVars, closed>>

\* Sleep(10) is over; the flag guards the cleanup.
WakeUp == /\ nap.service = 0
          /\ ServiceStep("sleep", IF isThreadRunning THEN "cleanup" ELSE "resched_check")
          /\ pos' = 1
          /\ UNCHANGED <<readVars, listVars, closed>>

\* Faulty variant: the cleanup only iterates.
CleanupWithoutErase ==
    /\ pos <= Len(made)
    /\ ServiceStep("cleanup", "cleanup")
    /\ pos' = pos + 1
    /\ UNCHANGED <<readVars, listVars, closed>>

\* CleanupClosedConnections erases as it iterates; pos stays when made shrinks.
CleanupClosedConnections ==
    /\ pos <= Len(made)
    /\ ServiceStep("cleanup", "cleanup")
    /\ IF closed[made[pos]]
       THEN /\ made' = SubSeq(made, 1, pos - 1) \o SubSeq(made, pos + 1, Len(made))
            /\ UNCHANGED pos
       ELSE pos' = pos + 1 /\ UNCHANGED made
    /\ UNCHANGED <<readVars, awaiting, closed>>

CleanupDone == /\ pos > Len(made)
               /\ ServiceStep("cleanup", "resched_check")
               /\ UNCHANGED <<pos, readVars, listVars, closed>>

\* The flag guards the reschedule too.
CheckReschedule ==
    /\ ServiceStep("resched_check", IF isThreadRunning THEN "resched" ELSE "check")
    /\ pos' = 1
    /\ UNCHANGED <<readVars, listVars, closed>>

\* Faulty variant: the iterator skips every second connection.
StartEveryOther ==
    /\ pos <= Len(awaiting)
    /\ ServiceStep("resched", "resched")
    /\ read' = [read EXCEPT ![awaiting[pos]] = "pending"]
    /\ pos' = pos + 2
    /\ UNCHANGED <<messages, listVars, closed>>

\* HandleReschedule: Start, which begins a read, on each connection in line.
StartConnection ==
    /\ pos <= Len(awaiting)
    /\ ServiceStep("resched", "resched")
    /\ read' = [read EXCEPT ![awaiting[pos]] = "pending"]
    /\ pos' = pos + 1
    /\ UNCHANGED <<messages, listVars, closed>>

RescheduleDone == /\ pos > Len(awaiting)
                  /\ ServiceStep("resched", "clear")
                  /\ UNCHANGED <<pos, readVars, listVars, closed>>

\* Faulty variant: HandleReschedule does not clear its list.
ClearForgotten == /\ ServiceStep("clear", "check")
                  /\ UNCHANGED <<pos, readVars, listVars, closed>>

ClearAwaiting == /\ ServiceStep("clear", "check")
                 /\ awaiting' = <<>>
                 /\ UNCHANGED <<pos, readVars, made, closed>>

ThreadRun == \/ CheckRunning \/ WakeUp \/ CleanupClosedConnections \/ CleanupDone
             \/ CheckReschedule \/ StartConnection \/ RescheduleDone \/ ClearAwaiting

-----------------------------------------------------------------------------
(* Sleep.  When threads are prompt time passes only while every one of     *)
(* them sleeps or waits; otherwise a sleeper may wake up at any moment.    *)

OperationReady == \/ stopHandler = "ready"
                  \/ accept \in {"accepted", "refused"}
                  \/ \E c \in Conns : read[c] \in {"data", "error"}

Waits(t) == \/ at[t] \in {"off", "exited", "sleep"}
            \/ at[t] = "run" /\ ~stopped /\ ~OperationReady

Quiet == /\ \A t \in Threads : Waits(t) /\ ~(at[t] = "sleep" /\ nap.service = 0)
         /\ main \in {"serving", "napping", "join", "done"}
         /\ ~(main = "napping" /\ nap.main = 0)

Tick == /\ \E s \in {"service", "main"} : nap[s] > 0
        /\ IF Prompt
           THEN Quiet /\ nap' = [s \in DOMAIN nap |-> IF nap[s] > 0 THEN nap[s] - 1 ELSE 0]
           ELSE \E s \in {"service", "main"} : nap[s] > 0 /\ nap' = [nap EXCEPT ![s] = 0]
        /\ UNCHANGED <<threadVars, main, isThreadRunning, deleted, serviceVars, acceptVars,
                       readVars, listVars, closed>>

-----------------------------------------------------------------------------
Step(t) == Dispatch(t) \/ LeaveRun(t) \/ HandlerStep(t)

Next == \/ MainStep \/ Peers \/ ThreadRun \/ Tick
        \/ \E t \in Threads : Step(t)

Spec == Init /\ [][Next]_vars

\* Every thread is scheduled, and a completion queued before run() is told
\* to return is delivered.  Nobody has to destroy the server.
FairSpec == /\ Spec
            /\ WF_vars(MainStep /\ main # "serving") /\ WF_vars(ThreadRun) /\ WF_vars(Tick)
            /\ \A t \in Threads : WF_vars(Step(t)) /\ SF_vars(Dispatch(t))

-----------------------------------------------------------------------------
Elements(list) == {list[i] : i \in DOMAIN list}

\* The shared_ptrs to a connection that keep it alive: the two lists, the
\* accept operation and the handler of it.
Owned(c) == \/ c \in Elements(awaiting) \cup Elements(made)
            \/ accept # "none" /\ c = created
            \/ \E t \in Threads : on[t] = c /\ at[t] \in {"accepted", "accepted_made", "accept_again"}

Locations == {"off", "run", "exited", "accepted", "accepted_made", "accept_again",
              "received", "failed", "closing", "check", "sleep", "cleanup",
              "resched_check", "resched", "clear"}

\* Every variable has its type; at most the connections made so far are in
\* the lists, each at most once in connectionsMade (TCPServer's members).
TypeOK ==
    /\ at \in [Threads -> Locations] /\ on \in [Threads -> 0 .. MaxConns + 1]
    /\ pos \in 1 .. MaxConns + 2
    /\ main \in {"begin", "spawn", "signals", "serving", "napping", "join", "done"}
    /\ nap \in [service : 0 .. 1, main : 0 .. 5]
    /\ isThreadRunning \in BOOLEAN /\ stopped \in BOOLEAN /\ deleted \in BOOLEAN
    /\ stopHandler \in {"none", "ready", "done"}
    /\ created \in 0 .. MaxConns + 1
    /\ accept \in {"none", "pending", "accepted", "refused"}
    /\ read \in [Conns -> {"none", "pending", "data", "error"}]
    /\ messages \in [Conns -> 0 .. MaxMessages]
    /\ closed \in [Conns -> BOOLEAN]
    /\ Elements(awaiting) \cup Elements(made) \subseteq 1 .. created
    /\ Cardinality(Elements(made)) = Len(made)

\* A connection that is open and accepted is always in line for a read, being
\* read, or in the hands of a handler: HandleReschedule never forgets one
\* that RescheduleMe put in line.
NoConnectionLost ==
    \A c \in Elements(made) : \/ closed[c]
                              \/ c \in Elements(awaiting)
                              \/ read[c] # "none"
                              \/ \E t \in Threads : on[t] = c

\* HandleReschedule never begins a read on a connection that has one, or
\* whose last read is still being handled: Start would hand the connection's
\* buffer to two reads.
OneReadPerConnection ==
    (at["service"] = "resched" /\ pos <= Len(awaiting)) =>
        /\ read[awaiting[pos]] = "none"
        /\ ~closed[awaiting[pos]]
        /\ \A t \in Threads : on[t] = awaiting[pos] => at[t] # "received"

\* The read operation and its handler hold a plain `this': the connection is
\* owned by a list while either exists, whatever CleanupClosedConnections
\* erases meanwhile.
ConnectionsOutliveReads ==
    \A c \in Conns :
        (read[c] # "none" \/ \E t \in Threads : on[t] = c) => (deleted \/ Owned(c))

\* The service thread is detached, nobody joins it: it is done with the
\* TCPThreader before that is deleted.
ServerNotUsedAfterDelete == deleted => at["service"] = "exited"

\* An accepted connection gets its read (or the service is being shut down):
\* the service thread leaves run() to call HandleReschedule.
ConnectionsAreRead ==
    \A c \in Conns : c \in Elements(awaiting) ~> (read[c] # "none" \/ ~isThreadRunning)

\* A closed connection leaves connectionsMade, unless the service is shut down.
ClosedConnectionsReleased ==
    \A c \in Conns : closed[c] ~> (c \notin Elements(made) \/ ~isThreadRunning)

\* The join of ~TCPThreader returns, although an accept is pending for ever.
DestructorReturns == main = "join" ~> main = "done"
=============================================================================
