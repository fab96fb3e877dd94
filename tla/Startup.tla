------------------------------- MODULE Startup -------------------------------
(***************************************************************************)
(* The routines that open sockets and the log file: IsPortBusy             *)
(* (NetworkUtils.cpp), main of UDP01.cpp, UDPServer::Init of the threaded  *)
(* server, the constructor and destructor of udpServer, and FileLogOpen,   *)
(* LogMessage and FileLogClose (server_log.cpp).                           *)
(*                                                                         *)
(* A routine is the sequence of its steps: calls of the system, each of    *)
(* which may fail and then has steps of its own to go on with, releases of *)
(* what was acquired, and tests.  Threads run routines step by step; they  *)
(* share the log, whose stream operations are taken to be atomic.          *)
(***************************************************************************)
EXTENDS Naturals, Sequences, FiniteSets

CONSTANT Threads

\* A call that acquires something, and the steps that follow its failure.
Call(acquires, otherwise) ==
    <<[do |-> "call", acquires |-> acquires, otherwise |-> otherwise]>>

\* closesocket, WSACleanup, freeaddrinfo.
Release(resource) == <<[do |-> "release", what |-> resource]>>

\* Steps that are taken only if the test is true.
If(test, then) == <<[do |-> "if", test |-> test, then |-> then]>>

\* A step on the log: see Log.
Step(kind) == <<[do |-> kind]>>

\* The routine serves its socket from now on and does not return.
Serve == Step("serve")

\* What is left of a routine that jumps to its end.
Return == <<>>

-----------------------------------------------------------------------------
(* The log.                                                                *)

\* is_open is tested, then the message is written.
FileLog == If("open", Step("write"))

LogMessage == FileLog

\* Faulty variant: a file that cannot be opened ends the function.
CreateLogFileGivesUp(erasePreviousContents) ==
    If("not creating",
       Step("setFlag") \o If("open", Step("close")) \o Step("open")
       \o If("open", Step("clearFlag") \o (IF erasePreviousContents THEN <<>> ELSE Step("write"))))

\* Faulty variant: a file that is open is opened again.
CreateLogFileOpenAgain(erasePreviousContents) ==
    If("not creating",
       Step("setFlag") \o Step("open") \o Step("clearFlag")
       \o (IF erasePreviousContents THEN <<>> ELSE Step("write")))

\* CreateLogFile: only one caller at a time is meant to pass isCreatingFile;
\* without erasing a banner is written.
CreateLogFile(erasePreviousContents) ==
    If("not creating",
       Step("setFlag") \o If("open", Step("close")) \o Step("open") \o Step("clearFlag")
       \o (IF erasePreviousContents THEN <<>> ELSE Step("write")))

\* CreateSubDirectory asks for the whole path each time, its result is ignored.
FileLogOpen(erasePreviousContents) ==
    Step("mkdir") \o CreateLogFile(erasePreviousContents)

FileLogClose == If("open", Step("close"))

-----------------------------------------------------------------------------
(* The sockets.                                                            *)

\* IsPortBusy: messages before, after and on every failure.
IsPortBusy ==
    LET closeAll == LogMessage \o LogMessage \o Release("addrinfo") \o Release("socket")
    IN  LogMessage
        \o Call({"addrinfo"}, LogMessage \o LogMessage)                         \* getaddrinfo
        \o Call({"socket"}, LogMessage \o LogMessage \o Release("addrinfo"))
        \o Call({}, closeAll)                                                   \* setsockopt
        \o Call({"bound"}, closeAll)
        \o Release("addrinfo")
        \o Call({}, LogMessage \o LogMessage \o Release("socket"))              \* listen
        \o Release("socket") \o LogMessage

\* OpenDGramSocket of UDP01.cpp, after NetworkingInit.
OpenDGramSocket ==
       Call({"winsock"}, Return)
    \o Call({"socket"}, Release("winsock"))
    \o Call({}, Release("socket") \o Release("winsock"))                        \* setsockopt

\* Faulty variant: when bind fails Winsock is not cleaned up.
MainKeepsWinsock ==
    OpenDGramSocket
    \o Call({"bound"}, Release("socket"))
    \o Call({}, Release("socket") \o Release("winsock"))
    \o Serve

\* main of UDP01.cpp: without a datagram in time, or with an error, it closes
\* everything; otherwise it receives for ever.
Main ==
    OpenDGramSocket
    \o Call({"bound"}, Release("socket") \o Release("winsock"))
    \o Call({}, Release("socket") \o Release("winsock"))                        \* select
    \o Serve

\* CleanupAndExit of the threaded server.  The member it closes has not been
\* set when OpenDGramSocket calls it: the new socket is a local there.
CleanupAndExit == Release("ReceivingSocket") \o Release("winsock")

\* NetworkingInit and OpenDGramSocket of the threaded server.
OpenReceivingSocket ==
       Call({"winsock"}, Return)
    \o Call({"socket"}, CleanupAndExit)
    \o Call({}, CleanupAndExit)                                                 \* setsockopt

\* Faulty variant: Init goes on after BindSocket has failed.
InitUnbound == OpenReceivingSocket \o Call({"bound"}, Serve) \o Serve

\* UDPServer::Init, and the loop of operator() if it has made the server valid.
UDPServerInit == OpenReceivingSocket \o Call({"bound"}, Return) \o Serve

\* udpServer: the constructor, which throws after a failure, and the destructor.
udpServer ==
       Call({"addrinfo"}, Return)
    \o Call({"socket"}, Release("addrinfo"))
    \o Call({"bound"}, Release("addrinfo") \o Release("socket"))
    \o Release("addrinfo") \o Release("socket")

Routines == [IsPortBusy |-> IsPortBusy, Main |-> Main, UDPServerInit |-> UDPServerInit,
             udpServer |-> udpServer,
             Logger |-> FileLogOpen(FALSE) \o LogMessage \o FileLogClose \o LogMessage,
             Rotator |-> FileLogOpen(TRUE) \o LogMessage \o FileLogOpen(TRUE) \o LogMessage]

\* The routines that release on every path what they acquired.
Tidy == {"IsPortBusy", "Main", "udpServer"}

-----------------------------------------------------------------------------
VARIABLES routine,         \* what each thread runs
          todo,            \* the steps it has left
          held,            \* what it has acquired and not released
          directory,       \* the log's directory: there, missing, or without a parent
          isCreatingFile,  \* the flag of CreateLogFile
          loggingFile,     \* the stream: closed, open, or open and failed
          raced            \* two threads have been in CreateLogFile at once

logVars == <<directory, isCreatingFile, loggingFile, raced>>
vars == <<routine, todo, held, logVars>>

Init == /\ routine \in [Threads -> DOMAIN Routines]
        /\ todo = [t \in Threads |-> Routines[routine[t]]]
        /\ held = [t \in Threads |-> {}]
        /\ directory \in {"there", "missing", "no parent"}
        /\ isCreatingFile = FALSE
        /\ loggingFile = "closed"
        /\ raced = FALSE

At(t, kind) == todo[t] # <<>> /\ Head(todo[t]).do = kind
Advance(t) == todo' = [todo EXCEPT ![t] = Tail(@)]

Succeed(t) ==
    /\ At(t, "call")
    /\ held' = [held EXCEPT ![t] = @ \cup Head(todo[t]).acquires]
    /\ Advance(t)
    /\ UNCHANGED <<routine, logVars>>

Fail(t) ==
    /\ At(t, "call")
    /\ todo' = [todo EXCEPT ![t] = Head(@).otherwise]
    /\ UNCHANGED <<routine, held, logVars>>

\* A closed socket is not bound any more.
ReleaseHeld(t) ==
    /\ At(t, "release")
    /\ LET r == Head(todo[t]).what IN
       held' = [held EXCEPT ![t] = @ \ (IF r = "socket" THEN {r, "bound"} ELSE {r})]
    /\ Advance(t)
    /\ UNCHANGED <<routine, logVars>>

Holds(test) == IF test = "open" THEN loggingFile # "closed" ELSE ~isCreatingFile

\* Between the test of the flag and its reset.
Creating(t) == \E i \in DOMAIN todo[t] : todo[t][i].do = "clearFlag"

Test(t) ==
    /\ At(t, "if")
    /\ LET step == Head(todo[t])
           steps == IF Holds(step.test) THEN step.then ELSE <<>>
       IN  /\ todo' = [todo EXCEPT ![t] = steps \o Tail(@)]
           /\ raced' = (raced \/ (step.test = "not creating" /\ ~isCreatingFile
                                  /\ \E u \in Threads \ {t} : Creating(u)))
    /\ UNCHANGED <<routine, held, directory, isCreatingFile, loggingFile>>

(* The steps on the log.                                                   *)

\* mkdir makes the last directory of a path only.
MakeDirectory(t) ==
    /\ At(t, "mkdir")
    /\ directory' = IF directory = "missing" THEN "there" ELSE directory
    /\ Advance(t)
    /\ UNCHANGED <<routine, held, isCreatingFile, loggingFile, raced>>

SetFlag(t, kind, value) ==
    /\ At(t, kind)
    /\ isCreatingFile' = value
    /\ Advance(t)
    /\ UNCHANGED <<routine, held, directory, loggingFile, raced>>

\* ofstream::open makes a stream that is open already fail, for good; without
\* the directory, or for any other reason, the stream stays closed.
OpenStream(t) ==
    /\ At(t, "open")
    /\ loggingFile' \in (CASE loggingFile # "closed" -> {"failed"}
                           [] directory = "there" -> {"open", "closed"}
                           [] OTHER -> {"closed"})
    /\ Advance(t)
    /\ UNCHANGED <<routine, held, directory, isCreatingFile, raced>>

CloseStream(t) ==
    /\ At(t, "close")
    /\ loggingFile' = "closed"
    /\ Advance(t)
    /\ UNCHANGED <<routine, held, directory, isCreatingFile, raced>>

Write(t) == At(t, "write") /\ Advance(t) /\ UNCHANGED <<routine, held, logVars>>

Run(t) == \/ Succeed(t) \/ Fail(t) \/ ReleaseHeld(t) \/ Test(t)
          \/ MakeDirectory(t) \/ OpenStream(t) \/ CloseStream(t) \/ Write(t)
          \/ SetFlag(t, "setFlag", TRUE) \/ SetFlag(t, "clearFlag", FALSE)

Next == \E t \in Threads : Run(t)

\* No step but serving waits for anything.
Spec == Init /\ [][Next]_vars /\ \A t \in Threads : WF_vars(Run(t))

-----------------------------------------------------------------------------
(* Properties.                                                             *)

(* Threads run routines, hold resources and share one log.  What is bound  *)
(* is a socket, and what serves is bound: no failure on the way to the     *)
(* loop leaves a server valid.                                             *)
TypeOK == /\ routine \in [Threads -> DOMAIN Routines]
          /\ DOMAIN todo = Threads
          /\ held \in [Threads -> SUBSET {"addrinfo", "winsock", "socket", "bound"}]
          /\ \A t \in Threads :
                /\ "bound" \in held[t] => "socket" \in held[t]
                /\ At(t, "serve") => {"winsock", "bound"} \subseteq held[t]
          /\ directory \in {"there", "missing", "no parent"}
          /\ isCreatingFile \in BOOLEAN /\ raced \in BOOLEAN
          /\ loggingFile \in {"closed", "open", "failed"}

(* Whichever call fails, IsPortBusy, main of UDP01 and a udpServer release *)
(* everything that they have acquired, once, and nothing else.  UDPServer  *)
(* does not: after a failure of bind it releases nothing, and after one of *)
(* socket or setsockopt it closes a member that was never set.             *)
ReleasedOnce ==
    \A t \in Threads : routine[t] \in Tidy =>
        /\ todo[t] = <<>> => held[t] = {}
        /\ At(t, "release") => Head(todo[t]).what \in held[t]

(* The stream of the log is spoilt by two callers only who both passed the *)
(* test of isCreatingFile before one had set it: that gap is the one fault *)
(* of the flag, and opening the log again, or while it is closed by        *)
(* another thread, does no harm.                                           *)
StreamFailsOnlyRaced == loggingFile = "failed" => raced

(* The flag does not lock the log: a creation ends, whether or not the     *)
(* file could be opened, and the next one may begin.                       *)
CreationEnds == isCreatingFile ~> ~isCreatingFile
=============================================================================
