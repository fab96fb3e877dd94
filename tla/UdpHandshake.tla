----------------------------- MODULE UdpHandshake -----------------------------
(***************************************************************************)
(* The UDP handshake: CommsStateMachine and Connection                     *)
(* (Common/Connection.h), the loop of UDPServer (UDP01-ThreadedServer) and *)
(* the loop of the client program (UDP01 - Client).                        *)
(*                                                                         *)
(* The sockets are external.  A network is chosen at the start: a reliable *)
(* one, or one that loses, duplicates and reorders datagrams and whose     *)
(* server may be restarted.  A client that is started again may get the    *)
(* port of an earlier one, hence the same endpoint.                        *)
(***************************************************************************)
EXTENDS Naturals, FiniteSets

CONSTANTS Clients,     \* the endpoints clients use
          MaxStarts,   \* client processes per endpoint, at most
          MaxRestarts  \* restarts of the server, at most

ASSUME BoundAssumption == MaxStarts \in Nat /\ MaxRestarts \in Nat

Server == "server"
ASSUME ServerAssumption == Server \notin Clients

States == {"SendHandshake", "SendConnectionId", "ConnectionFailed"}

VARIABLES reliable,     \* the network is, and the server stays up
          network,      \* the datagrams on their way
          at,           \* what each client process does next
          sm,           \* the CommsStateMachine of each client
          starts,       \* how often each client was started
          serverAt,     \* what the server does next
          connections,  \* the server's map: endpoint to state machine
          restarts

clientVars == <<at, sm, starts>>
serverVars == <<serverAt, connections, restarts>>
vars == <<reliable, network, clientVars, serverVars>>

-----------------------------------------------------------------------------
(* CommsStateMachine.                                                      *)

\* Faulty variant: the constructor takes its argument for iniates.
SidesSwapped(isServer) == [state |-> "SendHandshake", iniates |-> isServer, hasSent |-> FALSE]

NewMachine(isServer) == [state |-> "SendHandshake", iniates |-> ~isServer, hasSent |-> FALSE]

ReadyToSend(m) == ~m.hasSent

\* WriteProtocolSentinel and the library's name, as one message.
Handshake(m) == IF m.iniates THEN "client hello" ELSE "server hello"

\* What DataSend leaves in a buffer that held old: the handshake in its
\* first state, nothing in the others.
DataSent(m, old) == IF m.state = "SendHandshake" THEN Handshake(m) ELSE old

\* Faulty variant: hasSentState is set whatever was sent.
AlwaysSent(m) == [m EXCEPT !.hasSent = TRUE]

\* hasSentState is set with the handshake only.
AfterSend(m) == [m EXCEPT !.hasSent = @ \/ m.state = "SendHandshake"]

\* ReadProtocolSentinel and the comparison of the name: the client wants the
\* server's id, the server the client's.
Accepts(m, data) == data = IF m.iniates THEN "server hello" ELSE "client hello"

DataReceive(m, data) ==
    IF m.state # "SendHandshake" THEN m
    ELSE IF ~Accepts(m, data) THEN [m EXCEPT !.state = "ConnectionFailed"]
    ELSE IF m.iniates THEN [m EXCEPT !.state = "SendConnectionId"]
    ELSE [m EXCEPT !.state = "SendConnectionId", !.hasSent = FALSE]

-----------------------------------------------------------------------------
Init == /\ reliable \in BOOLEAN
        /\ network = {}
        /\ at = [c \in Clients |-> "off"]
        /\ sm = [c \in Clients |-> NewMachine(FALSE)]
        /\ starts = [c \in Clients |-> 0]
        /\ serverAt = "receive"
        /\ connections = <<>>
        /\ restarts = 0

Datagram(from, to, data) == [from |-> from, to |-> to, data |-> data]

\* A datagram that is received leaves the network, unless it was duplicated.
Received(d) == network' = network \ {d} \/ (~reliable /\ network' = network)

-----------------------------------------------------------------------------
(* The client program.                                                     *)

StartClient(c) ==
    /\ at[c] = "off" /\ starts[c] < MaxStarts
    /\ at' = [at EXCEPT ![c] = "send"]
    /\ sm' = [sm EXCEPT ![c] = NewMachine(FALSE)]
    /\ starts' = [starts EXCEPT ![c] = @ + 1]
    /\ UNCHANGED <<reliable, network, serverVars>>

QuitClient(c) ==
    /\ at[c] # "off"
    /\ at' = [at EXCEPT ![c] = "off"]
    /\ UNCHANGED <<reliable, network, sm, starts, serverVars>>

\* while (ReadyToSend() == false) Sleep(10), then DataSend and sendto.
ClientSend(c) ==
    /\ at[c] = "send" /\ ReadyToSend(sm[c])
    /\ network' = network \cup {Datagram(c, Server, DataSent(sm[c], "nothing"))}
    /\ sm' = [sm EXCEPT ![c] = AfterSend(@)]
    /\ at' = [at EXCEPT ![c] = "receive"]
    /\ UNCHANGED <<reliable, starts, serverVars>>

\* The blocking recvfrom, then DataReceive.
ClientReceive(c) ==
    /\ at[c] = "receive"
    /\ \E d \in network : /\ d.to = c
                          /\ Received(d)
                          /\ sm' = [sm EXCEPT ![c] = DataReceive(@, d.data)]
    /\ at' = [at EXCEPT ![c] = "send"]
    /\ UNCHANGED <<reliable, starts, serverVars>>

-----------------------------------------------------------------------------
(* The server: Receive, with a time-out, and ServiceOutgoingConnections.   *)

\* Faulty variant: the map is keyed by the sender's address alone.
KeyWithoutPort(c) == CHOOSE host \in Clients : TRUE

\* SocketPair: the sender's address and port.
Key(c) == c

\* ReceiveAllDataFromEndpoint and PassBufferToConnection.  A key that is not
\* in the map gets a new Connection, whose state machine is a server's.
ServerReceive(c) ==
    /\ serverAt = "receive" /\ serverAt' = "service"
    /\ \E d \in network :
          LET k == Key(d.from)
              m == IF k \in DOMAIN connections THEN connections[k].machine
                   ELSE NewMachine(TRUE)
              address == IF k \in DOMAIN connections THEN connections[k].address ELSE d.from
          IN  /\ d.from = c /\ d.to = Server
              /\ Received(d)
              /\ connections' = [j \in DOMAIN connections \cup {k} |->
                    IF j = k THEN [address |-> address, machine |-> DataReceive(m, d.data)]
                    ELSE connections[j]]
    /\ UNCHANGED <<reliable, clientVars, restarts>>

ServerTimeout ==
    /\ serverAt = "receive" /\ serverAt' = "service"
    /\ \A d \in network : d.to # Server
    /\ UNCHANGED <<reliable, network, clientVars, connections, restarts>>

\* RunService sends the whole buffer, a local array: what DataSend did not
\* write is what the stack held, in the worst case the handshake that was
\* received last.
Junk == {"junk", "client hello"}

\* NeedsService: IsExpectingReceive is always true.
NeedsService(machine) == TRUE

\* ServiceOutgoingConnections; HasExpired is always false.
ServiceOutgoingConnections ==
    /\ serverAt = "service" /\ serverAt' = "receive"
    /\ LET ready == {k \in DOMAIN connections : /\ NeedsService(connections[k].machine)
                                                /\ ReadyToSend(connections[k].machine)}
       IN  /\ \E junk \in [ready -> Junk] :
                 network' = network \cup
                    {Datagram(Server, connections[k].address,
                              DataSent(connections[k].machine, junk[k])) : k \in ready}
           /\ connections' = [k \in DOMAIN connections |->
                 IF k \in ready THEN [connections[k] EXCEPT !.machine = AfterSend(@)]
                 ELSE connections[k]]
    /\ UNCHANGED <<reliable, clientVars, restarts>>

-----------------------------------------------------------------------------
(* Failures.                                                               *)

LoseDatagram ==
    /\ ~reliable
    /\ \E d \in network : network' = network \ {d}
    /\ UNCHANGED <<reliable, clientVars, serverVars>>

RestartServer ==
    /\ ~reliable /\ restarts < MaxRestarts
    /\ serverAt' = "receive"
    /\ connections' = <<>>
    /\ restarts' = restarts + 1
    /\ UNCHANGED <<reliable, network, clientVars>>

-----------------------------------------------------------------------------
ServerStep == (\E c \in Clients : ServerReceive(c)) \/ ServerTimeout \/ ServiceOutgoingConnections

Next == \/ \E c \in Clients : \/ StartClient(c) \/ QuitClient(c)
                              \/ ClientSend(c) \/ ClientReceive(c)
        \/ ServerStep \/ LoseDatagram \/ RestartServer

Spec == Init /\ [][Next]_vars

\* Both programs keep running; recvfrom takes the datagrams in the order they
\* arrived, so none waits for ever; a datagram that is sent again and again is
\* not lost every time.
FairSpec == /\ Spec /\ WF_vars(ServerStep)
            /\ \A c \in Clients : /\ WF_vars(ClientSend(c))
                                  /\ SF_vars(ClientReceive(c)) /\ SF_vars(ServerReceive(c))

-----------------------------------------------------------------------------
Machines == [state : States, iniates : BOOLEAN, hasSent : BOOLEAN]
Data == {"client hello", "server hello", "junk"}

\* Every variable has its type; the two ends of a connection never change
\* sides, and the server's end never believes it has sent its handshake.
TypeOK ==
    /\ reliable \in BOOLEAN
    /\ network \subseteq [from : Clients \cup {Server}, to : Clients \cup {Server}, data : Data]
    /\ at \in [Clients -> {"off", "send", "receive"}]
    /\ sm \in [Clients -> [state : States, iniates : {TRUE}, hasSent : BOOLEAN]]
    /\ starts \in [Clients -> 0 .. MaxStarts]
    /\ serverAt \in {"receive", "service"}
    /\ DOMAIN connections \subseteq Clients
    /\ \A k \in DOMAIN connections :
          connections[k] \in [address : Clients,
                              machine : [state : States, iniates : {FALSE}, hasSent : {FALSE}]]
    /\ restarts \in 0 .. MaxRestarts

\* Nothing lost and the server up, a client that waits in recvfrom gets a
\* datagram, with any number of other clients and leftovers of earlier ones.
EveryHandshakeAnswered ==
    \A c \in Clients : (reliable /\ at[c] = "receive") ~> at[c] # "receive"

\* An answer that is lost is sent again: a client whose handshake reached the
\* server is not left waiting while the server is up.
LostAnswersRepeated ==
    \A c \in Clients : (c \in DOMAIN connections /\ at[c] = "receive") ~>
                          (c \notin DOMAIN connections \/ at[c] # "receive")

\* "client round trip complete. wait for connectionId": without loss a client
\* that greets the server completes the handshake.
HandshakeCompletes ==
    \A c \in Clients : (reliable /\ at[c] = "receive") ~>
                          (at[c] = "off" \/ sm[c].state = "SendConnectionId")
=============================================================================
