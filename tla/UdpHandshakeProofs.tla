-------------------------- MODULE UdpHandshakeProofs --------------------------
(***************************************************************************)
(* For any number of clients, starts and restarts: the types, who still    *)
(* owes a waiting client something when nothing was lost, and that no      *)
(* client ever gets past its handshake.                                    *)
(***************************************************************************)
EXTENDS UdpHandshake, TLAPS

-----------------------------------------------------------------------------
(* The invariant.                                                          *)

\* What is ever put into a datagram.  The server's state machine leaves its
\* first state with the first datagram, before anything is sent, so that its
\* own handshake is never written.
Contents == {"client hello", "junk"}

ClientMachines == [state : {"SendHandshake", "ConnectionFailed"}, iniates : {TRUE}, hasSent : BOOLEAN]
ServerMachines == [state : {"SendConnectionId", "ConnectionFailed"}, iniates : {FALSE}, hasSent : {FALSE}]

\* Datagrams go from a client to the server or back.
NetworkInv ==
    network \subseteq [from : Clients, to : {Server}, data : Contents]
                      \cup [from : {Server}, to : Clients, data : Contents]

\* A client that waits, or has gone on, has sent its handshake.
ClientInv ==
    /\ at \in [Clients -> {"off", "send", "receive"}]
    /\ sm \in [Clients -> ClientMachines]
    /\ starts \in [Clients -> 0 .. MaxStarts]
    /\ \A c \in Clients : at[c] = "receive" => sm[c].hasSent
    /\ \A c \in Clients : ~sm[c].hasSent => sm[c].state = "SendHandshake"

\* A connection sends to the endpoint it is kept under.
ServerInv ==
    /\ reliable \in BOOLEAN
    /\ serverAt \in {"receive", "service"}
    /\ restarts \in 0 .. MaxRestarts
    /\ DOMAIN connections \subseteq Clients
    /\ \A k \in DOMAIN connections :
          connections[k].address = k /\ connections[k].machine \in ServerMachines
    /\ \A k \in DOMAIN connections :
          connections[k] = [address |-> connections[k].address, machine |-> connections[k].machine]

\* Nothing lost, a client that waits has its datagram or its answer on the
\* way, or the server knows it.
Due(c) == \/ \E d \in network : d.from = c \/ d.to = c
          \/ c \in DOMAIN connections
AnswerDue == reliable => \A c \in Clients : at[c] = "receive" => Due(c)

\* No client has completed its handshake.
HandshakeOpen == \A c \in Clients : sm[c].state # "SendConnectionId"

Inv == NetworkInv /\ ClientInv /\ ServerInv /\ AnswerDue

\* At the start nobody waits.
LEMMA InvInit == Init => Inv
  <1> SUFFICES ASSUME Init PROVE Inv
    OBVIOUS
  <1>1. NetworkInv
    BY DEF Init, NetworkInv
  <1>2. ClientInv
    <2>1. NewMachine(FALSE) \in ClientMachines /\ ~NewMachine(FALSE).hasSent
          /\ NewMachine(FALSE).state = "SendHandshake"
      BY DEF NewMachine, ClientMachines
    <2>2. 0 \in 0 .. MaxStarts
      BY BoundAssumption
    <2>3. QED
      BY <2>1, <2>2 DEF Init, ClientInv
  <1>3. ServerInv
    <2>1. DOMAIN connections = {}
      BY DEF Init
    <2>2. restarts \in 0 .. MaxRestarts
      BY BoundAssumption DEF Init
    <2>3. QED
      BY <2>1, <2>2 DEF Init, ServerInv
  <1>4. AnswerDue
    BY DEF Init, AnswerDue
  <1>5. QED
    BY <1>1, <1>2, <1>3, <1>4 DEF Inv

-----------------------------------------------------------------------------
(* CommsStateMachine.                                                      *)

\* A client's machine fails with any datagram, and stays failed.
LEMMA ClientMachineReceives ==
    ASSUME NEW m \in ClientMachines, NEW data \in Contents
    PROVE  /\ DataReceive(m, data) \in ClientMachines
           /\ DataReceive(m, data).hasSent = m.hasSent
  <1>1. m.state \in {"SendHandshake", "ConnectionFailed"} /\ m.iniates = TRUE /\ m.hasSent \in BOOLEAN
    BY DEF ClientMachines
  <1>2. ~Accepts(m, data)
    BY <1>1 DEF Accepts, Contents
  <1>3. CASE m.state # "SendHandshake"
    BY <1>3 DEF DataReceive
  <1>4. CASE m.state = "SendHandshake"
    <2>1. DataReceive(m, data) = [m EXCEPT !.state = "ConnectionFailed"]
      BY <1>2, <1>4 DEF DataReceive
    <2>2. QED
      BY <2>1 DEF ClientMachines
  <1>5. QED
    BY <1>3, <1>4

\* A client's machine that has not sent its handshake sends it.
LEMMA ClientMachineSends ==
    ASSUME NEW m \in ClientMachines, m.state = "SendHandshake"
    PROVE  /\ DataSent(m, "nothing") = "client hello"
           /\ AfterSend(m) \in ClientMachines /\ AfterSend(m).hasSent
           /\ AfterSend(m).state = "SendHandshake"
  <1>1. m.iniates = TRUE
    BY DEF ClientMachines
  <1>2. DataSent(m, "nothing") = "client hello"
    BY <1>1 DEF DataSent, Handshake
  <1>3. AfterSend(m) = [m EXCEPT !.hasSent = m.hasSent \/ m.state = "SendHandshake"]
    BY DEF AfterSend
  <1>4. QED
    BY <1>2, <1>3 DEF ClientMachines

\* A server's machine leaves its first state when it gets its first datagram.
LEMMA ServerMachineReceives ==
    ASSUME NEW m, m \in ServerMachines \/ m = NewMachine(TRUE), NEW data \in Contents
    PROVE  DataReceive(m, data) \in ServerMachines
  <1>1. CASE m \in ServerMachines
    <2>1. m.state # "SendHandshake"
      BY <1>1 DEF ServerMachines
    <2>2. QED
      BY <1>1, <2>1 DEF DataReceive
  <1>2. CASE m = NewMachine(TRUE)
    <2>1. m = [state |-> "SendHandshake", iniates |-> FALSE, hasSent |-> FALSE]
      BY <1>2 DEF NewMachine
    <2>2. CASE Accepts(m, data)
      <3>1. DataReceive(m, data) = [m EXCEPT !.state = "SendConnectionId", !.hasSent = FALSE]
        BY <2>1, <2>2 DEF DataReceive
      <3>2. QED
        BY <2>1, <3>1 DEF ServerMachines
    <2>3. CASE ~Accepts(m, data)
      <3>1. DataReceive(m, data) = [m EXCEPT !.state = "ConnectionFailed"]
        BY <2>1, <2>3 DEF DataReceive
      <3>2. QED
        BY <2>1, <3>1 DEF ServerMachines
    <2>4. QED
      BY <2>2, <2>3
  <1>3. QED
    BY <1>1, <1>2

\* Later it sends what the stack held, and never notes that it has sent.
LEMMA ServerMachineSends ==
    ASSUME NEW m \in ServerMachines, NEW junk \in Junk
    PROVE  DataSent(m, junk) \in Contents /\ AfterSend(m) \in ServerMachines
  <1>1. m.state # "SendHandshake" /\ m.hasSent = FALSE
    BY DEF ServerMachines
  <1>2. DataSent(m, junk) = junk
    BY <1>1 DEF DataSent
  <1>3. AfterSend(m) = [m EXCEPT !.hasSent = m.hasSent \/ m.state = "SendHandshake"]
    BY DEF AfterSend
  <1>4. AfterSend(m) \in ServerMachines
    BY <1>1, <1>3 DEF ServerMachines
  <1>5. QED
    BY <1>2, <1>4 DEF Junk, Contents

-----------------------------------------------------------------------------
(* The client program's steps.                                             *)

\* A new process has a new machine.
LEMMA StartClientInv ==
    ASSUME Inv, NEW c \in Clients, StartClient(c)
    PROVE  Inv'
  <1>0. NetworkInv /\ ClientInv /\ ServerInv /\ AnswerDue
    BY DEF Inv
  <1>1. /\ at' = [at EXCEPT ![c] = "send"] /\ sm' = [sm EXCEPT ![c] = NewMachine(FALSE)]
        /\ starts' = [starts EXCEPT ![c] = @ + 1] /\ starts[c] < MaxStarts
        /\ UNCHANGED <<reliable, network, serverVars>>
    BY DEF StartClient
  <1>2. NewMachine(FALSE) \in ClientMachines /\ NewMachine(FALSE).state = "SendHandshake"
    BY DEF NewMachine, ClientMachines
  <1>3. NetworkInv' /\ ServerInv'
    BY <1>0, <1>1 DEF NetworkInv, ServerInv, serverVars
  <1>4. ClientInv'
    <2>1. at' \in [Clients -> {"off", "send", "receive"}] /\ sm' \in [Clients -> ClientMachines]
      BY <1>0, <1>1, <1>2 DEF ClientInv
    <2>2. starts' \in [Clients -> 0 .. MaxStarts]
      <3>1. starts \in [Clients -> 0 .. MaxStarts] /\ starts[c] + 1 \in 0 .. MaxStarts
        BY <1>0, <1>1, BoundAssumption DEF ClientInv
      <3>2. starts' = [starts EXCEPT ![c] = starts[c] + 1]
        BY <1>1
      <3>3. QED
        BY <3>1, <3>2
    <2>3. \A k \in Clients : /\ k = c => at'[k] = "send" /\ sm'[k] = NewMachine(FALSE)
                             /\ k # c => at'[k] = at[k] /\ sm'[k] = sm[k]
      BY <1>0, <1>1 DEF ClientInv
    <2>4. \A k \in Clients : /\ at'[k] = "receive" => sm'[k].hasSent
                             /\ ~sm'[k].hasSent => sm'[k].state = "SendHandshake"
      <3>1. \A k \in Clients : /\ at[k] = "receive" => sm[k].hasSent
                               /\ ~sm[k].hasSent => sm[k].state = "SendHandshake"
        BY <1>0 DEF ClientInv
      <3>2. "send" # "receive"
        OBVIOUS
      <3>3. QED
        BY <1>2, <2>3, <3>1, <3>2, Zenon
    <2>5. QED
      BY <2>1, <2>2, <2>4 DEF ClientInv
  <1>5. AnswerDue'
    <2>1. \A k \in Clients : at'[k] = "receive" => at[k] = "receive"
      BY <1>0, <1>1 DEF ClientInv
    <2>2. reliable' = reliable /\ network' = network /\ connections' = connections
      BY <1>1 DEF serverVars
    <2>3. QED
      BY <1>0, <2>1, <2>2, Zenon DEF AnswerDue, Due
  <1>6. QED
    BY <1>3, <1>4, <1>5 DEF Inv

\* A client that quits waits no more.
LEMMA QuitClientInv ==
    ASSUME Inv, NEW c \in Clients, QuitClient(c)
    PROVE  Inv'
  <1>0. NetworkInv /\ ClientInv /\ ServerInv /\ AnswerDue
    BY DEF Inv
  <1>1. at' = [at EXCEPT ![c] = "off"] /\ UNCHANGED <<reliable, network, sm, starts, serverVars>>
    BY DEF QuitClient
  <1>2. \A k \in Clients : at'[k] = "receive" => at[k] = "receive"
    BY <1>0, <1>1 DEF ClientInv
  <1>3. NetworkInv' /\ ServerInv'
    BY <1>0, <1>1 DEF NetworkInv, ServerInv, serverVars
  <1>4. ClientInv'
    BY <1>0, <1>1, <1>2 DEF ClientInv
  <1>5. AnswerDue'
    <2>1. reliable' = reliable /\ network' = network /\ connections' = connections
      BY <1>1 DEF serverVars
    <2>2. QED
      BY <1>0, <1>2, <2>1, Zenon DEF AnswerDue, Due
  <1>6. QED
    BY <1>3, <1>4, <1>5 DEF Inv

\* A client that begins to wait has its handshake on the way.
LEMMA ClientSendInv ==
    ASSUME Inv, NEW c \in Clients, ClientSend(c)
    PROVE  Inv'
  <1>0. NetworkInv /\ ClientInv /\ ServerInv /\ AnswerDue
    BY DEF Inv
  <1> DEFINE d == Datagram(c, Server, DataSent(sm[c], "nothing"))
             m == AfterSend(sm[c])
  <1>1. /\ at' = [at EXCEPT ![c] = "receive"] /\ sm' = [sm EXCEPT ![c] = m]
        /\ network' = network \cup {d}
        /\ UNCHANGED <<reliable, starts, serverVars>> /\ ~sm[c].hasSent
    BY DEF ClientSend, ReadyToSend
  <1>2. sm[c] \in ClientMachines /\ sm[c].state = "SendHandshake"
    BY <1>0, <1>1 DEF ClientInv
  <1>3. /\ DataSent(sm[c], "nothing") = "client hello"
        /\ m \in ClientMachines /\ m.hasSent /\ m.state = "SendHandshake"
    BY <1>2, ClientMachineSends
  <1>4. d \in [from : Clients, to : {Server}, data : Contents] /\ d.from = c
    BY <1>3 DEF Datagram, Contents
  <1> HIDE DEF d, m
  <1>5. NetworkInv'
    BY <1>0, <1>1, <1>4 DEF NetworkInv
  <1>6. ServerInv'
    BY <1>0, <1>1 DEF ServerInv, serverVars
  <1>7. \A k \in Clients : /\ k = c => at'[k] = "receive" /\ sm'[k] = m
                           /\ k # c => at'[k] = at[k] /\ sm'[k] = sm[k]
    BY <1>0, <1>1 DEF ClientInv
  <1>8. ClientInv'
    <2>1. at' \in [Clients -> {"off", "send", "receive"}] /\ sm' \in [Clients -> ClientMachines]
      BY <1>0, <1>1, <1>3 DEF ClientInv
    <2>2. starts' \in [Clients -> 0 .. MaxStarts]
      BY <1>0, <1>1 DEF ClientInv
    <2>3. \A k \in Clients : /\ at[k] = "receive" => sm[k].hasSent
                             /\ ~sm[k].hasSent => sm[k].state = "SendHandshake"
      BY <1>0 DEF ClientInv
    <2>4. \A k \in Clients : /\ at'[k] = "receive" => sm'[k].hasSent
                             /\ ~sm'[k].hasSent => sm'[k].state = "SendHandshake"
      BY <1>3, <1>7, <2>3, Zenon
    <2>5. QED
      BY <2>1, <2>2, <2>4 DEF ClientInv
  <1>9. AnswerDue'
    <2>1. reliable' = reliable /\ connections' = connections
      BY <1>1 DEF serverVars
    <2>2. SUFFICES ASSUME reliable, NEW k \in Clients, at'[k] = "receive"
                   PROVE  Due(k)'
      BY <2>1 DEF AnswerDue
    <2>3. CASE k = c
      <3>1. d \in network'
        BY <1>1
      <3>2. QED
        BY <1>4, <2>3, <3>1 DEF Due
    <2>4. CASE k # c
      <3>1. Due(k)
        BY <1>0, <1>7, <2>2, <2>4 DEF AnswerDue
      <3>2. network \subseteq network'
        BY <1>1
      <3>3. QED
        BY <2>1, <3>1, <3>2 DEF Due
    <2>5. QED
      BY <2>3, <2>4
  <1>10. QED
    BY <1>5, <1>6, <1>8, <1>9 DEF Inv

\* A datagram that is received was there, and the others stay.
LEMMA OthersStay ==
    ASSUME NEW d \in network, Received(d)
    PROVE  network' \subseteq network /\ network \ {d} \subseteq network'
  BY DEF Received

\* What a client takes from the network was for no other.
LEMMA ClientReceiveInv ==
    ASSUME Inv, NEW c \in Clients, ClientReceive(c)
    PROVE  Inv'
  <1>0. NetworkInv /\ ClientInv /\ ServerInv /\ AnswerDue
    BY DEF Inv
  <1>1. PICK d \in network : d.to = c /\ Received(d) /\ sm' = [sm EXCEPT ![c] = DataReceive(@, d.data)]
    BY DEF ClientReceive
  <1>2. /\ at[c] = "receive" /\ at' = [at EXCEPT ![c] = "send"]
        /\ UNCHANGED <<reliable, starts, serverVars>>
    BY DEF ClientReceive
  <1>3. network' \subseteq network /\ network \ {d} \subseteq network'
    BY <1>1, OthersStay
  <1>4. d.from = Server /\ d.data \in Contents
    BY <1>0, <1>1, ServerAssumption DEF NetworkInv
  <1> DEFINE m == DataReceive(sm[c], d.data)
  <1>5. sm[c] \in ClientMachines /\ sm[c].hasSent
    BY <1>0, <1>2 DEF ClientInv
  <1>6. m \in ClientMachines /\ m.hasSent = sm[c].hasSent
    BY <1>4, <1>5, ClientMachineReceives
  <1>7. sm' = [sm EXCEPT ![c] = m]
    BY <1>1
  <1> HIDE DEF m
  <1>8. NetworkInv'
    BY <1>0, <1>3 DEF NetworkInv
  <1>9. ServerInv'
    BY <1>0, <1>2 DEF ServerInv, serverVars
  <1>10. \A k \in Clients : /\ k = c => at'[k] = "send" /\ sm'[k] = m
                            /\ k # c => at'[k] = at[k] /\ sm'[k] = sm[k]
    BY <1>0, <1>2, <1>7 DEF ClientInv
  <1>11. ClientInv'
    <2>1. at' \in [Clients -> {"off", "send", "receive"}] /\ sm' \in [Clients -> ClientMachines]
      BY <1>0, <1>2, <1>6, <1>7 DEF ClientInv
    <2>2. starts' \in [Clients -> 0 .. MaxStarts]
      BY <1>0, <1>2 DEF ClientInv
    <2>3. \A k \in Clients : /\ at[k] = "receive" => sm[k].hasSent
                             /\ ~sm[k].hasSent => sm[k].state = "SendHandshake"
      BY <1>0 DEF ClientInv
    <2>4. "send" # "receive" /\ m.hasSent
      BY <1>5, <1>6
    <2>5. \A k \in Clients : /\ at'[k] = "receive" => sm'[k].hasSent
                             /\ ~sm'[k].hasSent => sm'[k].state = "SendHandshake"
      BY <1>10, <2>3, <2>4, Zenon
    <2>6. QED
      BY <2>1, <2>2, <2>5 DEF ClientInv
  <1>12. AnswerDue'
    <2>1. reliable' = reliable /\ connections' = connections
      BY <1>2 DEF serverVars
    <2>2. SUFFICES ASSUME reliable, NEW k \in Clients, at'[k] = "receive"
                   PROVE  Due(k)'
      BY <2>1 DEF AnswerDue
    <2>3. k # c /\ at[k] = "receive"
      BY <1>10, <2>2
    <2>4. Due(k)
      BY <1>0, <2>2, <2>3 DEF AnswerDue
    <2>5. \A e \in network : e.from = k \/ e.to = k => e # d
      BY <1>1, <1>4, <2>3, ServerAssumption
    <2>6. QED
      BY <1>3, <2>1, <2>4, <2>5 DEF Due
  <1>13. QED
    BY <1>8, <1>9, <1>11, <1>12 DEF Inv

-----------------------------------------------------------------------------
(* The server's steps.                                                     *)

\* The clients see nothing of them.
LEMMA ClientsUnchanged ==
    ASSUME ClientInv, UNCHANGED clientVars
    PROVE  ClientInv' /\ at' = at
  BY DEF ClientInv, clientVars

\* A client whose datagram is taken is in the map.
LEMMA ServerReceiveInv ==
    ASSUME Inv, NEW c \in Clients, ServerReceive(c)
    PROVE  Inv'
  <1>0. NetworkInv /\ ClientInv /\ ServerInv /\ AnswerDue
    BY DEF Inv
  <1>1. PICK d \in network :
            LET k == Key(d.from)
                m == IF k \in DOMAIN connections THEN connections[k].machine ELSE NewMachine(TRUE)
                address == IF k \in DOMAIN connections THEN connections[k].address ELSE d.from
            IN  /\ d.from = c /\ d.to = Server
                /\ Received(d)
                /\ connections' = [j \in DOMAIN connections \cup {k} |->
                      IF j = k THEN [address |-> address, machine |-> DataReceive(m, d.data)]
                      ELSE connections[j]]
    BY DEF ServerReceive
  <1> DEFINE m == IF c \in DOMAIN connections THEN connections[c].machine ELSE NewMachine(TRUE)
             address == IF c \in DOMAIN connections THEN connections[c].address ELSE c
             entry == [address |-> address, machine |-> DataReceive(m, d.data)]
  <1>2. /\ d.from = c /\ d.to = Server /\ Received(d)
        /\ connections' = [j \in DOMAIN connections \cup {c} |-> IF j = c THEN entry ELSE connections[j]]
    BY <1>1 DEF Key
  <1>3. serverAt' = "service" /\ UNCHANGED <<reliable, clientVars, restarts>>
    BY DEF ServerReceive
  <1>4. network' \subseteq network /\ network \ {d} \subseteq network'
    BY <1>2, OthersStay
  <1>5. d.data \in Contents
    BY <1>0, <1>2, ServerAssumption DEF NetworkInv
  <1>6. (m \in ServerMachines \/ m = NewMachine(TRUE)) /\ address = c
    BY <1>0 DEF ServerInv
  <1>7. DataReceive(m, d.data) \in ServerMachines
    BY <1>5, <1>6, ServerMachineReceives
  <1>8. entry.address = c /\ entry.machine \in ServerMachines /\ entry = [address |-> entry.address, machine |-> entry.machine]
    BY <1>6, <1>7
  <1> HIDE DEF entry
  <1>9. /\ DOMAIN connections' = DOMAIN connections \cup {c}
        /\ connections'[c] = entry
        /\ \A j \in DOMAIN connections : j # c => connections'[j] = connections[j]
    BY <1>2
  <1>10. NetworkInv'
    BY <1>0, <1>4 DEF NetworkInv
  <1>11. ClientInv' /\ at' = at
    BY <1>0, <1>3, ClientsUnchanged
  <1>12. ServerInv'
    <2>1. reliable' \in BOOLEAN /\ serverAt' \in {"receive", "service"} /\ restarts' \in 0 .. MaxRestarts
      BY <1>0, <1>3 DEF ServerInv
    <2>2. DOMAIN connections' \subseteq Clients
      BY <1>0, <1>9 DEF ServerInv
    <2>3. \A k \in DOMAIN connections :
              /\ connections[k].address = k /\ connections[k].machine \in ServerMachines
              /\ connections[k] = [address |-> connections[k].address, machine |-> connections[k].machine]
      BY <1>0, Zenon DEF ServerInv
    <2>4. ASSUME NEW k \in DOMAIN connections'
          PROVE  /\ connections'[k].address = k /\ connections'[k].machine \in ServerMachines
                 /\ connections'[k] = [address |-> connections'[k].address, machine |-> connections'[k].machine]
      <3>1. CASE k = c
        BY <1>8, <1>9, <3>1, Zenon
      <3>2. CASE k # c
        <4>1. k \in DOMAIN connections /\ connections'[k] = connections[k]
          BY <1>9, <3>2
        <4>2. QED
          BY <2>3, <4>1, Zenon
      <3>3. QED
        BY <3>1, <3>2
    <2>5. QED
      BY <2>1, <2>2, <2>4 DEF ServerInv
  <1>13. AnswerDue'
    <2>1. SUFFICES ASSUME reliable, NEW k \in Clients, at[k] = "receive"
                   PROVE  Due(k)'
      BY <1>3, <1>11 DEF AnswerDue
    <2>2. CASE k = c
      BY <1>9, <2>2 DEF Due
    <2>3. CASE k # c
      <3>1. Due(k)
        BY <1>0, <2>1 DEF AnswerDue
      <3>2. \A e \in network : e.from = k \/ e.to = k => e # d
        BY <1>2, <2>3, ServerAssumption
      <3>3. QED
        BY <1>4, <1>9, <3>1, <3>2 DEF Due
    <2>4. QED
      BY <2>2, <2>3
  <1>14. QED
    BY <1>10, <1>11, <1>12, <1>13 DEF Inv

\* A time-out changes nothing but the server's turn.
LEMMA ServerTimeoutInv == ASSUME Inv, ServerTimeout PROVE Inv'
  <1>0. NetworkInv /\ ClientInv /\ ServerInv /\ AnswerDue
    BY DEF Inv
  <1>1. serverAt' = "service" /\ UNCHANGED <<reliable, network, clientVars, connections, restarts>>
    BY DEF ServerTimeout
  <1>2. NetworkInv'
    BY <1>0, <1>1 DEF NetworkInv
  <1>3. ClientInv' /\ at' = at
    BY <1>0, <1>1, ClientsUnchanged
  <1>4. ServerInv'
    BY <1>0, <1>1 DEF ServerInv
  <1>5. AnswerDue'
    BY <1>0, <1>1, <1>3, Zenon DEF AnswerDue, Due
  <1>6. QED
    BY <1>2, <1>3, <1>4, <1>5 DEF Inv

\* Servicing sends to the endpoints in the map, and keeps it.
LEMMA ServiceInv == ASSUME Inv, ServiceOutgoingConnections PROVE Inv'
  <1>0. NetworkInv /\ ClientInv /\ ServerInv /\ AnswerDue
    BY DEF Inv
  <1> DEFINE ready == {k \in DOMAIN connections : /\ NeedsService(connections[k].machine)
                                                  /\ ReadyToSend(connections[k].machine)}
  <1>1. /\ serverAt' = "receive" /\ UNCHANGED <<reliable, clientVars, restarts>>
        /\ connections' = [k \in DOMAIN connections |->
               IF k \in ready THEN [connections[k] EXCEPT !.machine = AfterSend(@)]
               ELSE connections[k]]
    BY DEF ServiceOutgoingConnections
  <1>2. PICK junk \in [ready -> Junk] :
            network' = network \cup
               {Datagram(Server, connections[k].address,
                         DataSent(connections[k].machine, junk[k])) : k \in ready}
    BY DEF ServiceOutgoingConnections
  <1>3. ready \subseteq DOMAIN connections
    OBVIOUS
  <1> HIDE DEF ready
  <1>4. \A k \in DOMAIN connections :
            /\ connections[k].address = k /\ connections[k].machine \in ServerMachines /\ k \in Clients
            /\ connections[k] = [address |-> connections[k].address, machine |-> connections[k].machine]
    BY <1>0, Zenon DEF ServerInv
  <1>5. NetworkInv'
    <2>1. ASSUME NEW k \in ready
          PROVE  Datagram(Server, connections[k].address, DataSent(connections[k].machine, junk[k]))
                    \in [from : {Server}, to : Clients, data : Contents]
      <3>1. connections[k].machine \in ServerMachines /\ junk[k] \in Junk
            /\ connections[k].address \in Clients
        BY <1>3, <1>4
      <3>2. DataSent(connections[k].machine, junk[k]) \in Contents
        BY <3>1, ServerMachineSends
      <3>3. QED
        BY <3>1, <3>2 DEF Datagram
    <2>2. QED
      BY <1>0, <1>2, <2>1 DEF NetworkInv
  <1>6. ClientInv' /\ at' = at
    BY <1>0, <1>1, ClientsUnchanged
  <1>7. ServerInv'
    <2>1. reliable' \in BOOLEAN /\ serverAt' \in {"receive", "service"} /\ restarts' \in 0 .. MaxRestarts
      BY <1>0, <1>1 DEF ServerInv
    <2>2. DOMAIN connections' = DOMAIN connections /\ DOMAIN connections \subseteq Clients
      BY <1>0, <1>1 DEF ServerInv
    <2>3. ASSUME NEW k \in DOMAIN connections
          PROVE  /\ connections'[k].address = k /\ connections'[k].machine \in ServerMachines
                 /\ connections'[k] = [address |-> connections'[k].address, machine |-> connections'[k].machine]
      <3>1. CASE k \in ready
        <4> DEFINE a == connections[k].address
                   m == connections[k].machine
        <4>1. connections[k] = [address |-> a, machine |-> m] /\ a = k /\ m \in ServerMachines
          BY <1>4
        <4>2. connections'[k] = [connections[k] EXCEPT !.machine = AfterSend(connections[k].machine)]
          BY <1>1, <3>1
        <4>3. connections'[k] = [[address |-> a, machine |-> m] EXCEPT !.machine = AfterSend(m)]
          BY <4>1, <4>2, Zenon
        <4>4. Junk # {} /\ "junk" \in Junk
          BY DEF Junk
        <4>5. AfterSend(m) \in ServerMachines
          BY <4>1, <4>4, ServerMachineSends
        <4> HIDE DEF a, m
        <4>6. connections'[k] = [address |-> a, machine |-> AfterSend(m)]
          BY <4>3
        <4>7. QED
          BY <4>1, <4>5, <4>6
      <3>2. CASE k \notin ready
        <4>1. connections'[k] = connections[k]
          BY <1>1, <3>2
        <4>2. QED
          BY <1>4, <4>1, Zenon
      <3>3. QED
        BY <3>1, <3>2
    <2>4. QED
      BY <2>1, <2>2, <2>3, Zenon DEF ServerInv
  <1>8. AnswerDue'
    <2>1. DOMAIN connections' = DOMAIN connections /\ network \subseteq network' /\ reliable' = reliable
      BY <1>1, <1>2
    <2>2. QED
      BY <1>0, <1>6, <2>1 DEF AnswerDue, Due
  <1>9. QED
    BY <1>5, <1>6, <1>7, <1>8 DEF Inv

-----------------------------------------------------------------------------
(* Failures.                                                               *)

\* Only a network that is not reliable loses.
LEMMA LoseDatagramInv == ASSUME Inv, LoseDatagram PROVE Inv'
  <1>0. NetworkInv /\ ClientInv /\ ServerInv
    BY DEF Inv
  <1>1. ~reliable /\ network' \subseteq network /\ UNCHANGED <<reliable, clientVars, serverVars>>
    BY DEF LoseDatagram
  <1>2. NetworkInv' /\ AnswerDue'
    BY <1>0, <1>1 DEF NetworkInv, AnswerDue
  <1>3. ClientInv'
    BY <1>0, <1>1, ClientsUnchanged
  <1>4. ServerInv'
    BY <1>0, <1>1 DEF ServerInv, serverVars
  <1>5. QED
    BY <1>2, <1>3, <1>4 DEF Inv

\* Nor is anything promised of a server that is restarted.
LEMMA RestartServerInv == ASSUME Inv, RestartServer PROVE Inv'
  <1>0. NetworkInv /\ ClientInv /\ ServerInv
    BY DEF Inv
  <1>1. /\ ~reliable /\ restarts < MaxRestarts /\ serverAt' = "receive" /\ connections' = <<>>
        /\ restarts' = restarts + 1 /\ UNCHANGED <<reliable, network, clientVars>>
    BY DEF RestartServer
  <1>2. NetworkInv' /\ AnswerDue'
    BY <1>0, <1>1 DEF NetworkInv, AnswerDue
  <1>3. ClientInv'
    BY <1>0, <1>1, ClientsUnchanged
  <1>4. ServerInv'
    <2>1. DOMAIN connections' = {}
      BY <1>1
    <2>2. restarts' \in 0 .. MaxRestarts
      BY <1>0, <1>1, BoundAssumption DEF ServerInv
    <2>3. QED
      BY <1>0, <1>1, <2>1, <2>2 DEF ServerInv
  <1>5. QED
    BY <1>2, <1>3, <1>4 DEF Inv

-----------------------------------------------------------------------------
(* The theorems.                                                           *)

\* Every step keeps the invariant.
LEMMA NextInv == Inv /\ [Next]_vars => Inv'
  <1> SUFFICES ASSUME Inv, [Next]_vars
               PROVE  Inv'
    OBVIOUS
  <1>1. ASSUME NEW c \in Clients, StartClient(c) \/ QuitClient(c)
        PROVE  Inv'
    BY <1>1, StartClientInv, QuitClientInv
  <1>2. ASSUME NEW c \in Clients, ClientSend(c) \/ ClientReceive(c)
        PROVE  Inv'
    BY <1>2, ClientSendInv, ClientReceiveInv
  <1>3. ASSUME NEW c \in Clients, ServerReceive(c)
        PROVE  Inv'
    BY <1>3, ServerReceiveInv
  <1>4. CASE ServerTimeout \/ ServiceOutgoingConnections
    BY <1>4, ServerTimeoutInv, ServiceInv
  <1>5. CASE LoseDatagram \/ RestartServer
    BY <1>5, LoseDatagramInv, RestartServerInv
  <1>6. CASE UNCHANGED vars
    <2>1. NetworkInv' /\ ClientInv'
      BY <1>6 DEF Inv, NetworkInv, ClientInv, vars, clientVars
    <2>2. ServerInv'
      BY <1>6 DEF Inv, ServerInv, vars, serverVars
    <2>3. AnswerDue'
      BY <1>6, Zenon DEF Inv, AnswerDue, Due, vars, clientVars, serverVars
    <2>4. QED
      BY <2>1, <2>2, <2>3 DEF Inv
  <1>7. QED
    BY <1>1, <1>2, <1>3, <1>4, <1>5, <1>6 DEF Next, ServerStep

\* The invariant holds in every reachable state.
THEOREM Invariance == Spec => []Inv
  BY InvInit, NextInv, PTL DEF Spec

\* Every variable has its type; no state machine changes sides, and the
\* server's ones never believe that they have sent (CommsStateMachine).
THEOREM TypeCorrect == Spec => []TypeOK
  <1>1. Inv => TypeOK
    <2> SUFFICES ASSUME Inv PROVE TypeOK
      OBVIOUS
    <2>1. network \subseteq [from : Clients \cup {Server}, to : Clients \cup {Server}, data : Data]
      BY DEF Inv, NetworkInv, Contents, Data
    <2>2. sm \in [Clients -> [state : States, iniates : {TRUE}, hasSent : BOOLEAN]]
      BY DEF Inv, ClientInv, ClientMachines, States
    <2>3. ASSUME NEW k \in DOMAIN connections
          PROVE  connections[k] \in [address : Clients,
                                     machine : [state : States, iniates : {FALSE}, hasSent : {FALSE}]]
      <3>1. /\ k \in Clients /\ connections[k].address = k /\ connections[k].machine \in ServerMachines
            /\ connections[k] = [address |-> connections[k].address, machine |-> connections[k].machine]
        BY Zenon DEF Inv, ServerInv
      <3>2. connections[k].machine \in [state : States, iniates : {FALSE}, hasSent : {FALSE}]
        BY <3>1 DEF ServerMachines, States
      <3>3. QED
        BY <3>1, <3>2
    <2>4. QED
      BY <2>1, <2>2, <2>3 DEF Inv, ClientInv, ServerInv, TypeOK
  <1>2. QED
    BY <1>1, Invariance, PTL

\* While nothing is lost, a client that is blocked in recvfrom always has its
\* handshake or an answer on the way, or is in the server's map, all of which
\* ServiceOutgoingConnections answers: nothing else could wake it.
THEOREM AnswersDue == Spec => []AnswerDue
  <1>1. Inv => AnswerDue
    BY DEF Inv
  <1>2. QED
    BY <1>1, Invariance, PTL

\* No client ever gets past its handshake, in no run at all: the server's
\* state machine leaves its first state, the only one in which DataSend writes
\* the handshake, when the first datagram creates it.
THEOREM NeverCompletes == Spec => []HandshakeOpen
  <1>1. Inv => HandshakeOpen
    BY DEF Inv, ClientInv, ClientMachines, HandshakeOpen
  <1>2. QED
    BY <1>1, Invariance, PTL
=============================================================================
