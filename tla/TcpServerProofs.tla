--------------------------- MODULE TcpServerProofs ---------------------------
(***************************************************************************)
(* For every number of pool threads, connections and messages, a server    *)
(* whose threads are prompt keeps its types, loses no connection, never    *)
(* gives one to two reads or frees it while it is used, and has ended its  *)
(* service thread before it is deleted.                                    *)
(***************************************************************************)
EXTENDS TcpServer, FiniteSetTheorems, SequenceTheorems, TLAPS

-----------------------------------------------------------------------------
(* The inductive invariant.                                                *)

\* No connection is twice in the list.
Injective(list) == \A i, j \in 1 .. Len(list) : list[i] = list[j] => i = j

\* A thread that works on a new connection, or on one that was read.
Accepting == {"accepted", "accepted_made", "accept_again"}
Reading == {"received", "failed", "closing"}
Handling == Accepting \cup Reading

\* Every thread but the service thread has ended: from then on the server is
\* sequential.
Alone == \A t \in Threads \ {"service"} : at[t] = "exited"

\* Variables have types, whatever they say of each other.
Types ==
    /\ at \in [Threads -> Locations] /\ on \in [Threads -> 0 .. MaxConns + 1]
    /\ pos \in 1 .. MaxConns + 2
    /\ main \in {"begin", "spawn", "signals", "serving", "napping", "join", "done"}
    /\ nap \in [service : 0 .. 1, main : 0 .. 5]
    /\ isThreadRunning \in BOOLEAN /\ stopped \in BOOLEAN /\ deleted \in BOOLEAN
    /\ stopHandler \in {"none", "ready", "done"}
    /\ created \in 0 .. MaxConns + 1
    /\ accept \in {"none", "pending", "accepted", "refused"}
    /\ read \in [Conns -> {"none", "pending", "data", "error"}]
    /\ messages \in [Conns -> 0 .. MaxMessages]
    /\ closed \in [Conns -> BOOLEAN]
    /\ awaiting \in Seq(Conns) /\ made \in Seq(Conns)

\* Which threads there are while main starts and ends the service.
LifeInv ==
    /\ at["starter"] \in {"off", "accept_again", "exited"}
    /\ main = "begin" <=> at["starter"] = "off"
    /\ \A t \in Threads \ {"starter"} : main \in {"begin", "spawn"} <=> at[t] = "off"
    /\ \A w \in Workers : at[w] \in {"off", "run", "exited"} \cup Handling
    /\ \A t \in Threads : at[t] \notin Handling => on[t] = 0
    /\ stopHandler = "none" <=> main \in {"begin", "spawn", "signals"}
    /\ stopped <=> stopHandler = "done"

\* The service thread looks at the lists only when it is alone, and no read
\* begins before that.
AloneInv ==
    /\ at["service"] \in {"sleep", "cleanup", "resched_check", "resched", "clear"} => stopped
    /\ \/ at["service"] \in {"cleanup", "resched_check", "resched", "clear"}
       \/ at["service"] = "sleep" /\ nap.service = 0
       => Alone
    /\ ~Alone => /\ \A c \in Conns : read[c] = "none" /\ ~closed[c]
                 /\ \A t \in Threads : at[t] \notin Reading

\* There is one accept, or one thread that is about to begin the next.
AcceptInv ==
    /\ main = "begin" => accept = "none"
    /\ \A t \in Threads : at[t] \in Accepting =>
          /\ accept = "none" /\ on[t] = created /\ created <= MaxConns
          /\ at[t] # "accept_again" => created >= 1
          /\ \A u \in Threads : at[u] \in Accepting => u = t
    /\ accept # "none" => created >= 1
    /\ accept \in {"accepted", "refused"} => created <= MaxConns
    /\ main = "begin" => created = 0

\* The connection that is being accepted is in no list yet.
New(c) == \/ c > created
          \/ c = created /\ (accept # "none" \/ \E t \in Threads : at[t] = "accepted")

ListInv ==
    /\ Injective(awaiting) /\ Injective(made)
    /\ \A c \in Elements(awaiting) : \/ c \in Elements(made)
                                      \/ \E t \in Threads : at[t] = "accepted_made" /\ on[t] = c
    /\ \A c \in Elements(awaiting) \cup Elements(made) : ~New(c)
    /\ \A t \in Threads : at[t] = "accepted_made" =>
          created \in Elements(awaiting) /\ created \notin Elements(made)

\* Every connection is in one place: in line, being read, in the hands of a
\* handler, or closed; only HandleReschedule sees it twice.
PlaceInv ==
    /\ \A c \in Conns : closed[c] => read[c] = "none" /\ c \notin Elements(awaiting) /\ ~New(c)
    /\ \A c \in Conns : read[c] # "none" => c \in Elements(made)
    /\ \A c \in Conns : c \in Elements(awaiting) /\ read[c] # "none" =>
          at["service"] \in {"resched", "clear"}
    /\ \A t \in Threads : at[t] \in Reading =>
          /\ on[t] \in Elements(made) \ Elements(awaiting)
          /\ read[on[t]] = "none"
          /\ closed[on[t]] <=> at[t] # "received"
    /\ \A c \in Elements(made) : \/ closed[c] \/ c \in Elements(awaiting) \/ read[c] # "none"
                                 \/ \E t \in Threads : at[t] = "received" /\ on[t] = c

\* The iterators stay in their lists; HandleReschedule has started what lies
\* before its iterator.
IteratorInv ==
    /\ at["service"] = "cleanup" => pos <= Len(made) + 1
    /\ at["service"] = "resched" =>
          /\ pos <= Len(awaiting) + 1
          /\ \A i \in 1 .. Len(awaiting) : read[awaiting[i]] # "none" <=> i < pos
    /\ at["service"] = "clear" => \A i \in 1 .. Len(awaiting) : read[awaiting[i]] # "none"

\* Once the flag is down the service thread needs no more than two naps of
\* main to end.
Leaving == \/ at["service"] \in {"exited", "resched_check", "check"}
           \/ at["service"] = "sleep" /\ nap.service = 0

EndInv ==
    /\ deleted <=> main = "done"
    /\ main = "napping" => nap.main <= 1
    /\ main \in {"napping", "join", "done"} => ~isThreadRunning
    /\ main = "napping" /\ nap.main = 0 => Leaving
    /\ main = "join" => IF nap.main = 5 THEN Leaving ELSE at["service"] = "exited"
    /\ main = "done" => at["service"] = "exited"

Inv == Types /\ LifeInv /\ AloneInv /\ AcceptInv /\ ListInv /\ PlaceInv /\ IteratorInv

-----------------------------------------------------------------------------
(* Lists without repetitions.                                              *)

\* Appending adds one element, and repeats nothing if it is new.
LEMMA Appended ==
    ASSUME NEW S, NEW list \in Seq(S), NEW c \in S
    PROVE  /\ Append(list, c) \in Seq(S)
           /\ Len(Append(list, c)) = Len(list) + 1
           /\ \A i \in 1 .. Len(list) : Append(list, c)[i] = list[i]
           /\ Append(list, c)[Len(list) + 1] = c
           /\ Elements(Append(list, c)) = Elements(list) \cup {c}
           /\ Injective(list) /\ c \notin Elements(list) => Injective(Append(list, c))
  <1>1. /\ Append(list, c) \in Seq(S)
        /\ Len(Append(list, c)) = Len(list) + 1
        /\ \A i \in 1 .. Len(list) : Append(list, c)[i] = list[i]
        /\ Append(list, c)[Len(list) + 1] = c
    OBVIOUS
  <1>2. Elements(Append(list, c)) = Elements(list) \cup {c}
    BY <1>1 DEF Elements
  <1>3. Injective(list) /\ c \notin Elements(list) => Injective(Append(list, c))
    BY <1>1 DEF Elements, Injective
  <1>4. QED
    BY <1>1, <1>2, <1>3

\* What CleanupClosedConnections makes of a list when it erases the k-th element.
Erased(list, k) == SubSeq(list, 1, k - 1) \o SubSeq(list, k + 1, Len(list))

\* Erasing takes one element away and moves those behind it forward.
LEMMA ErasedElements ==
    ASSUME NEW S, NEW list \in Seq(S), NEW k \in 1 .. Len(list), Injective(list)
    PROVE  /\ Erased(list, k) \in Seq(S)
           /\ Len(Erased(list, k)) = Len(list) - 1
           /\ Elements(Erased(list, k)) = Elements(list) \ {list[k]}
           /\ Injective(Erased(list, k))
  <1> DEFINE front == SubSeq(list, 1, k - 1)
             back == SubSeq(list, k + 1, Len(list))
             short == Erased(list, k)
  <1>1. front \in Seq(S) /\ Len(front) = k - 1 /\ \A i \in 1 .. k - 1 : front[i] = list[i]
    OBVIOUS
  <1>2. /\ back \in Seq(S) /\ Len(back) = Len(list) - k
        /\ \A i \in 1 .. Len(list) - k : back[i] = list[i + k]
    OBVIOUS
  <1>3. /\ short \in Seq(S) /\ Len(short) = Len(list) - 1
        /\ \A i \in 1 .. Len(list) - 1 : short[i] = IF i < k THEN list[i] ELSE list[i + 1]
    <2> HIDE DEF front, back
    <2>1. short = front \o back
      BY DEF Erased, front, back
    <2> HIDE DEF short
    <2>a. /\ short \in Seq(S) /\ Len(short) = Len(front) + Len(back)
          /\ \A i \in 1 .. Len(front) + Len(back) :
                short[i] = IF i <= Len(front) THEN front[i] ELSE back[i - Len(front)]
      BY <1>1, <1>2, <2>1, ConcatProperties
    <2>b. Len(front) + Len(back) = Len(list) - 1 /\ Len(list) \in Nat
      BY <1>1, <1>2
    <2>2. /\ short \in Seq(S) /\ Len(short) = Len(list) - 1
          /\ \A i \in 1 .. Len(list) - 1 :
                short[i] = IF i <= k - 1 THEN front[i] ELSE back[i - (k - 1)]
      BY <1>1, <2>a, <2>b
    <2>3. ASSUME NEW i \in 1 .. Len(list) - 1
          PROVE  short[i] = IF i < k THEN list[i] ELSE list[i + 1]
      <3>1. CASE i < k
        <4>1. i \in 1 .. k - 1
          BY <3>1
        <4>2. QED
          BY <1>1, <2>2, <3>1, <4>1
      <3>2. CASE i >= k
        <4>1. i - (k - 1) \in 1 .. Len(list) - k /\ i - (k - 1) + k = i + 1
          BY <3>2
        <4>2. short[i] = back[i - (k - 1)] /\ back[i - (k - 1)] = list[i - (k - 1) + k]
          BY <1>2, <2>2, <3>2, <4>1
        <4>3. QED
          BY <3>2, <4>1, <4>2
      <3>3. QED
        BY <3>1, <3>2
    <2>4. QED
      BY <2>2, <2>3
  <1> HIDE DEF short, front, back
  <1>4. Injective(short)
    BY <1>3 DEF Injective
  <1>5. ASSUME NEW c \in Elements(list), c # list[k] PROVE c \in Elements(short)
    <2>1. PICK i \in 1 .. Len(list) : c = list[i]
      BY DEF Elements
    <2>2. CASE i < k
      BY <1>3, <2>1, <2>2 DEF Elements
    <2>3. CASE i > k
      <3>1. i - 1 \in 1 .. Len(list) - 1 /\ short[i - 1] = list[i]
        BY <1>3, <2>3
      <3>2. QED
        BY <1>3, <2>1, <3>1 DEF Elements
    <2>4. QED
      BY <1>5, <2>1, <2>2, <2>3
  <1>6. ASSUME NEW c \in Elements(short) PROVE c \in Elements(list) /\ c # list[k]
    <2>1. PICK i \in 1 .. Len(list) - 1 : c = short[i]
      BY <1>3 DEF Elements
    <2>2. PICK j \in 1 .. Len(list) : j # k /\ c = list[j]
      <3>1. CASE i < k
        BY <1>3, <2>1, <3>1
      <3>2. CASE i >= k
        BY <1>3, <2>1, <3>2
      <3>3. QED
        BY <3>1, <3>2
    <2>3. QED
      BY <2>2 DEF Elements, Injective
  <1>7. QED
    BY <1>3, <1>4, <1>5, <1>6 DEF short

\* A list without repetitions is as long as the set of its elements.
LEMMA InjectiveLength ==
    ASSUME NEW n \in Nat, NEW list \in Seq(1 .. n), Injective(list)
    PROVE  Cardinality(Elements(list)) = Len(list) /\ Len(list) <= n
  <1> DEFINE k == Len(list)
             f == [i \in 1 .. k |-> list[i]]
  <1>1. IsFiniteSet(1 .. k) /\ Cardinality(1 .. k) = k
    <2>1. k \in Nat
      OBVIOUS
    <2> HIDE DEF k
    <2>2. IsFiniteSet(1 .. k) /\ Cardinality(1 .. k) = IF 1 > k THEN 0 ELSE k - 1 + 1
      BY <2>1, FS_Interval
    <2>3. QED
      BY <2>1, <2>2
  <1>2. IsFiniteSet(1 .. n) /\ Cardinality(1 .. n) = n
    BY FS_Interval
  <1>3. Elements(list) \subseteq 1 .. n
    BY DEF Elements
  <1>4. f \in Bijection(1 .. k, Elements(list))
    <2>1. f \in [1 .. k -> Elements(list)]
      BY DEF Elements
    <2>2. \A c \in Elements(list) : \E i \in 1 .. k : f[i] = c
      BY DEF Elements
    <2>3. \A i, j \in 1 .. k : f[i] = f[j] => i = j
      BY DEF Injective
    <2>4. QED
      BY <2>1, <2>2, <2>3 DEF Bijection, Injection, Surjection, IsInjective
  <1>5. Cardinality(Elements(list)) = k
    BY <1>1, <1>4, FS_Bijection DEF ExistsBijection
  <1>6. QED
    BY <1>2, <1>3, <1>5, FS_Subset

-----------------------------------------------------------------------------
(* The invariant is inductive, part by part.                               *)

\* The two lists fit the connections there are.
LEMMA ListsFit ==
    ASSUME Types, ListInv
    PROVE  /\ Len(awaiting) \in 0 .. MaxConns + 1 /\ Len(made) \in 0 .. MaxConns + 1
           /\ Cardinality(Elements(made)) = Len(made)
  <1>1. MaxConns + 1 \in Nat
    BY BoundAssumption
  <1>2. /\ Len(awaiting) <= MaxConns + 1 /\ Len(made) <= MaxConns + 1
        /\ Cardinality(Elements(made)) = Len(made)
    BY <1>1, InjectiveLength DEF Types, ListInv, Conns
  <1>3. Len(awaiting) \in Nat /\ Len(made) \in Nat
    BY DEF Types
  <1>4. QED
    BY <1>1, <1>2, <1>3

\* A handler works on a connection that was made.
LEMMA HandledExists ==
    ASSUME Types, AcceptInv, PlaceInv, NEW t \in Threads, at[t] \in Handling \ {"accept_again"}
    PROVE  on[t] \in Conns
  <1>1. CASE at[t] \in Reading
    <2>1. on[t] \in Elements(made) /\ made \in Seq(Conns)
      BY <1>1 DEF Types, PlaceInv
    <2>2. QED
      BY <2>1 DEF Elements
  <1>2. CASE at[t] \in Accepting
    <2>1. on[t] = created /\ created <= MaxConns /\ created >= 1
      BY <1>2 DEF AcceptInv, Reading, Handling, Accepting
    <2>2. QED
      BY <2>1, BoundAssumption DEF Types, Conns
  <1>3. QED
    BY <1>1, <1>2 DEF Handling

\* What a thread that goes somewhere does to `at'.
LEMMA Going ==
    ASSUME Types, NEW t \in Threads, NEW from, NEW to \in Locations, Goto(t, from, to)
    PROVE  /\ at[t] = from /\ at' \in [Threads -> Locations] /\ at'[t] = to
           /\ \A u \in Threads \ {t} : at'[u] = at[u]
  BY DEF Types, Goto

\* A handler ends in a place that exists.
LEMMA DoneLocation == \A t : HandlerDone(t) \in Locations
  BY DEF HandlerDone, Locations

\* Every step keeps the types.
LEMMA NextTypes == Inv /\ [Next]_vars => Types'
  <1> SUFFICES ASSUME Inv, [Next]_vars
               PROVE  Types'
    OBVIOUS
  <1> USE BoundAssumption, DoneLocation DEF Types, Conns, threadVars, mainVars, serviceVars,
          acceptVars, readVars, listVars
  <1>a. Types /\ AcceptInv /\ PlaceInv /\ ListInv
    BY DEF Inv
  <1>1. CASE MainStep
    <2> USE DEF MainGoto
    <2>1. CASE BeginService
      BY <1>a, <2>1 DEF BeginService, Locations
    <2>2. CASE SpawnThreads
      <3>1. at' \in [Threads -> Locations]
        BY <1>a, <2>2 DEF SpawnThreads, Locations
      <3>2. QED
        BY <1>a, <2>2, <3>1 DEF SpawnThreads
    <2>3. CASE LoseSignals \/ Destroy
      BY <1>a, <2>3 DEF LoseSignals, Destroy
    <2>4. CASE PrepareStop \/ StopWork
      <3>1. nap' \in [service : 0 .. 1, main : 0 .. 5]
        BY <1>a, <2>4 DEF PrepareStop, StopWork
      <3>2. isThreadRunning' \in BOOLEAN
        BY <1>a, <2>4 DEF PrepareStop, StopWork
      <3>3. QED
        BY <1>a, <2>4, <3>1, <3>2 DEF PrepareStop, StopWork
    <2>5. QED
      BY <1>1, <2>1, <2>2, <2>3, <2>4 DEF MainStep
  <1>2. CASE Peers
    <2>1. CASE Connect
      BY <1>a, <2>1 DEF Connect
    <2>2. ASSUME NEW c \in Conns, Send(c)
          PROVE  Types'
      <3>1. messages' \in [Conns -> 0 .. MaxMessages]
        BY <1>a, <2>2 DEF Send
      <3>2. read' \in [Conns -> {"none", "pending", "data", "error"}]
        BY <1>a, <2>2 DEF Send
      <3>3. QED
        BY <1>a, <2>2, <3>1, <3>2 DEF Send
    <2>3. ASSUME NEW c \in Conns, Hangup(c)
          PROVE  Types'
      BY <1>a, <2>3 DEF Hangup
    <2>4. QED
      BY <1>2, <2>1, <2>2, <2>3 DEF Peers
  <1>3. CASE ThreadRun
    <2> USE DEF ServiceStep, Goto, Threads, Locations
    <2>1. CASE CheckRunning \/ WakeUp \/ CleanupDone \/ CheckReschedule \/ RescheduleDone
      BY <1>a, <2>1 DEF CheckRunning, WakeUp, CleanupDone, CheckReschedule, RescheduleDone
    <2>2. CASE CleanupClosedConnections
      <3>1. pos \in 1 .. Len(made) /\ Len(made) \in 0 .. MaxConns + 1
        BY <1>a, <2>2, ListsFit DEF CleanupClosedConnections
      <3>2. Erased(made, pos) \in Seq(Conns)
        BY <1>a, <3>1, ErasedElements DEF ListInv
      <3>3. pos' \in 1 .. MaxConns + 2
        <4>1. pos' = pos \/ pos' = pos + 1
          BY <2>2 DEF CleanupClosedConnections
        <4>2. QED
          BY <3>1, <4>1
      <3>4. made' \in Seq(Conns)
        <4>1. made' = Erased(made, pos) \/ made' = made
          BY <2>2 DEF CleanupClosedConnections, Erased
        <4>2. QED
          BY <1>a, <3>2, <4>1
      <3>5. QED
        BY <1>a, <2>2, <3>3, <3>4 DEF CleanupClosedConnections
    <2>3. CASE StartConnection
      <3>1. pos \in 1 .. Len(awaiting) /\ Len(awaiting) \in 0 .. MaxConns + 1
        BY <1>a, <2>3, ListsFit DEF StartConnection
      <3>2. awaiting[pos] \in Conns
        BY <1>a, <3>1
      <3>3. read' \in [Conns -> {"none", "pending", "data", "error"}] /\ pos' \in 1 .. MaxConns + 2
        BY <1>a, <2>3, <3>1, <3>2 DEF StartConnection
      <3>4. QED
        BY <1>a, <2>3, <3>3 DEF StartConnection
    <2>4. CASE ClearAwaiting
      BY <1>a, <2>4 DEF ClearAwaiting
    <2>5. QED
      BY <1>3, <2>1, <2>2, <2>3, <2>4 DEF ThreadRun
  <1>4. CASE Tick
    BY <1>a, <1>4 DEF Tick
  <1>5. ASSUME NEW t \in Threads, Dispatch(t) \/ LeaveRun(t)
        PROVE  Types'
    <2>1. CASE CallStop(t)
      BY <1>a, <2>1 DEF CallStop
    <2>2. CASE CallAcceptHandler(t)
      BY <1>a, <2>2, Going DEF CallAcceptHandler, Locations
    <2>3. ASSUME NEW c \in Conns, CallReadHandler(t, c)
          PROVE  Types'
      <3>1. at' \in [Threads -> Locations]
        BY <1>a, <2>3, Going DEF CallReadHandler, Locations
      <3>2. on' \in [Threads -> 0 .. MaxConns + 1]
        BY <1>a, <2>3 DEF CallReadHandler
      <3>3. read' \in [Conns -> {"none", "pending", "data", "error"}]
        BY <1>a, <2>3 DEF CallReadHandler
      <3>4. closed' \in [Conns -> BOOLEAN]
        <4>1. closed' = closed \/ closed' = [closed EXCEPT ![c] = TRUE]
          BY <2>3 DEF CallReadHandler
        <4>2. QED
          BY <1>a, <4>1
      <3>5. QED
        BY <1>a, <2>3, <3>1, <3>2, <3>3, <3>4 DEF CallReadHandler
    <2>4. CASE LeaveRun(t)
      <3>1. at' \in [Threads -> Locations]
        BY <1>a, <2>4, Going DEF LeaveRun, Locations
      <3>2. nap' \in [service : 0 .. 1, main : 0 .. 5]
        BY <1>a, <2>4 DEF LeaveRun
      <3>3. QED
        BY <1>a, <2>4, <3>1, <3>2 DEF LeaveRun
    <2>5. QED
      BY <1>5, <2>1, <2>2, <2>3, <2>4 DEF Dispatch
  <1>6. ASSUME NEW t \in Threads, HandlerStep(t)
        PROVE  Types'
    <2>1. CASE RescheduleMe(t)
      <3>1. at' \in [Threads -> Locations] /\ at[t] \in Handling \ {"accept_again"}
        <4>1. CASE Goto(t, "accepted", "accepted_made")
          BY <1>a, <4>1, Going DEF Locations, Handling, Accepting, Reading
        <4>2. CASE Goto(t, "received", HandlerDone(t))
          BY <1>a, <4>2, Going DEF Handling, Accepting, Reading
        <4>3. QED
          BY <2>1, <4>1, <4>2 DEF RescheduleMe
      <3>2. on[t] \in Conns
        BY <1>a, <3>1, HandledExists
      <3>3. on' \in [Threads -> 0 .. MaxConns + 1]
        <4>1. on' = on \/ on' = [on EXCEPT ![t] = 0]
          BY <2>1 DEF RescheduleMe
        <4>2. on \in [Threads -> 0 .. MaxConns + 1] /\ 0 \in 0 .. MaxConns + 1
          BY <1>a
        <4>3. QED
          BY <4>1, <4>2
      <3>4. awaiting' \in Seq(Conns)
        BY <1>a, <2>1, <3>2 DEF RescheduleMe
      <3>5. QED
        BY <1>a, <2>1, <3>1, <3>3, <3>4 DEF RescheduleMe
    <2>2. CASE KeepConnection(t)
      <3>1. at' \in [Threads -> Locations] /\ at[t] \in Handling \ {"accept_again"}
        BY <1>a, <2>2, Going DEF KeepConnection, Locations, Handling, Accepting, Reading
      <3>2. made' \in Seq(Conns)
        BY <1>a, <2>2, <3>1, HandledExists DEF KeepConnection
      <3>3. QED
        BY <1>a, <2>2, <3>1, <3>2 DEF KeepConnection
    <2>3. CASE BeginAcceptingNewConnections(t)
      <3>1. at' \in [Threads -> Locations] /\ at[t] \in Accepting
        BY <1>a, <2>3, Going DEF BeginAcceptingNewConnections, Accepting
      <3>2. created + 1 \in 0 .. MaxConns + 1
        BY <1>a, <3>1 DEF AcceptInv
      <3>3. on' \in [Threads -> 0 .. MaxConns + 1]
        BY <1>a, <2>3 DEF BeginAcceptingNewConnections
      <3>4. QED
        BY <1>a, <2>3, <3>1, <3>2, <3>3 DEF BeginAcceptingNewConnections
    <2>4. CASE CloseSocket(t) \/ RemoveConnection(t)
      <3>1. CASE CloseSocket(t)
        BY <1>a, <3>1, Going DEF CloseSocket, Locations
      <3>2. CASE RemoveConnection(t)
        <4>1. at' \in [Threads -> Locations]
          BY <1>a, <3>2, Going DEF RemoveConnection
        <4>2. on' \in [Threads -> 0 .. MaxConns + 1]
          BY <1>a, <3>2 DEF RemoveConnection
        <4>3. QED
          BY <1>a, <3>2, <4>1, <4>2 DEF RemoveConnection
      <3>3. QED
        BY <2>4, <3>1, <3>2
    <2>5. QED
      BY <1>6, <2>1, <2>2, <2>3, <2>4 DEF HandlerStep
  <1>7. CASE UNCHANGED vars
    BY <1>a, <1>7 DEF vars
  <1>8. QED
    BY <1>1, <1>2, <1>3, <1>4, <1>5, <1>6, <1>7 DEF Next, Step

\* A thread that goes on in its own program keeps the threads' roles.
LEMMA GoingLife ==
    ASSUME Types, LifeInv, NEW t \in Threads, NEW from, NEW to \in Locations, Goto(t, from, to),
           from # "off", to # "off", UNCHANGED <<main, stopHandler, stopped>>,
           \A u \in Threads \ {t} : on'[u] = on[u],
           to \in Handling \/ on'[t] = 0,
           t = "starter" => to \in {"accept_again", "exited"},
           t \in Workers => to \in {"run", "exited"} \cup Handling
    PROVE  LifeInv'
  <1>1. /\ at[t] = from /\ at'[t] = to
        /\ \A u \in Threads \ {t} : at'[u] = at[u]
    BY Going
  <1>2. /\ "starter" \in Threads /\ Workers \subseteq Threads /\ "off" \notin Handling
        /\ "starter" \notin Workers
    BY WorkerAssumption DEF Threads, Handling, Accepting, Reading
  <1>3. /\ at'["starter"] \in {"off", "accept_again", "exited"}
        /\ main = "begin" <=> at'["starter"] = "off"
    BY <1>1, <1>2 DEF LifeInv
  <1>4. \A u \in Threads \ {"starter"} : main \in {"begin", "spawn"} <=> at'[u] = "off"
    BY <1>1, <1>2 DEF LifeInv
  <1>5. \A w \in Workers : at'[w] \in {"off", "run", "exited"} \cup Handling
    BY <1>1, <1>2 DEF LifeInv
  <1>6. \A u \in Threads : at'[u] \notin Handling => on'[u] = 0
    BY <1>1, <1>2 DEF LifeInv
  <1>7. QED
    BY <1>3, <1>4, <1>5, <1>6 DEF LifeInv

\* The starter only accepts: it is never inside run().
LEMMA NotTheStarter ==
    ASSUME LifeInv, NEW t \in Threads, at[t] \notin {"off", "accept_again", "exited"}
    PROVE  t # "starter"
  BY DEF LifeInv

\* A handler ends in run() or at the end of the starter's function.
LEMMA DoneLife ==
    ASSUME NEW t
    PROVE  /\ HandlerDone(t) \in {"run", "exited"}
           /\ t = "starter" => HandlerDone(t) = "exited"
  BY DEF HandlerDone

\* Every step keeps the threads' roles.
LEMMA NextLife == Inv /\ [Next]_vars => LifeInv'
  <1> SUFFICES ASSUME Inv, [Next]_vars
               PROVE  LifeInv'
    OBVIOUS
  <1> USE DEF threadVars, mainVars, serviceVars
  <1>a. Types /\ LifeInv
    BY DEF Inv
  <1>b. /\ "starter" \in Threads /\ "service" \in Threads /\ Workers \subseteq Threads
        /\ "starter" \notin Workers /\ "service" \notin Workers
        /\ {"off", "run", "exited", "check", "sleep", "cleanup", "resched_check", "resched", "clear"}
              \cap Handling = {}
    BY WorkerAssumption DEF Threads, Handling, Accepting, Reading
  <1>1. CASE MainStep
    <2> USE DEF MainGoto
    <2>1. CASE BeginService
      <3>1. /\ at'["starter"] = "accept_again" /\ \A u \in Threads \ {"starter"} : at'[u] = at[u]
        BY <1>a, <1>b, <2>1 DEF BeginService, Types
      <3>2. "accept_again" \in Handling
        BY DEF Handling, Accepting
      <3>3. QED
        BY <1>a, <1>b, <2>1, <3>1, <3>2 DEF BeginService, LifeInv
    <2>2. CASE SpawnThreads
      <3>1. /\ at'["starter"] = at["starter"] /\ at'["service"] = "check"
            /\ \A w \in Workers : at'[w] = "run"
        BY <1>b, <2>2 DEF SpawnThreads
      <3>2. \A t \in Threads \ {"starter"} : t \in Workers \/ t = "service"
        BY DEF Threads
      <3>3. \A t \in Threads : at'[t] \notin Handling => on'[t] = 0
        BY <1>a, <1>b, <2>2, <3>1, <3>2 DEF SpawnThreads, LifeInv
      <3>4. QED
        BY <1>a, <1>b, <2>2, <3>1, <3>2, <3>3 DEF SpawnThreads, LifeInv
    <2>3. CASE LoseSignals \/ PrepareStop \/ StopWork \/ Destroy
      BY <1>a, <2>3 DEF LoseSignals, PrepareStop, StopWork, Destroy, LifeInv
    <2>4. QED
      BY <1>1, <2>1, <2>2, <2>3 DEF MainStep
  <1>2. CASE Peers \/ Tick
    BY <1>a, <1>2 DEF Peers, Connect, Send, Hangup, Tick, LifeInv
  <1>3. CASE ThreadRun
    <2>1. PICK from \in {"check", "sleep", "cleanup", "resched_check", "resched", "clear"},
               to \in {"run", "exited", "check", "cleanup", "resched_check", "resched", "clear"} :
             ServiceStep(from, to)
      BY <1>3 DEF ThreadRun, CheckRunning, WakeUp, CleanupClosedConnections, CleanupDone, CheckReschedule,
                  StartConnection, RescheduleDone, ClearAwaiting
    <2>2. at["service"] = from /\ on' = on
      BY <2>1 DEF ServiceStep, Goto
    <2>3. on'["service"] = 0
      BY <1>a, <1>b, <2>2 DEF LifeInv
    <2>4. QED
      BY <1>a, <1>b, <2>1, <2>2, <2>3, GoingLife DEF ServiceStep, Locations
  <1>4. ASSUME NEW t \in Threads, Dispatch(t) \/ LeaveRun(t)
        PROVE  LifeInv'
    <2>1. at[t] = "run" /\ t # "starter" /\ on[t] = 0
      BY <1>a, <1>b, <1>4 DEF Dispatch, LeaveRun, Goto, LifeInv
    <2>2. CASE CallStop(t)
      BY <1>a, <2>2 DEF CallStop, LifeInv
    <2>3. CASE CallAcceptHandler(t)
      <3>1. \E to \in {"accepted", "accept_again"} : Goto(t, "run", to)
        BY <2>3 DEF CallAcceptHandler
      <3>2. QED
        BY <1>a, <2>1, <2>3, <3>1, GoingLife
           DEF CallAcceptHandler, Types, Locations, Handling, Accepting
    <2>4. ASSUME NEW c \in Conns, CallReadHandler(t, c)
          PROVE  LifeInv'
      <3>1. \E to \in {"received", "failed"} : Goto(t, "run", to)
        BY <2>4 DEF CallReadHandler
      <3>2. QED
        BY <1>a, <2>1, <2>4, <3>1, GoingLife DEF CallReadHandler, Types, Locations, Handling, Reading
    <2>5. CASE LeaveRun(t)
      <3>1. /\ t = "service" => Goto(t, "run", "sleep")
            /\ t # "service" => Goto(t, "run", "exited")
            /\ UNCHANGED <<on, main, stopHandler, stopped>>
        BY <2>5 DEF LeaveRun
      <3>2. QED
        BY <1>a, <1>b, <2>1, <3>1, GoingLife DEF Locations
    <2>6. QED
      BY <1>4, <2>2, <2>3, <2>4, <2>5 DEF Dispatch
  <1>5. ASSUME NEW t \in Threads, HandlerStep(t)
        PROVE  LifeInv'
    <2>1. CASE Goto(t, "accepted", "accepted_made") \/ Goto(t, "accepted_made", "accept_again")
                 \/ Goto(t, "failed", "closing")
      <3>1. t # "starter"
        BY <1>a, <2>1, NotTheStarter DEF Goto
      <3>2. UNCHANGED <<main, stopHandler, stopped, on>>
        BY <1>5, <2>1 DEF HandlerStep, RescheduleMe, KeepConnection, BeginAcceptingNewConnections,
                          CloseSocket, RemoveConnection, Goto
      <3>3. QED
        BY <1>a, <2>1, <3>1, <3>2, GoingLife DEF Locations, Handling, Accepting, Reading
    <2>2. CASE /\ \E from \in {"received", "accept_again", "closing"} : Goto(t, from, HandlerDone(t))
               /\ on' = [on EXCEPT ![t] = 0]
               /\ UNCHANGED <<main, stopHandler, stopped>>
      <3>1. on'[t] = 0 /\ \A u \in Threads \ {t} : on'[u] = on[u]
        BY <1>a, <2>2 DEF Types
      <3>2. HandlerDone(t) \in Locations /\ HandlerDone(t) # "off"
        BY DoneLife, DoneLocation
      <3>3. QED
        BY <1>a, <2>2, <3>1, <3>2, DoneLife, GoingLife
    <2>3. QED
      BY <1>5, <2>1, <2>2 DEF HandlerStep, RescheduleMe, KeepConnection,
                              BeginAcceptingNewConnections, CloseSocket, RemoveConnection
  <1>6. CASE UNCHANGED vars
    BY <1>a, <1>6 DEF vars, LifeInv
  <1>7. QED
    BY <1>1, <1>2, <1>3, <1>4, <1>5, <1>6 DEF Next, Step

\* A thread that has ended does nothing more.
LEMMA NoStepAfterExit ==
    ASSUME NEW t \in Threads, Step(t)
    PROVE  at[t] # "exited"
  BY DEF Step, Dispatch, LeaveRun, HandlerStep, RescheduleMe, KeepConnection,
         BeginAcceptingNewConnections, CloseSocket, RemoveConnection, Goto

\* What a thread does of its own changes no other thread's place.
LEMMA OthersStay ==
    ASSUME Types, NEW t \in Threads, Step(t)
    PROVE  \A u \in Threads \ {t} : at'[u] = at[u]
  BY DEF Types, Step, Dispatch, LeaveRun, HandlerStep, RescheduleMe, KeepConnection, CallStop, CallAcceptHandler,
         CallReadHandler, BeginAcceptingNewConnections, CloseSocket, RemoveConnection, Goto, threadVars

\* What the service thread does outside run() changes no other thread's place.
LEMMA ThreadRunStep ==
    ASSUME Types, ThreadRun
    PROVE  /\ at["service"] \in {"check", "sleep", "cleanup", "resched_check", "resched", "clear"}
           /\ \A u \in Threads \ {"service"} : at'[u] = at[u]
           /\ UNCHANGED <<on, mainVars, serviceVars, acceptVars>>
  <1>1. PICK from \in {"check", "sleep", "cleanup", "resched_check", "resched", "clear"}, to \in Locations :
           ServiceStep(from, to)
    BY DEF ThreadRun, CheckRunning, WakeUp, CleanupClosedConnections, CleanupDone, CheckReschedule,
           StartConnection, RescheduleDone, ClearAwaiting, Locations
  <1>2. QED
    BY <1>1 DEF ServiceStep, Goto, Types

\* Once the service thread is alone it stays so.
LEMMA AloneStays == Inv /\ [Next]_vars /\ Alone => Alone'
  <1> SUFFICES ASSUME Inv, [Next]_vars, Alone
               PROVE  Alone'
    OBVIOUS
  <1>a. Types /\ LifeInv
    BY DEF Inv
  <1>b. "starter" \in Threads \ {"service"} /\ Workers \subseteq Threads \ {"starter", "service"}
    BY WorkerAssumption DEF Threads
  <1>1. CASE MainStep
    <2>1. main # "begin"
      BY <1>a, <1>b DEF Alone, LifeInv
    <2>2. CASE SpawnThreads
      <3>1. main = "spawn" /\ at' = [t \in Threads |-> CASE t \in Workers -> "run"
                                                        [] t = "service" -> "check"
                                                        [] OTHER -> at[t]]
        BY <2>2 DEF SpawnThreads, MainGoto
      <3>2. Workers = {}
        BY <1>a, <1>b, <3>1 DEF Alone, LifeInv
      <3>3. QED
        BY <3>1, <3>2 DEF Alone
    <2>3. CASE LoseSignals \/ PrepareStop \/ StopWork \/ Destroy
      BY <2>3 DEF LoseSignals, PrepareStop, StopWork, Destroy, threadVars, Alone
    <2>4. QED
      BY <1>1, <2>1, <2>2, <2>3 DEF MainStep, BeginService, MainGoto
  <1>2. CASE Peers \/ Tick \/ UNCHANGED vars
    BY <1>2 DEF Peers, Connect, Send, Hangup, Tick, vars, threadVars, Alone
  <1>3. CASE ThreadRun
    BY <1>a, <1>3, ThreadRunStep DEF Alone
  <1>4. ASSUME NEW t \in Threads, Step(t)
        PROVE  Alone'
    BY <1>a, <1>4, NoStepAfterExit, OthersStay DEF Alone
  <1>5. QED
    BY <1>1, <1>2, <1>3, <1>4 DEF Next

\* When prompt threads let the service thread's sleep end, the others have ended.
LEMMA NapEndsAlone ==
    ASSUME Types, LifeInv, AloneInv, Quiet, at["service"] = "sleep"
    PROVE  Alone
  <1>1. stopped
    BY DEF AloneInv
  <1>2. main \notin {"begin", "spawn"}
    BY DEF Quiet
  <1>3. ASSUME NEW t \in Threads \ {"service"}
        PROVE  at[t] = "exited"
    <2>1. at[t] \in {"off", "exited", "sleep"}
      BY <1>1 DEF Quiet, Waits
    <2>2. at[t] # "off"
      BY <1>2 DEF LifeInv
    <2>3. at[t] # "sleep"
      BY DEF LifeInv, Threads, Handling, Accepting, Reading
    <2>4. QED
      BY <2>1, <2>2, <2>3
  <1>4. QED
    BY <1>3 DEF Alone

\* The thread that read, and the read itself, are the lone service thread's.
LEMMA ReaderIsAlone ==
    ASSUME LifeInv, AloneInv, NEW t \in Threads
    PROVE  /\ at[t] \in Reading => t = "service" /\ Alone
           /\ \A c \in Conns : read[c] # "none" \/ closed[c] => Alone
  BY DEF AloneInv, Alone, Reading

\* The service thread looks at the lists alone.
LEMMA ListsAreLonely ==
    ASSUME AloneInv, at["service"] \in {"cleanup", "resched_check", "resched", "clear"}
    PROVE  Alone
  BY DEF AloneInv

\* Prompt threads keep the service thread alone while it looks at the lists.
LEMMA NextAlone ==
    ASSUME Prompt, Inv, [Next]_vars
    PROVE  AloneInv'
  <1> DEFINE AtLists == at["service"] \in {"cleanup", "resched_check", "resched", "clear"}
             Napped == at["service"] = "sleep" /\ nap.service = 0
             NoReads == /\ \A c \in Conns : read[c] = "none" /\ ~closed[c]
                        /\ \A t \in Threads : at[t] \notin Reading
             Unread == UNCHANGED <<read, closed>>
  <1> USE DEF threadVars, mainVars, serviceVars, acceptVars, readVars, listVars
  <1>a. Types /\ LifeInv /\ AloneInv
    BY DEF Inv
  <1>b. "service" \in Threads
    BY DEF Threads
  <1>1. ASSUME AtLists' \/ at'["service"] = "sleep" PROVE stopped'
    <2>1. CASE MainStep
      BY <1>1, <1>a, <1>b, <2>1
         DEF MainStep, BeginService, SpawnThreads, LoseSignals, PrepareStop, StopWork, Destroy, AloneInv, Types
    <2>2. CASE Peers \/ Tick \/ UNCHANGED vars
      BY <1>1, <1>a, <2>2 DEF Peers, Connect, Send, Hangup, Tick, vars, AloneInv
    <2>3. CASE ThreadRun
      BY <1>1, <1>a, <1>b, <2>3
         DEF ThreadRun, CheckRunning, WakeUp, CleanupClosedConnections, CleanupDone, CheckReschedule,
             StartConnection, RescheduleDone, ClearAwaiting, ServiceStep, Goto, AloneInv, Types
    <2>4. ASSUME NEW t \in Threads, Dispatch(t) \/ LeaveRun(t)
          PROVE  stopped'
      BY <1>1, <1>a, <1>b, <2>4
         DEF Dispatch, CallStop, CallAcceptHandler, CallReadHandler, LeaveRun, Goto, AloneInv, Types
    <2>5. ASSUME NEW t \in Threads, HandlerStep(t)
          PROVE  stopped'
      BY <1>1, <1>a, <1>b, <2>5
         DEF HandlerStep, RescheduleMe, KeepConnection, BeginAcceptingNewConnections,
             CloseSocket, RemoveConnection, HandlerDone, Goto, AloneInv, Types
    <2>6. QED
      BY <2>1, <2>2, <2>3, <2>4, <2>5 DEF Next, Step
  <1>2. ASSUME AtLists' \/ Napped' PROVE Alone'
    <2>1. CASE Alone
      BY <2>1, AloneStays
    <2>2. CASE ~AtLists /\ ~Napped
      <3>1. CASE MainStep
        BY <1>2, <1>a, <1>b, <2>2, <3>1
           DEF MainStep, BeginService, SpawnThreads, LoseSignals, PrepareStop, StopWork, Destroy, Types
      <3>2. CASE Tick
        <4>1. Quiet /\ at' = at
          BY <3>2 DEF Tick
        <4>2. at["service"] = "sleep"
          BY <1>2, <2>2, <4>1
        <4>3. QED
          BY <1>a, <4>1, <4>2, NapEndsAlone DEF Alone
      <3>3. CASE Peers \/ UNCHANGED vars
        BY <1>2, <2>2, <3>3 DEF Peers, Connect, Send, Hangup, vars
      <3>4. CASE ThreadRun
        BY <1>2, <1>a, <1>b, <2>2, <3>4
           DEF ThreadRun, CheckRunning, WakeUp, CleanupClosedConnections, CleanupDone, CheckReschedule,
               StartConnection, RescheduleDone, ClearAwaiting, ServiceStep, Goto, Types
      <3>5. ASSUME NEW t \in Threads, Dispatch(t) \/ LeaveRun(t)
            PROVE  Alone'
        BY <1>2, <1>a, <1>b, <2>2, <3>5
           DEF Dispatch, CallStop, CallAcceptHandler, CallReadHandler, LeaveRun, Goto, Types
      <3>6. ASSUME NEW t \in Threads, HandlerStep(t)
            PROVE  Alone'
        BY <1>2, <1>a, <1>b, <2>2, <3>6
           DEF HandlerStep, RescheduleMe, KeepConnection, BeginAcceptingNewConnections,
               CloseSocket, RemoveConnection, HandlerDone, Goto, Types
      <3>7. QED
        BY <3>1, <3>2, <3>3, <3>4, <3>5, <3>6 DEF Next, Step
    <2>3. QED
      BY <1>a, <2>1, <2>2 DEF AloneInv
  <1>3. ASSUME ~Alone' PROVE NoReads'
    <2>1. ~Alone /\ NoReads
      BY <1>3, <1>a, AloneStays DEF AloneInv
    <2>2. ~AtLists /\ ~Napped
      BY <1>a, <2>1 DEF AloneInv
    <2>3. CASE MainStep
      <3>1. Unread
        BY <2>3 DEF MainStep, BeginService, SpawnThreads, LoseSignals, PrepareStop, StopWork, Destroy
      <3>2. \A t \in Threads : at'[t] = at[t] \/ at'[t] \in {"accept_again", "run", "check"}
        BY <1>a, <2>3 DEF MainStep, BeginService, SpawnThreads, LoseSignals, PrepareStop, StopWork, Destroy, Types
      <3>3. QED
        BY <2>1, <3>1, <3>2 DEF Reading
    <2>4. CASE Peers \/ Tick \/ UNCHANGED vars
      BY <2>1, <2>4 DEF Peers, Connect, Send, Hangup, Tick, vars
    <2>5. CASE ThreadRun
      <3>1. Unread
        BY <2>2, <2>5
           DEF ThreadRun, CheckRunning, WakeUp, CleanupClosedConnections, CleanupDone, CheckReschedule,
               StartConnection, RescheduleDone, ClearAwaiting, ServiceStep, Goto
      <3>2. at'["service"] \notin Reading
        BY <1>a, <1>b, <2>5
           DEF ThreadRun, CheckRunning, WakeUp, CleanupClosedConnections, CleanupDone, CheckReschedule,
               StartConnection, RescheduleDone, ClearAwaiting, ServiceStep, Goto, Types, Reading
      <3>3. QED
        BY <1>a, <2>1, <2>5, <3>1, <3>2, ThreadRunStep
    <2>6. ASSUME NEW t \in Threads, Step(t)
          PROVE  NoReads'
      <3>1. Unread
        BY <2>1, <2>6
           DEF Step, Dispatch, CallStop, CallAcceptHandler, CallReadHandler, LeaveRun, HandlerStep, RescheduleMe,
               KeepConnection, BeginAcceptingNewConnections, CloseSocket, RemoveConnection
      <3>2. at'[t] \notin Reading
        BY <1>a, <2>1, <2>6
           DEF Step, Dispatch, CallStop, CallAcceptHandler, CallReadHandler, LeaveRun, HandlerStep, RescheduleMe,
               KeepConnection, BeginAcceptingNewConnections, CloseSocket, RemoveConnection, HandlerDone, Goto,
               Types, Reading
      <3>3. QED
        BY <1>a, <2>1, <2>6, <3>1, <3>2, OthersStay
    <2>7. QED
      BY <2>3, <2>4, <2>5, <2>6 DEF Next
  <1>4. QED
    BY <1>1, <1>2, <1>3 DEF AloneInv

\* A step that begins, ends and changes no accept keeps what is known of them.
LEMMA AcceptKept ==
    ASSUME AcceptInv, UNCHANGED <<created, accept>>, main' = "begin" => main = "begin",
           \A u \in Threads : at'[u] \in Accepting => at'[u] = at[u] /\ on'[u] = on[u]
    PROVE  AcceptInv'
  BY DEF AcceptInv

\* Every step keeps one accept, or one thread that is about to begin the next.
LEMMA NextAccept == Inv /\ [Next]_vars => AcceptInv'
  <1> SUFFICES ASSUME Inv, [Next]_vars
               PROVE  AcceptInv'
    OBVIOUS
  <1> USE DEF threadVars, mainVars, serviceVars, acceptVars, readVars, listVars
  <1>a. Types /\ LifeInv /\ AcceptInv
    BY DEF Inv
  <1>b. /\ "starter" \in Threads /\ "service" \in Threads /\ Workers \subseteq Threads
        /\ "starter" \notin Workers /\ Threads = Workers \cup {"starter", "service"}
    BY WorkerAssumption DEF Threads
  <1>c. created \in 0 .. MaxConns + 1 /\ MaxConns \in Nat /\ MaxConns >= 1
    BY <1>a, BoundAssumption DEF Types
  <1>1. CASE MainStep
    <2>1. CASE BeginService
      <3>1. /\ at'["starter"] = "accept_again" /\ \A u \in Threads \ {"starter"} : at'[u] = "off"
            /\ on' = on /\ main = "begin" /\ main' = "spawn" /\ UNCHANGED <<created, accept>>
        BY <1>a, <1>b, <2>1 DEF BeginService, MainGoto, LifeInv, Types
      <3>2. on["starter"] = 0
        BY <1>a, <1>b, <3>1 DEF LifeInv, Handling, Accepting, Reading
      <3>3. \A u \in Threads : at'[u] \in Accepting => u = "starter"
        BY <3>1 DEF Accepting
      <3>4. QED
        BY <1>a, <1>c, <3>1, <3>2, <3>3 DEF AcceptInv
    <2>2. CASE SpawnThreads
      <3>1. \A u \in Threads : at'[u] \in Accepting => at'[u] = at[u] /\ on'[u] = on[u]
        BY <1>b, <2>2 DEF SpawnThreads, Accepting
      <3>2. QED
        BY <1>a, <2>2, <3>1, AcceptKept DEF SpawnThreads, MainGoto
    <2>3. CASE LoseSignals \/ PrepareStop \/ StopWork \/ Destroy
      BY <1>a, <2>3, AcceptKept DEF LoseSignals, PrepareStop, StopWork, Destroy, MainGoto
    <2>4. QED
      BY <1>1, <2>1, <2>2, <2>3 DEF MainStep
  <1>2. CASE Connect
    BY <1>2, <1>a, <1>c DEF Connect, AcceptInv
  <1>3. CASE (\E c \in Conns : Send(c) \/ Hangup(c)) \/ Tick \/ UNCHANGED vars
    BY <1>3, <1>a, AcceptKept DEF Send, Hangup, Tick, vars
  <1>4. CASE ThreadRun
    <2>1. at'["service"] \notin Accepting
      BY <1>a, <1>b, <1>4
         DEF ThreadRun, CheckRunning, WakeUp, CleanupClosedConnections, CleanupDone, CheckReschedule,
             StartConnection, RescheduleDone, ClearAwaiting, ServiceStep, Goto, Types, Accepting
    <2>2. QED
      BY <1>a, <1>4, <2>1, ThreadRunStep, AcceptKept
  <1>5. ASSUME NEW t \in Threads, Dispatch(t) \/ LeaveRun(t)
        PROVE  AcceptInv'
    <2>1. at[t] = "run" /\ main # "begin"
      BY <1>a, <1>b, <1>5 DEF Dispatch, LeaveRun, Goto, LifeInv
    <2>2. \A u \in Threads \ {t} : at'[u] = at[u]
      BY <1>a, <1>5, OthersStay DEF Step
    <2>3. CASE CallStop(t)
      BY <1>a, <2>3, AcceptKept DEF CallStop
    <2>4. CASE CallAcceptHandler(t)
      <3>1. accept \in {"accepted", "refused"} /\ accept' = "none" /\ UNCHANGED <<created, main>>
        BY <2>4 DEF CallAcceptHandler
      <3>2. \A u \in Threads \ {t} : at'[u] \notin Accepting
        BY <1>a, <2>2, <3>1 DEF AcceptInv
      <3>3. on'[t] = created
        BY <1>a, <2>4 DEF CallAcceptHandler, Types
      <3>4. QED
        BY <1>a, <2>1, <3>1, <3>2, <3>3 DEF AcceptInv
    <2>5. ASSUME NEW c \in Conns, CallReadHandler(t, c)
          PROVE  AcceptInv'
      <3>1. at'[t] \notin Accepting /\ \A u \in Threads \ {t} : on'[u] = on[u]
        BY <1>a, <2>5 DEF CallReadHandler, Goto, Types, Accepting
      <3>2. QED
        BY <1>a, <2>2, <2>5, <3>1, AcceptKept DEF CallReadHandler
    <2>6. CASE LeaveRun(t)
      <3>1. at'[t] \notin Accepting
        BY <1>a, <2>6 DEF LeaveRun, Goto, Types, Accepting
      <3>2. QED
        BY <1>a, <2>2, <2>6, <3>1, AcceptKept DEF LeaveRun
    <2>7. QED
      BY <1>5, <2>3, <2>4, <2>5, <2>6 DEF Dispatch
  <1>6. ASSUME NEW t \in Threads, HandlerStep(t)
        PROVE  AcceptInv'
    <2>1. \A u \in Threads \ {t} : at'[u] = at[u]
      BY <1>a, <1>6, OthersStay DEF Step
    <2>2. main # "begin" /\ main' = main
      BY <1>a, <1>b, <1>6
         DEF HandlerStep, RescheduleMe, KeepConnection, BeginAcceptingNewConnections, CloseSocket,
             RemoveConnection, Goto, LifeInv
    <2>3. HandlerDone(t) \notin Accepting
      BY DEF HandlerDone, Accepting
    <2>4. CASE Goto(t, "accepted", "accepted_made") \/ Goto(t, "accepted_made", "accept_again")
      <3>1. UNCHANGED <<on, created, accept>>
        BY <1>6, <2>4
           DEF HandlerStep, RescheduleMe, KeepConnection, BeginAcceptingNewConnections, CloseSocket,
               RemoveConnection, Goto
      <3>2. at[t] \in {"accepted", "accepted_made"} /\ at'[t] \in {"accepted_made", "accept_again"}
        BY <1>a, <2>4 DEF Goto, Types
      <3>3. at[t] \in Accepting /\ \A u \in Threads : at'[u] \in Accepting => at[u] \in Accepting
        BY <2>1, <3>2 DEF Accepting
      <3>4. QED
        BY <1>a, <2>1, <2>2, <3>1, <3>2, <3>3 DEF AcceptInv
    <2>5. CASE BeginAcceptingNewConnections(t)
      <3>1. at[t] = "accept_again" /\ at'[t] = HandlerDone(t)
        BY <1>a, <2>5 DEF BeginAcceptingNewConnections, Goto, Types
      <3>2. \A u \in Threads : at'[u] \notin Accepting
        BY <1>a, <2>1, <2>3, <3>1 DEF AcceptInv, Accepting
      <3>3. created' = created + 1 /\ accept' = "pending"
        BY <2>5 DEF BeginAcceptingNewConnections
      <3>4. QED
        BY <1>c, <2>2, <3>2, <3>3 DEF AcceptInv
    <2>6. CASE Goto(t, "received", HandlerDone(t)) \/ CloseSocket(t) \/ RemoveConnection(t)
      <3>1. at'[t] \notin Accepting
        BY <1>a, <2>3, <2>6 DEF CloseSocket, RemoveConnection, Goto, Types, Accepting
      <3>2. UNCHANGED <<created, accept>> /\ \A u \in Threads \ {t} : on'[u] = on[u]
        BY <1>a, <1>6, <2>6
           DEF HandlerStep, RescheduleMe, KeepConnection, BeginAcceptingNewConnections, CloseSocket,
               RemoveConnection, Goto, Types
      <3>3. QED
        BY <1>a, <2>1, <2>2, <3>1, <3>2, AcceptKept
    <2>7. QED
      BY <1>6, <2>4, <2>5, <2>6 DEF HandlerStep, RescheduleMe, KeepConnection
  <1>7. QED
    BY <1>1, <1>2, <1>3, <1>4, <1>5, <1>6 DEF Next, Peers, Step

\* No step makes a connection new that was not.
LEMMA NewShrinks ==
    ASSUME Inv, [Next]_vars, NEW c \in Conns, New(c)'
    PROVE  New(c)
  <1> USE DEF threadVars, mainVars, serviceVars, acceptVars, readVars, listVars
  <1>a. Types /\ AcceptInv
    BY DEF Inv
  <1>b. created \in Nat /\ c \in Nat
    BY <1>a DEF Types, Conns
  <1>1. CASE created' = created + 1
    BY <1>1, <1>b DEF New
  <1>2. ASSUME created' = created, accept' # "none" => accept # "none",
               \A t \in Threads : at'[t] = "accepted" => at[t] = "accepted" \/ accept # "none"
        PROVE  New(c)
    BY <1>2, <1>b DEF New
  <1>3. CASE MainStep
    <2>1. UNCHANGED <<created, accept>>
      BY <1>3 DEF MainStep, BeginService, SpawnThreads, LoseSignals, PrepareStop, StopWork, Destroy
    <2>2. \A t \in Threads : at'[t] = "accepted" => at[t] = "accepted"
      BY <1>3, <1>a DEF MainStep, BeginService, SpawnThreads, LoseSignals, PrepareStop, StopWork, Destroy, Types
    <2>3. QED
      BY <1>2, <2>1, <2>2
  <1>4. CASE Peers \/ Tick \/ UNCHANGED vars
    BY <1>2, <1>4 DEF Peers, Connect, Send, Hangup, Tick, vars
  <1>5. CASE ThreadRun
    <2>1. at'["service"] # "accepted"
      BY <1>5, <1>a
         DEF ThreadRun, CheckRunning, WakeUp, CleanupClosedConnections, CleanupDone, CheckReschedule,
             StartConnection, RescheduleDone, ClearAwaiting, ServiceStep, Goto, Types, Threads
    <2>2. QED
      BY <1>a, <1>2, <1>5, <2>1, ThreadRunStep
  <1>6. ASSUME NEW t \in Threads, Step(t)
        PROVE  New(c)
    <2>1. \A u \in Threads \ {t} : at'[u] = at[u]
      BY <1>a, <1>6, OthersStay
    <2>2. CASE Dispatch(t) \/ LeaveRun(t)
      <3>1. created' = created /\ (accept' # "none" => accept # "none")
        BY <2>2 DEF Dispatch, CallStop, CallAcceptHandler, CallReadHandler, LeaveRun
      <3>2. at'[t] = "accepted" => at[t] = "accepted" \/ accept # "none"
        BY <1>a, <2>2 DEF Dispatch, CallStop, CallAcceptHandler, CallReadHandler, LeaveRun, Goto, Types
      <3>3. QED
        BY <1>2, <2>1, <3>1, <3>2
    <2>3. CASE BeginAcceptingNewConnections(t)
      BY <1>1, <2>3 DEF BeginAcceptingNewConnections
    <2>4. CASE RescheduleMe(t) \/ KeepConnection(t) \/ CloseSocket(t) \/ RemoveConnection(t)
      <3>1. UNCHANGED <<created, accept>>
        BY <2>4 DEF RescheduleMe, KeepConnection, CloseSocket, RemoveConnection
      <3>2. at'[t] # "accepted"
        BY <1>a, <2>4 DEF RescheduleMe, KeepConnection, CloseSocket, RemoveConnection, HandlerDone, Goto, Types
      <3>3. QED
        BY <1>2, <2>1, <3>1, <3>2
    <2>5. QED
      BY <1>6, <2>2, <2>3, <2>4 DEF Step, HandlerStep
  <1>7. QED
    BY <1>3, <1>4, <1>5, <1>6 DEF Next

\* The one thread that accepts is the only one that may work on a new connection.
LEMMA Accepter ==
    ASSUME AcceptInv, NEW t \in Threads, at[t] \in Accepting
    PROVE  /\ \A u \in Threads \ {t} : at[u] \notin Accepting
           /\ accept = "none" /\ on[t] = created /\ created <= MaxConns
           /\ at[t] # "accept_again" => created >= 1
  BY DEF AcceptInv

\* A step that touches no list and no thread between the two lists.
LEMMA ListsKept ==
    ASSUME Types, ListInv, UNCHANGED listVars, \A c \in Conns : New(c)' => New(c),
           \A t \in Threads : at'[t] = "accepted_made" <=> at[t] = "accepted_made",
           \A t \in Threads : at[t] = "accepted_made" => on'[t] = on[t] /\ created' = created
    PROVE  ListInv'
  <1>1. Elements(awaiting) \subseteq Conns /\ Elements(made) \subseteq Conns
    BY DEF Types, Elements
  <1>2. QED
    BY <1>1 DEF ListInv, listVars, Elements, Injective

\* Every step keeps the lists consistent with each other and with the accept.
LEMMA NextList == Inv /\ [Next]_vars => ListInv'
  <1> SUFFICES ASSUME Inv, [Next]_vars
               PROVE  ListInv'
    OBVIOUS
  <1> USE DEF threadVars, mainVars, serviceVars, acceptVars, readVars
  <1>a. Types /\ LifeInv /\ AloneInv /\ AcceptInv /\ ListInv /\ PlaceInv
    BY DEF Inv
  <1>b. \A c \in Conns : New(c)' => New(c)
    BY NewShrinks
  <1>c. Elements(awaiting) \subseteq Conns /\ Elements(made) \subseteq Conns
    BY <1>a DEF Types, Elements
  <1>1. CASE MainStep
    <2>1. UNCHANGED <<listVars, on, created>>
      BY <1>1 DEF MainStep, BeginService, SpawnThreads, LoseSignals, PrepareStop, StopWork, Destroy
    <2>2. \A t \in Threads : at'[t] = "accepted_made" <=> at[t] = "accepted_made"
      <3>1. CASE BeginService
        BY <1>a, <3>1 DEF BeginService, MainGoto, LifeInv, Types
      <3>2. CASE SpawnThreads
        BY <1>a, <3>2, WorkerAssumption DEF SpawnThreads, MainGoto, LifeInv, Threads
      <3>3. QED
        BY <1>1, <3>1, <3>2 DEF MainStep, LoseSignals, PrepareStop, StopWork, Destroy
    <2>3. QED
      BY <1>a, <1>b, <2>1, <2>2, ListsKept
  <1>2. CASE Peers \/ Tick \/ UNCHANGED vars
    BY <1>a, <1>b, <1>2, ListsKept DEF Peers, Connect, Send, Hangup, Tick, vars
  <1>3. ASSUME ThreadRun, UNCHANGED listVars
        PROVE  ListInv'
    <2>1. at'["service"] # "accepted_made"
      BY <1>a, <1>3
         DEF ThreadRun, CheckRunning, WakeUp, CleanupClosedConnections, CleanupDone, CheckReschedule,
             StartConnection, RescheduleDone, ClearAwaiting, ServiceStep, Goto, Types, Threads
    <2>2. QED
      BY <1>a, <1>b, <1>3, <2>1, ThreadRunStep, ListsKept
  <1>4. ASSUME at["service"] \in {"cleanup", "clear"}, ThreadRun
        PROVE  \A t \in Threads : at[t] # "accepted_made" /\ at'[t] # "accepted_made"
    <2>1. Alone /\ Alone'
      BY <1>a, <1>4, ListsAreLonely, AloneStays
    <2>2. at'["service"] # "accepted_made"
      BY <1>a, <1>4
         DEF ThreadRun, CheckRunning, WakeUp, CleanupClosedConnections, CleanupDone, CheckReschedule,
             StartConnection, RescheduleDone, ClearAwaiting, ServiceStep, Goto, Types, Threads
    <2>3. QED
      BY <1>4, <2>1, <2>2 DEF Alone
  <1>5. ASSUME CleanupClosedConnections, closed[made[pos]]
        PROVE  ListInv'
    <2>1. pos \in 1 .. Len(made) /\ made[pos] \in Conns
      BY <1>a, <1>5 DEF CleanupClosedConnections, Types
    <2>2. /\ made' = Erased(made, pos) /\ awaiting' = awaiting
          /\ UNCHANGED <<on, acceptVars>> /\ at["service"] = "cleanup"
      BY <1>5 DEF CleanupClosedConnections, ServiceStep, Goto, Erased
    <2>3. Elements(made') = Elements(made) \ {made[pos]} /\ Injective(made')
      <3>1. made \in Seq(Conns) /\ Injective(made)
        BY <1>a DEF Types, ListInv
      <3>2. QED
        BY <2>1, <2>2, <3>1, ErasedElements
    <2>4. made[pos] \notin Elements(awaiting)
      BY <1>5, <1>a, <2>1 DEF PlaceInv
    <2>5. \A t \in Threads : at[t] # "accepted_made" /\ at'[t] # "accepted_made"
      BY <1>4, <1>5, <2>2 DEF ThreadRun
    <2>6. \A c \in Elements(awaiting) : c \in Elements(made)
      BY <1>a, <2>5 DEF ListInv
    <2>7. /\ Elements(awaiting') = Elements(awaiting) /\ Injective(awaiting')
          /\ \A c \in Elements(awaiting) \cup Elements(made) : ~New(c)'
      BY <1>a, <1>b, <1>c, <2>2 DEF ListInv
    <2>8. QED
      BY <2>3, <2>4, <2>5, <2>6, <2>7 DEF ListInv
  <1>6. CASE ClearAwaiting
    <2>1. awaiting' = <<>> /\ made' = made /\ at["service"] = "clear"
      BY <1>6 DEF ClearAwaiting, ServiceStep, Goto
    <2>2. Elements(awaiting') = {} /\ Injective(awaiting')
      BY <2>1 DEF Elements, Injective
    <2>3. \A t \in Threads : at[t] # "accepted_made" /\ at'[t] # "accepted_made"
      BY <1>4, <1>6, <2>1 DEF ThreadRun
    <2>4. /\ Elements(made') = Elements(made) /\ Injective(made')
          /\ \A c \in Elements(made) : ~New(c)'
      BY <1>a, <1>b, <1>c, <2>1 DEF ListInv
    <2>5. QED
      BY <2>2, <2>3, <2>4 DEF ListInv
  <1>7. ASSUME NEW t \in Threads, Step(t), ~RescheduleMe(t), ~KeepConnection(t)
        PROVE  ListInv'
    <2>1. \A u \in Threads \ {t} : at'[u] = at[u]
      BY <1>a, <1>7, OthersStay
    <2>2. at[t] # "accepted_made" /\ at'[t] # "accepted_made" /\ UNCHANGED listVars
      BY <1>7, <1>a
         DEF Step, Dispatch, CallStop, CallAcceptHandler, CallReadHandler, LeaveRun, HandlerStep,
             BeginAcceptingNewConnections, CloseSocket, RemoveConnection, HandlerDone, Goto, Types
    <2>3. \A u \in Threads \ {t} : on'[u] = on[u]
      BY <1>7, <1>a
         DEF Step, Dispatch, CallStop, CallAcceptHandler, CallReadHandler, LeaveRun, HandlerStep,
             BeginAcceptingNewConnections, CloseSocket, RemoveConnection, Types
    <2>4. CASE BeginAcceptingNewConnections(t)
      <3>1. \A u \in Threads : at[u] # "accepted_made"
        BY <1>a, <2>2, <2>4, Accepter DEF BeginAcceptingNewConnections, Goto, Accepting
      <3>2. QED
        BY <1>a, <1>b, <2>1, <2>2, <3>1, ListsKept
    <2>5. CASE ~BeginAcceptingNewConnections(t)
      <3>1. created' = created
        BY <1>7, <2>5
           DEF Step, Dispatch, CallStop, CallAcceptHandler, CallReadHandler, LeaveRun, HandlerStep,
               CloseSocket, RemoveConnection
      <3>2. QED
        BY <1>a, <1>b, <2>1, <2>2, <2>3, <3>1, ListsKept
    <2>6. QED
      BY <2>4, <2>5
  <1>8. ASSUME NEW t \in Threads, RescheduleMe(t)
        PROVE  ListInv'
    <2>1. /\ awaiting' = Append(awaiting, on[t]) /\ made' = made /\ UNCHANGED acceptVars
          /\ \A u \in Threads \ {t} : at'[u] = at[u]
      BY <1>a, <1>8, OthersStay DEF RescheduleMe, Step, HandlerStep
    <2>2. at[t] \in {"accepted", "received"}
      BY <1>8 DEF RescheduleMe, Goto
    <2>3. on[t] \in Conns
      BY <1>a, <2>2, HandledExists DEF Handling, Accepting, Reading
    <2>4. /\ on[t] \notin Elements(awaiting)
          /\ at[t] = "accepted" => on[t] = created /\ on[t] \notin Elements(made)
          /\ at[t] = "received" => on[t] \in Elements(made)
      <3>1. CASE at[t] = "accepted"
        BY <1>a, <3>1, Accepter DEF ListInv, New, Accepting
      <3>2. CASE at[t] = "received"
        BY <1>a, <3>2 DEF PlaceInv, Reading
      <3>3. QED
        BY <2>2, <3>1, <3>2
    <2>5. Injective(awaiting') /\ Elements(awaiting') = Elements(awaiting) \cup {on[t]}
      BY <1>a, <2>1, <2>3, <2>4, Appended DEF Types, ListInv
    <2>6. Injective(made') /\ Elements(made') = Elements(made)
      BY <1>a, <2>1 DEF ListInv
    <2>7. CASE at[t] = "accepted"
      <3>1. at'[t] = "accepted_made" /\ on' = on
        BY <1>a, <1>8, <2>7 DEF RescheduleMe, Goto, Types
      <3>2. \A u \in Threads \ {t} : at[u] \notin Accepting
        BY <1>a, <2>7, Accepter DEF Accepting
      <3>3. ~New(on[t])'
        <4>1. \A u \in Threads : at'[u] # "accepted"
          BY <2>1, <3>1, <3>2 DEF Accepting
        <4>2. accept' = "none" /\ on[t] = created /\ created' = created
          BY <1>a, <2>1, <2>7, Accepter DEF Accepting
        <4>3. QED
          BY <2>3, <3>1, <4>1, <4>2 DEF New, Conns
      <3>4. \A c \in Elements(awaiting') \cup Elements(made') : ~New(c)'
        <4>1. \A c \in Elements(awaiting) \cup Elements(made) : ~New(c)'
          BY <1>a, <1>b, <1>c DEF ListInv
        <4>2. QED
          BY <2>5, <2>6, <3>1, <3>3, <4>1
      <3>5. \A u \in Threads : at'[u] = "accepted_made" => u = t
        BY <2>1, <3>2 DEF Accepting
      <3>6. \A c \in Elements(awaiting) : c \in Elements(made)
        <4>1. \A u \in Threads : at[u] # "accepted_made"
          BY <2>7, <3>2 DEF Accepting
        <4>2. QED
          BY <1>a, <4>1 DEF ListInv
      <3>7. QED
        BY <2>1, <2>4, <2>5, <2>6, <2>7, <3>1, <3>4, <3>5, <3>6 DEF ListInv
    <2>8. CASE at[t] = "received"
      <3>1. at'[t] # "accepted_made" /\ \A u \in Threads \ {t} : on'[u] = on[u]
        BY <1>a, <1>8, <2>8 DEF RescheduleMe, Goto, Types, HandlerDone
      <3>2. \A c \in Elements(awaiting') \cup Elements(made') : ~New(c)'
        BY <1>a, <1>b, <1>c, <2>4, <2>5, <2>6, <2>8 DEF ListInv
      <3>3. QED
        BY <1>a, <2>1, <2>4, <2>5, <2>6, <2>8, <3>1, <3>2 DEF ListInv
    <2>9. QED
      BY <2>2, <2>7, <2>8
  <1>9. ASSUME NEW t \in Threads, KeepConnection(t)
        PROVE  ListInv'
    <2>1. /\ made' = Append(made, on[t]) /\ awaiting' = awaiting /\ UNCHANGED acceptVars
          /\ at[t] = "accepted_made" /\ at'[t] = "accept_again"
          /\ \A u \in Threads \ {t} : at'[u] = at[u]
      BY <1>a, <1>9 DEF KeepConnection, Goto, Types
    <2>2. on[t] \in Conns /\ on[t] = created
      BY <1>a, <2>1, HandledExists, Accepter DEF Handling, Accepting
    <2>3. created \in Elements(awaiting) /\ created \notin Elements(made)
      BY <1>a, <2>1 DEF ListInv
    <2>4. Injective(made') /\ Elements(made') = Elements(made) \cup {on[t]}
      BY <1>a, <2>1, <2>2, <2>3, Appended DEF Types, ListInv
    <2>5. Injective(awaiting') /\ Elements(awaiting') = Elements(awaiting)
      BY <1>a, <2>1 DEF ListInv
    <2>6. \A u \in Threads \ {t} : at[u] \notin Accepting
      BY <1>a, <2>1, Accepter DEF Accepting
    <2>7. \A u \in Threads : at'[u] # "accepted_made"
      BY <2>1, <2>6 DEF Accepting
    <2>8. \A c \in Elements(awaiting) : c \in Elements(made) \/ c = on[t]
      BY <1>a, <2>6 DEF ListInv, Accepting
    <2>9. \A c \in Elements(awaiting') \cup Elements(made') : ~New(c)'
      BY <1>a, <1>b, <1>c, <2>2, <2>3, <2>4, <2>5 DEF ListInv
    <2>10. QED
      BY <2>4, <2>5, <2>7, <2>8, <2>9 DEF ListInv
  <1>10. ASSUME ThreadRun, ~(CleanupClosedConnections /\ closed[made[pos]]), ~ClearAwaiting
         PROVE  UNCHANGED listVars
    BY <1>10 DEF ThreadRun, CheckRunning, WakeUp, CleanupClosedConnections, CleanupDone, CheckReschedule,
                 StartConnection, RescheduleDone, ServiceStep, listVars
  <1>11. QED
    BY <1>1, <1>2, <1>3, <1>5, <1>6, <1>7, <1>8, <1>9, <1>10 DEF Next

\* A step after which every connection is where it was.
LEMMA PlacesKept ==
    ASSUME Types, PlaceInv, UNCHANGED <<listVars, closed>>, \A c \in Conns : New(c)' => New(c),
           \A c \in Conns : read'[c] # "none" <=> read[c] # "none",
           at["service"] \in {"resched", "clear"} => at'["service"] \in {"resched", "clear"},
           \A t \in Threads : at'[t] \in Reading =>
               at[t] \in Reading /\ on'[t] = on[t] /\ (at'[t] = "received" <=> at[t] = "received"),
           \A t \in Threads : at[t] = "received" => at'[t] = "received" /\ on'[t] = on[t]
    PROVE  PlaceInv'
  <1>1. /\ Elements(awaiting) \subseteq Conns /\ Elements(made) \subseteq Conns
        /\ Elements(awaiting)' = Elements(awaiting) /\ Elements(made)' = Elements(made)
    BY DEF Types, Elements, listVars
  <1>2. closed' = closed
    OBVIOUS
  <1>3. \A c \in Conns : closed'[c] => read'[c] = "none" /\ c \notin Elements(awaiting)' /\ ~New(c)'
    BY <1>1, <1>2 DEF PlaceInv
  <1>4. \A t \in Threads : at'[t] \in Reading =>
          /\ on'[t] \in Elements(made)' \ Elements(awaiting)'
          /\ read'[on'[t]] = "none"
          /\ closed'[on'[t]] <=> at'[t] # "received"
    BY <1>1, <1>2 DEF PlaceInv
  <1>5. \A c \in Elements(made)' : \/ closed'[c] \/ c \in Elements(awaiting)' \/ read'[c] # "none"
                                   \/ \E t \in Threads : at'[t] = "received" /\ on'[t] = c
    <2>1. ASSUME NEW c \in Elements(made), NEW t \in Threads, at[t] = "received", on[t] = c
          PROVE  at'[t] = "received" /\ on'[t] = c
      BY <2>1
    <2>2. QED
      BY <1>1, <1>2, <2>1 DEF PlaceInv
  <1>6. QED
    BY <1>1, <1>3, <1>4, <1>5 DEF PlaceInv

\* Reads complete while the service thread is alone, and it takes them.
LEMMA ReadIsTaken ==
    ASSUME Types, LifeInv, AloneInv, PlaceInv, NEW t \in Threads, NEW c \in Conns, CallReadHandler(t, c)
    PROVE  /\ Alone /\ t = "service" /\ at["service"] = "run"
           /\ \A u \in Threads : at[u] \notin Reading
           /\ c \in Elements(made) /\ c \notin Elements(awaiting) /\ ~closed[c]
  <1>1. at[t] = "run" /\ read[c] # "none"
    BY DEF CallReadHandler, Goto
  <1>2. Alone /\ t = "service"
    BY <1>1, ReaderIsAlone DEF Alone
  <1>3. c \in Elements(made) /\ c \notin Elements(awaiting) /\ ~closed[c]
    BY <1>1, <1>2 DEF PlaceInv
  <1>4. \A u \in Threads : at[u] \notin Reading
    BY <1>1, <1>2 DEF Alone, Reading
  <1>5. QED
    BY <1>1, <1>2, <1>3, <1>4

\* Every step keeps every connection in one place.
LEMMA NextPlace ==
    ASSUME Inv, [Next]_vars
    PROVE  PlaceInv'
  <1> USE DEF threadVars, mainVars, serviceVars, acceptVars
  <1>a. Types /\ LifeInv /\ AloneInv /\ AcceptInv /\ ListInv /\ PlaceInv /\ IteratorInv
    BY DEF Inv
  <1>b. \A c \in Conns : New(c)' => New(c)
    BY NewShrinks
  <1>c. Elements(awaiting) \subseteq Conns /\ Elements(made) \subseteq Conns
    BY <1>a DEF Types, Elements
  <1>d. "service" \in Threads
    BY DEF Threads
  <1>1. CASE MainStep
    <2>1. UNCHANGED <<listVars, closed, read, on>>
      BY <1>1 DEF MainStep, BeginService, SpawnThreads, LoseSignals, PrepareStop, StopWork, Destroy, readVars
    <2>2. /\ \A t \in Threads : at'[t] = at[t] \/ at'[t] \in {"accept_again", "run", "check"}
          /\ \A t \in Threads : at[t] \in Reading => at'[t] = at[t]
          /\ at["service"] \in {"resched", "clear"} => at'["service"] = at["service"]
      <3>1. CASE BeginService
        BY <1>a, <3>1 DEF BeginService, MainGoto, LifeInv, Types, Reading
      <3>2. CASE SpawnThreads
        <4>1. \A t \in Threads : at[t] = "off" \/ t = "starter"
          BY <1>a, <3>2 DEF SpawnThreads, MainGoto, LifeInv
        <4>2. at["service"] = "off" /\ "starter" \notin Workers
          BY <1>a, <1>d, <3>2, WorkerAssumption DEF SpawnThreads, MainGoto, LifeInv
        <4>3. QED
          BY <3>2, <4>1, <4>2 DEF SpawnThreads, Reading
      <3>3. QED
        BY <1>1, <3>1, <3>2 DEF MainStep, LoseSignals, PrepareStop, StopWork, Destroy
    <2>3. QED
      BY <1>a, <1>b, <2>1, <2>2, PlacesKept DEF Reading
  <1>2. CASE Peers \/ Tick \/ UNCHANGED vars
    <2>1. \A c \in Conns : read'[c] # "none" <=> read[c] # "none"
      BY <1>a, <1>2 DEF Peers, Connect, Send, Hangup, Tick, vars, readVars, Types
    <2>2. UNCHANGED <<listVars, closed, at, on>>
      BY <1>2 DEF Peers, Connect, Send, Hangup, Tick, vars
    <2>3. QED
      BY <1>a, <1>b, <2>1, <2>2, PlacesKept
  <1>3. ASSUME ThreadRun, UNCHANGED <<read, listVars, closed>>,
               at["service"] \in {"resched", "clear"} => at'["service"] \in {"resched", "clear"}
        PROVE  PlaceInv'
    <2>1. at["service"] \notin Reading /\ at'["service"] \notin Reading
      BY <1>a, <1>d, <1>3
         DEF ThreadRun, CheckRunning, WakeUp, CleanupClosedConnections, CleanupDone, CheckReschedule,
             StartConnection, RescheduleDone, ClearAwaiting, ServiceStep, Goto, Types, Reading
    <2>2. QED
      BY <1>a, <1>b, <1>3, <2>1, ThreadRunStep, PlacesKept DEF Reading
  <1>4. ASSUME ThreadRun, ~(CleanupClosedConnections /\ closed[made[pos]]), ~StartConnection, ~ClearAwaiting
        PROVE  /\ UNCHANGED <<read, listVars, closed>>
               /\ at["service"] \in {"resched", "clear"} => at'["service"] \in {"resched", "clear"}
    BY <1>a, <1>d, <1>4
       DEF ThreadRun, CheckRunning, WakeUp, CleanupClosedConnections, CleanupDone, CheckReschedule,
           RescheduleDone, ServiceStep, Goto, Types, readVars, listVars
  <1>5. ASSUME at["service"] \in {"cleanup", "resched", "clear"}, ThreadRun
        PROVE  \A t \in Threads : at'[t] \notin Reading /\ at[t] # "accepted_made" /\ at[t] \notin Reading
    <2>1. Alone /\ Alone'
      BY <1>a, <1>5, ListsAreLonely, AloneStays
    <2>2. at'["service"] \notin Reading
      BY <1>a, <1>d, <1>5
         DEF ThreadRun, CheckRunning, WakeUp, CleanupClosedConnections, CleanupDone, CheckReschedule,
             StartConnection, RescheduleDone, ClearAwaiting, ServiceStep, Goto, Types, Reading
    <2>3. QED
      BY <1>5, <2>1, <2>2 DEF Alone, Reading
  <1>6. ASSUME CleanupClosedConnections, closed[made[pos]]
        PROVE  PlaceInv'
    <2>1. pos \in 1 .. Len(made) /\ made[pos] \in Conns
      BY <1>a, <1>6 DEF CleanupClosedConnections, Types
    <2>2. /\ made' = Erased(made, pos) /\ at["service"] = "cleanup" /\ at'["service"] = "cleanup"
          /\ UNCHANGED <<awaiting, closed, read>>
      BY <1>a, <1>d, <1>6 DEF CleanupClosedConnections, ServiceStep, Goto, Erased, Types, readVars
    <2>3. Elements(made)' = Elements(made) \ {made[pos]} /\ Elements(awaiting)' = Elements(awaiting)
      <3>1. made \in Seq(Conns) /\ Injective(made)
        BY <1>a DEF Types, ListInv
      <3>2. Elements(made') = Elements(made) \ {made[pos]}
        BY <2>1, <2>2, <3>1, ErasedElements
      <3>3. QED
        BY <2>2, <3>2 DEF Elements
    <2>4. read[made[pos]] = "none"
      BY <1>a, <1>6, <2>1 DEF PlaceInv
    <2>5. \A t \in Threads : at'[t] \notin Reading /\ at[t] \notin Reading
      BY <1>5, <1>6, <2>2 DEF ThreadRun
    <2>6. closed' = closed /\ read' = read
      BY <2>2
    <2>7. QED
      BY <1>a, <1>b, <2>2, <2>3, <2>4, <2>5, <2>6 DEF PlaceInv, Reading
  <1>7. CASE StartConnection
    <2>1. /\ pos \in 1 .. Len(awaiting) /\ awaiting[pos] \in Elements(awaiting) /\ awaiting[pos] \in Conns
      BY <1>a, <1>7 DEF StartConnection, Types, Elements
    <2>2. /\ at["service"] = "resched" /\ at'["service"] = "resched"
          /\ read' = [read EXCEPT ![awaiting[pos]] = "pending"] /\ UNCHANGED <<listVars, closed>>
      BY <1>a, <1>d, <1>7 DEF StartConnection, ServiceStep, Goto, Types
    <2>3. /\ Elements(made)' = Elements(made) /\ Elements(awaiting)' = Elements(awaiting) /\ closed' = closed
      BY <2>2 DEF Elements, listVars
    <2>4. /\ read'[awaiting[pos]] = "pending"
          /\ \A c \in Conns \ {awaiting[pos]} : read'[c] = read[c]
      BY <1>a, <2>1, <2>2 DEF Types
    <2>5. \A t \in Threads : at'[t] \notin Reading /\ at[t] # "accepted_made" /\ at[t] \notin Reading
      BY <1>5, <1>7, <2>2 DEF ThreadRun
    <2>6. awaiting[pos] \in Elements(made)
      BY <1>a, <2>1, <2>5 DEF ListInv
    <2>7. \A c \in Conns : closed[c] => c # awaiting[pos]
      BY <1>a, <2>1 DEF PlaceInv
    <2>8. \A c \in Conns : closed'[c] => read'[c] = "none" /\ c \notin Elements(awaiting)' /\ ~New(c)'
      BY <1>a, <1>b, <2>3, <2>4, <2>7 DEF PlaceInv
    <2>9. \A c \in Conns : read'[c] # "none" => c \in Elements(made)'
      BY <1>a, <2>3, <2>4, <2>6 DEF PlaceInv
    <2>10. \A c \in Elements(made) : closed[c] \/ c \in Elements(awaiting) \/ read'[c] # "none"
      BY <1>a, <1>c, <2>1, <2>4, <2>5 DEF PlaceInv, Reading
    <2>11. QED
      BY <1>c, <2>2, <2>3, <2>5, <2>8, <2>9, <2>10 DEF PlaceInv
  <1>8. CASE ClearAwaiting
    <2>1. /\ at["service"] = "clear" /\ UNCHANGED <<made, closed, read>> /\ awaiting' = <<>>
      BY <1>8 DEF ClearAwaiting, ServiceStep, Goto, readVars
    <2>2. Elements(made)' = Elements(made) /\ Elements(awaiting)' = {}
      BY <2>1 DEF Elements
    <2>3. \A t \in Threads : at'[t] \notin Reading /\ at[t] \notin Reading
      BY <1>5, <1>8, <2>1 DEF ThreadRun
    <2>4. \A c \in Elements(awaiting) : read[c] # "none"
      BY <1>a, <2>1 DEF IteratorInv, Elements, Types
    <2>5. closed' = closed /\ read' = read
      BY <2>1
    <2>6. QED
      BY <1>a, <1>b, <2>2, <2>3, <2>4, <2>5 DEF PlaceInv, Reading
  <1>9. ASSUME NEW t \in Threads, Step(t), ~RescheduleMe(t), ~KeepConnection(t),
               \A c \in Conns : ~CallReadHandler(t, c)
        PROVE  PlaceInv'
    <2>1. \A u \in Threads \ {t} : at'[u] = at[u]
      BY <1>a, <1>9, OthersStay
    <2>2. UNCHANGED <<read, listVars, closed>>
      BY <1>9 DEF Step, Dispatch, CallStop, CallAcceptHandler, LeaveRun, HandlerStep,
                  BeginAcceptingNewConnections, CloseSocket, RemoveConnection, readVars
    <2>3. \A u \in Threads \ {t} : on'[u] = on[u]
      BY <1>9, <1>a DEF Step, Dispatch, CallStop, CallAcceptHandler, LeaveRun, HandlerStep,
                        BeginAcceptingNewConnections, CloseSocket, RemoveConnection, Types
    <2>4. at[t] \notin {"received", "resched", "clear"}
      BY <1>9 DEF Step, Dispatch, CallStop, CallAcceptHandler, LeaveRun, HandlerStep,
                  BeginAcceptingNewConnections, CloseSocket, RemoveConnection, Goto
    <2>5. at'[t] \in Reading =>
            at[t] \in Reading /\ on'[t] = on[t] /\ (at'[t] = "received" <=> at[t] = "received")
      BY <1>9, <1>a DEF Step, Dispatch, CallStop, CallAcceptHandler, LeaveRun, HandlerStep, HandlerDone,
                        BeginAcceptingNewConnections, CloseSocket, RemoveConnection, Goto, Types, Reading
    <2>6. QED
      BY <1>a, <1>b, <1>d, <2>1, <2>2, <2>3, <2>4, <2>5, PlacesKept
  <1>10. ASSUME NEW t \in Threads, NEW c \in Conns, CallReadHandler(t, c)
         PROVE  PlaceInv'
    <2>1. /\ t = "service" /\ at["service"] = "run" /\ \A u \in Threads : at[u] \notin Reading
          /\ c \in Elements(made) /\ c \notin Elements(awaiting) /\ ~closed[c]
      BY <1>a, <1>10, ReadIsTaken
    <2>2. /\ read'[c] = "none" /\ \A d \in Conns \ {c} : read'[d] = read[d]
          /\ on'[t] = c
          /\ \A d \in Conns \ {c} : closed'[d] = closed[d]
      BY <1>a, <1>10 DEF CallReadHandler, Types
    <2>3. at'[t] \in {"received", "failed"} /\ (closed'[c] <=> at'[t] # "received")
      BY <1>a, <1>10, <2>1 DEF CallReadHandler, Goto, Types
    <2>4. \A u \in Threads \ {t} : at'[u] \notin Reading
      BY <1>a, <1>10, <2>1 DEF CallReadHandler, Goto, Types
    <2>5. Elements(made)' = Elements(made) /\ Elements(awaiting)' = Elements(awaiting)
      BY <1>10 DEF CallReadHandler, listVars, Elements
    <2>6. ~New(c)'
      BY <1>a, <1>b, <2>1 DEF ListInv
    <2>7. \A d \in Conns : closed'[d] => read'[d] = "none" /\ d \notin Elements(awaiting)' /\ ~New(d)'
      BY <1>a, <1>b, <2>1, <2>2, <2>5, <2>6 DEF PlaceInv
    <2>8. \A d \in Conns : read'[d] # "none" => d \in Elements(made)' /\ d \notin Elements(awaiting)'
      BY <1>a, <2>1, <2>2, <2>5 DEF PlaceInv
    <2>9. \A d \in Elements(made) \ {c} : closed'[d] \/ d \in Elements(awaiting) \/ read'[d] # "none"
      BY <1>a, <1>c, <2>1, <2>2 DEF PlaceInv, Reading
    <2>10. closed'[c] \/ at'[t] = "received"
      BY <2>3
    <2>11. \A u \in Threads : at'[u] \in Reading =>
             /\ on'[u] \in Elements(made)' \ Elements(awaiting)'
             /\ read'[on'[u]] = "none"
             /\ closed'[on'[u]] <=> at'[u] # "received"
      BY <2>1, <2>2, <2>3, <2>4, <2>5
    <2>12. QED
      BY <2>2, <2>5, <2>7, <2>8, <2>9, <2>10, <2>11 DEF PlaceInv
  <1>11. ASSUME NEW t \in Threads, RescheduleMe(t)
         PROVE  PlaceInv'
    <2>1. /\ awaiting' = Append(awaiting, on[t]) /\ made' = made /\ closed' = closed /\ read' = read
          /\ \A u \in Threads \ {t} : at'[u] = at[u] /\ on'[u] = on[u]
          /\ at[t] \in {"accepted", "received"} /\ at'[t] \notin Reading
      BY <1>a, <1>11 DEF RescheduleMe, Goto, HandlerDone, Types, readVars, Reading
    <2>2. on[t] \in Conns
      BY <1>a, <2>1, HandledExists DEF Handling, Accepting, Reading
    <2>3. Elements(awaiting)' = Elements(awaiting) \cup {on[t]} /\ Elements(made)' = Elements(made)
      <3>1. awaiting \in Seq(Conns)
        BY <1>a DEF Types
      <3>2. Elements(awaiting') = Elements(awaiting) \cup {on[t]}
        BY <2>1, <2>2, <3>1, Appended
      <3>3. QED
        BY <2>1, <3>2 DEF Elements
    <2>4. /\ read[on[t]] = "none" /\ ~closed[on[t]]
          /\ \A u \in Threads \ {t} : at[u] \in Reading => on[u] # on[t]
      <3>1. CASE at[t] = "accepted"
        <4>1. New(on[t]) /\ on[t] = created
          BY <1>a, <3>1, Accepter DEF New, Accepting
        <4>2. on[t] \notin Elements(made)
          BY <1>a, <4>1 DEF ListInv
        <4>3. QED
          BY <1>a, <2>2, <4>1, <4>2 DEF PlaceInv
      <3>2. CASE at[t] = "received"
        <4>1. read[on[t]] = "none" /\ ~closed[on[t]]
          BY <1>a, <3>2 DEF PlaceInv, Reading
        <4>2. \A u \in Threads \ {t} : at[u] \notin Reading
          BY <1>a, <3>2, ReaderIsAlone DEF Reading
        <4>3. QED
          BY <4>1, <4>2
      <3>3. QED
        BY <2>1, <3>1, <3>2
    <2>5. \A c \in Conns : closed[c] => read[c] = "none" /\ c \notin Elements(awaiting)' /\ ~New(c)'
      BY <1>a, <1>b, <2>3, <2>4 DEF PlaceInv
    <2>6. \A c \in Conns : c \in Elements(awaiting)' /\ read[c] # "none" => at'["service"] \in {"resched", "clear"}
      BY <1>a, <1>d, <2>1, <2>3, <2>4 DEF PlaceInv
    <2>7. \A u \in Threads : at'[u] \in Reading =>
             /\ on'[u] \in Elements(made)' \ Elements(awaiting)'
             /\ read[on'[u]] = "none"
             /\ closed[on'[u]] <=> at'[u] # "received"
      BY <1>a, <2>1, <2>3, <2>4 DEF PlaceInv
    <2>8. \A c \in Elements(made) \ {on[t]} :
             \/ closed[c] \/ c \in Elements(awaiting) \/ read[c] # "none"
             \/ \E u \in Threads : at'[u] = "received" /\ on'[u] = c
      BY <1>a, <2>1 DEF PlaceInv
    <2>9. \A c \in Conns : read[c] # "none" => c \in Elements(made)'
      BY <1>a, <2>3 DEF PlaceInv
    <2>10. QED
      BY <2>1, <2>3, <2>5, <2>6, <2>7, <2>8, <2>9 DEF PlaceInv
  <1>12. ASSUME NEW t \in Threads, KeepConnection(t)
         PROVE  PlaceInv'
    <2>1. /\ made' = Append(made, on[t]) /\ awaiting' = awaiting /\ closed' = closed /\ read' = read
          /\ at[t] = "accepted_made" /\ at'[t] = "accept_again" /\ on' = on
          /\ \A u \in Threads \ {t} : at'[u] = at[u]
      BY <1>a, <1>12 DEF KeepConnection, Goto, Types, readVars
    <2>2. on[t] \in Conns /\ on[t] = created
      BY <1>a, <2>1, HandledExists, Accepter DEF Handling, Accepting
    <2>3. Elements(made)' = Elements(made) \cup {on[t]} /\ Elements(awaiting)' = Elements(awaiting)
      <3>1. made \in Seq(Conns)
        BY <1>a DEF Types
      <3>2. Elements(made') = Elements(made) \cup {on[t]}
        BY <2>1, <2>2, <3>1, Appended
      <3>3. QED
        BY <2>1, <3>2 DEF Elements
    <2>4. on[t] \in Elements(awaiting)
      BY <1>a, <2>1, <2>2 DEF ListInv
    <2>5. \A u \in Threads : at'[u] \in Reading \/ at[u] \in Reading => at'[u] = at[u]
      BY <2>1 DEF Reading
    <2>6. \A c \in Conns : closed[c] => read[c] = "none" /\ c \notin Elements(awaiting) /\ ~New(c)'
      BY <1>a, <1>b DEF PlaceInv
    <2>7. at["service"] \in {"resched", "clear"} => at'["service"] = at["service"]
      BY <1>d, <2>1
    <2>8. \A u \in Threads : at'[u] \in Reading =>
             /\ on[u] \in Elements(made)' \ Elements(awaiting)
             /\ read[on[u]] = "none"
             /\ closed[on[u]] <=> at'[u] # "received"
      BY <1>a, <2>3, <2>5 DEF PlaceInv
    <2>9. \A c \in Elements(made)' :
             \/ closed[c] \/ c \in Elements(awaiting) \/ read[c] # "none"
             \/ \E u \in Threads : at'[u] = "received" /\ on[u] = c
      BY <1>a, <2>3, <2>4, <2>5 DEF PlaceInv, Reading
    <2>10. QED
      BY <1>a, <2>1, <2>3, <2>6, <2>7, <2>8, <2>9 DEF PlaceInv
  <1>13. QED
    BY <1>1, <1>2, <1>3, <1>4, <1>6, <1>7, <1>8, <1>9, <1>10, <1>11, <1>12 DEF Next

\* Every step keeps the iterators in their lists.
LEMMA NextIterator ==
    ASSUME Inv, [Next]_vars
    PROVE  IteratorInv'
  <1> USE DEF threadVars, mainVars, serviceVars, acceptVars
  <1>a. Types /\ AloneInv /\ ListInv /\ PlaceInv /\ IteratorInv
    BY DEF Inv
  <1>b. "service" \in Threads /\ Len(awaiting) \in Nat /\ Len(made) \in Nat /\ pos \in Nat /\ pos >= 1
    BY <1>a, BoundAssumption DEF Threads, Types
  <1>1. ASSUME at'["service"] \notin {"cleanup", "resched", "clear"}
        PROVE  IteratorInv'
    BY <1>1 DEF IteratorInv
  <1>2. ASSUME UNCHANGED <<listVars, pos>>, at'["service"] = at["service"],
               \A c \in Conns : read'[c] # "none" <=> read[c] # "none"
        PROVE  IteratorInv'
    <2>1. \A i \in 1 .. Len(awaiting) : awaiting[i] \in Conns
      BY <1>a DEF Types
    <2>2. QED
      BY <1>2, <1>a, <2>1 DEF IteratorInv, listVars
  <1>3. CASE MainStep
    <2>1. UNCHANGED <<listVars, pos, read>>
      BY <1>3 DEF MainStep, BeginService, SpawnThreads, LoseSignals, PrepareStop, StopWork, Destroy, readVars
    <2>2. at'["service"] = at["service"] \/ at'["service"] = "check"
      BY <1>3, <1>a, <1>b
         DEF MainStep, BeginService, SpawnThreads, LoseSignals, PrepareStop, StopWork, Destroy, Types
    <2>3. QED
      BY <1>1, <1>2, <2>1, <2>2
  <1>4. CASE Peers \/ Tick \/ UNCHANGED vars
    <2>1. \A c \in Conns : read'[c] # "none" <=> read[c] # "none"
      BY <1>a, <1>4 DEF Peers, Connect, Send, Hangup, Tick, vars, readVars, Types
    <2>2. UNCHANGED <<listVars, pos, at>>
      BY <1>4 DEF Peers, Connect, Send, Hangup, Tick, vars
    <2>3. QED
      BY <1>2, <2>1, <2>2
  <1>5. CASE CheckRunning \/ CleanupDone \/ ClearAwaiting
    BY <1>1, <1>a, <1>b, <1>5 DEF CheckRunning, CleanupDone, ClearAwaiting, ServiceStep, Goto, Types
  <1>6. CASE WakeUp
    BY <1>a, <1>b, <1>6 DEF WakeUp, ServiceStep, Goto, Types, IteratorInv, listVars
  <1>7. CASE CleanupClosedConnections
    <2>1. pos \in 1 .. Len(made) /\ at'["service"] = "cleanup"
      BY <1>a, <1>b, <1>7 DEF CleanupClosedConnections, ServiceStep, Goto, Types
    <2>2. CASE closed[made[pos]]
      <3>1. made \in Seq(Conns) /\ Injective(made)
        BY <1>a DEF Types, ListInv
      <3>2. made' = Erased(made, pos) /\ pos' = pos
        BY <1>7, <2>2 DEF CleanupClosedConnections, Erased
      <3>3. Len(made') = Len(made) - 1
        BY <2>1, <3>1, <3>2, ErasedElements
      <3>4. QED
        BY <1>b, <2>1, <3>2, <3>3 DEF IteratorInv
    <2>3. CASE ~closed[made[pos]]
      <3>1. made' = made /\ pos' = pos + 1
        BY <1>7, <2>3 DEF CleanupClosedConnections
      <3>2. QED
        BY <1>b, <2>1, <3>1 DEF IteratorInv
    <2>4. QED
      BY <2>2, <2>3
  <1>8. CASE CheckReschedule
    <2>1. pos' = 1 /\ awaiting' = awaiting /\ read' = read /\ at["service"] = "resched_check"
      BY <1>8 DEF CheckReschedule, ServiceStep, Goto, readVars, listVars
    <2>2. at'["service"] \in {"resched", "check"}
      BY <1>8, <1>a, <1>b DEF CheckReschedule, ServiceStep, Goto, Types
    <2>3. \A i \in 1 .. Len(awaiting) : awaiting[i] \in Conns /\ awaiting[i] \in Elements(awaiting)
      BY <1>a DEF Types, Elements
    <2>4. \A i \in 1 .. Len(awaiting) : read[awaiting[i]] = "none"
      BY <1>a, <2>1, <2>3 DEF PlaceInv
    <2>5. QED
      BY <1>b, <2>1, <2>2, <2>4 DEF IteratorInv
  <1>9. CASE StartConnection
    <2>1. /\ pos \in 1 .. Len(awaiting) /\ pos' = pos + 1 /\ awaiting' = awaiting
          /\ at["service"] = "resched" /\ at'["service"] = "resched"
          /\ read' = [read EXCEPT ![awaiting[pos]] = "pending"]
      BY <1>a, <1>b, <1>9 DEF StartConnection, ServiceStep, Goto, Types, listVars
    <2>2. \A i \in 1 .. Len(awaiting) : awaiting[i] \in Conns
      BY <1>a DEF Types
    <2>3. ASSUME NEW i \in 1 .. Len(awaiting)
          PROVE  read'[awaiting[i]] # "none" <=> i < pos + 1
      <3>1. CASE i = pos
        <4>1. read'[awaiting[i]] = "pending"
          BY <1>a, <2>1, <2>2, <3>1 DEF Types
        <4>2. QED
          BY <1>b, <3>1, <4>1
      <3>2. CASE i # pos
        <4>1. awaiting[i] # awaiting[pos]
          BY <1>a, <2>1, <3>2 DEF ListInv, Injective
        <4>2. read'[awaiting[i]] = read[awaiting[i]]
          BY <1>a, <2>1, <2>2, <4>1 DEF Types
        <4>3. read[awaiting[i]] # "none" <=> i < pos
          BY <1>a, <2>1 DEF IteratorInv
        <4>4. QED
          BY <1>b, <3>2, <4>2, <4>3
      <3>3. QED
        BY <3>1, <3>2
    <2>4. QED
      BY <1>b, <2>1, <2>3 DEF IteratorInv
  <1>10. CASE RescheduleDone
    <2>1. /\ at["service"] = "resched" /\ at'["service"] = "clear" /\ awaiting' = awaiting /\ read' = read
          /\ pos > Len(awaiting)
      BY <1>a, <1>b, <1>10 DEF RescheduleDone, ServiceStep, Goto, Types, listVars, readVars
    <2>2. \A i \in 1 .. Len(awaiting) : read[awaiting[i]] # "none"
      BY <1>a, <1>b, <2>1 DEF IteratorInv
    <2>3. QED
      BY <2>1, <2>2 DEF IteratorInv
  <1>11. ASSUME NEW t \in Threads \ {"service"}, Step(t)
         PROVE  IteratorInv'
    <2>1. at'["service"] = at["service"]
      BY <1>a, <1>b, <1>11, OthersStay
    <2>2. at["service"] \notin {"cleanup", "resched", "clear"}
      BY <1>a, <1>11, ListsAreLonely, NoStepAfterExit DEF Alone
    <2>3. QED
      BY <1>1, <2>1, <2>2
  <1>12. ASSUME Step("service")
         PROVE  IteratorInv'
    <2>1. at'["service"] \notin {"cleanup", "resched", "clear"}
      BY <1>a, <1>b, <1>12
         DEF Step, Dispatch, CallStop, CallAcceptHandler, CallReadHandler, LeaveRun, HandlerStep, RescheduleMe,
             KeepConnection, BeginAcceptingNewConnections, CloseSocket, RemoveConnection, HandlerDone, Goto, Types
    <2>2. QED
      BY <1>1, <2>1
  <1>13. QED
    BY <1>3, <1>4, <1>5, <1>6, <1>7, <1>8, <1>9, <1>10, <1>11, <1>12 DEF Next, ThreadRun

-----------------------------------------------------------------------------
(* The invariant and its end.                                              *)

\* The invariant holds before the main thread starts anything.
LEMMA InitInv == Init => Inv
  <1> SUFFICES ASSUME Init
               PROVE  Inv
    OBVIOUS
  <1> USE DEF Init
  <1>a. "starter" \in Threads /\ "service" \in Threads /\ Workers \subseteq Threads
    BY DEF Threads
  <1>1. Elements(awaiting) = {} /\ Elements(made) = {} /\ Len(awaiting) = 0 /\ Len(made) = 0
    BY DEF Elements
  <1>2. Types
    <2>1. at \in [Threads -> Locations] /\ on \in [Threads -> 0 .. MaxConns + 1]
      BY BoundAssumption DEF Locations
    <2>2. nap \in [service : 0 .. 1, main : 0 .. 5]
      OBVIOUS
    <2>3. messages \in [Conns -> 0 .. MaxMessages] /\ pos \in 1 .. MaxConns + 2 /\ created \in 0 .. MaxConns + 1
      BY BoundAssumption
    <2>4. /\ read \in [Conns -> {"none", "pending", "data", "error"}] /\ closed \in [Conns -> BOOLEAN]
          /\ awaiting \in Seq(Conns) /\ made \in Seq(Conns)
      OBVIOUS
    <2>5. QED
      BY <2>1, <2>2, <2>3, <2>4 DEF Types
  <1>3. LifeInv
    BY <1>a DEF LifeInv
  <1>4. AloneInv
    BY <1>a DEF AloneInv, Alone, Reading
  <1>5. AcceptInv
    BY DEF AcceptInv, Accepting
  <1>6. ListInv /\ PlaceInv
    BY <1>1 DEF ListInv, PlaceInv, Injective, Reading
  <1>7. IteratorInv
    BY <1>a DEF IteratorInv
  <1>8. QED
    BY <1>2, <1>3, <1>4, <1>5, <1>6, <1>7 DEF Inv

\* With prompt threads the invariant holds for ever.
LEMMA Invariance == Prompt /\ Spec => []Inv
  <1>1. ASSUME Prompt, Inv, [Next]_vars PROVE Inv'
    BY <1>1, NextTypes, NextLife, NextAlone, NextAccept, NextList, NextPlace, NextIterator DEF Inv
  <1>2. CASE Prompt
    <2>1. Inv /\ [Next]_vars => Inv'
      BY <1>1, <1>2
    <2>2. QED
      BY <2>1, InitInv, PTL DEF Spec
  <1>3. QED
    BY <1>2

\* Main's naps are long enough: the flag is down before the first, and the
\* service thread has ended after the second.
LEMMA NextEnd ==
    ASSUME Prompt, PrepareFirst, Inv, EndInv, [Next]_vars
    PROVE  EndInv'
  <1> DEFINE service == at["service"]
  <1> USE DEF threadVars, mainVars
  <1>a. Types /\ LifeInv
    BY DEF Inv
  <1>b. "service" \in Threads /\ nap.main \in 0 .. 5 /\ nap.service \in 0 .. 1
    BY <1>a DEF Threads, Types
  <1>1. CASE MainStep
    <2>1. CASE BeginService
      <3>1. UNCHANGED <<service, nap, isThreadRunning, deleted>> /\ main = "begin" /\ main' = "spawn"
        BY <1>a, <1>b, <2>1 DEF BeginService, MainGoto, Types
      <3>2. QED
        BY <3>1 DEF EndInv
    <2>2. CASE SpawnThreads
      BY <2>2 DEF SpawnThreads, MainGoto, EndInv
    <2>3. CASE LoseSignals
      BY <2>3 DEF LoseSignals, MainGoto, EndInv
    <2>4. CASE PrepareStop
      <3>1. nap'.main = 1 /\ ~isThreadRunning'
        BY <1>a, <2>4 DEF PrepareStop, Types
      <3>2. QED
        BY <2>4, <3>1 DEF PrepareStop, MainGoto, EndInv
    <2>5. CASE StopWork
      <3>1. nap'.main = 5 /\ nap'.service = nap.service
        BY <1>a, <2>5 DEF StopWork, Types
      <3>2. QED
        BY <2>5, <3>1 DEF StopWork, MainGoto, EndInv, Leaving
    <2>6. CASE Destroy
      BY <2>6 DEF Destroy, MainGoto, EndInv
    <2>7. QED
      BY <1>1, <2>1, <2>2, <2>3, <2>4, <2>5, <2>6 DEF MainStep
  <1>2. CASE Peers \/ UNCHANGED vars
    BY <1>2 DEF Peers, Connect, Send, Hangup, vars, EndInv, Leaving
  <1>3. CASE Tick
    <2>1. Quiet /\ UNCHANGED <<at, main, isThreadRunning, deleted>>
      BY <1>3 DEF Tick
    <2>2. /\ nap'.main = IF nap.main > 0 THEN nap.main - 1 ELSE 0
          /\ nap'.service = IF nap.service > 0 THEN nap.service - 1 ELSE 0
      BY <1>a, <1>3 DEF Tick, Types
    <2>3. main \in {"napping", "join", "done"} =>
              service = "exited" \/ (service = "sleep" /\ nap.service = 1)
      <3>1. main \in {"napping", "join", "done"} => service # "off" /\ stopHandler # "none"
        BY <1>a, <1>b DEF LifeInv, Threads
      <3>2. main \in {"napping", "join", "done"} => stopped \/ OperationReady
        BY <1>a, <3>1 DEF LifeInv, Types, OperationReady
      <3>3. Waits("service") /\ ~(service = "sleep" /\ nap.service = 0)
        BY <1>b, <2>1 DEF Quiet
      <3>4. main \in {"napping", "join", "done"} => service \in {"exited", "sleep"}
        BY <3>1, <3>2, <3>3 DEF Waits
      <3>5. nap.service = 0 \/ nap.service = 1
        BY <1>b
      <3>6. QED
        BY <3>3, <3>4, <3>5
    <2>4. main = "napping" => nap.main = 1
      BY <1>b, <2>1 DEF Quiet, EndInv
    <2>5. main = "join" => service = "exited"
      BY <1>b, <2>3 DEF EndInv, Leaving
    <2>6. QED
      BY <1>b, <2>1, <2>2, <2>3, <2>4, <2>5 DEF EndInv, Leaving
  <1>4. CASE ThreadRun
    <2>1. UNCHANGED <<main, nap, isThreadRunning, deleted>> /\ service # "exited"
      BY <1>a, <1>4, ThreadRunStep
    <2>2. main \in {"napping", "join", "done"} /\ Leaving => Leaving'
      BY <1>a, <1>b, <1>4, <2>1
         DEF ThreadRun, CheckRunning, WakeUp, CleanupClosedConnections, CleanupDone, CheckReschedule,
             StartConnection, RescheduleDone, ClearAwaiting, ServiceStep, Goto, Types, EndInv, Leaving
    <2>3. QED
      BY <2>1, <2>2 DEF EndInv
  <1>5. ASSUME NEW t \in Threads, Step(t)
        PROVE  EndInv'
    <2>1. UNCHANGED <<main, isThreadRunning, deleted>> /\ nap'.main = nap.main
      BY <1>a, <1>5
         DEF Step, Dispatch, CallStop, CallAcceptHandler, CallReadHandler, LeaveRun, HandlerStep, RescheduleMe,
             KeepConnection, BeginAcceptingNewConnections, CloseSocket, RemoveConnection, Types
    <2>2. CASE t # "service"
      <3>1. service' = service
        BY <1>a, <1>b, <1>5, <2>2, OthersStay
      <3>2. nap' = nap
        BY <1>5, <2>2
           DEF Step, Dispatch, CallStop, CallAcceptHandler, CallReadHandler, LeaveRun, HandlerStep, RescheduleMe,
               KeepConnection, BeginAcceptingNewConnections, CloseSocket, RemoveConnection
      <3>3. QED
        BY <2>1, <3>1, <3>2 DEF EndInv, Leaving
    <2>3. CASE t = "service"
      <3>1. service \in {"run"} \cup Handling
        BY <1>5, <2>3
           DEF Step, Dispatch, LeaveRun, HandlerStep, RescheduleMe, KeepConnection, BeginAcceptingNewConnections,
               CloseSocket, RemoveConnection, Goto, Handling, Accepting, Reading
      <3>2. ~Leaving /\ service # "exited"
        BY <3>1 DEF Leaving, Handling, Accepting, Reading
      <3>3. QED
        BY <1>b, <2>1, <3>2 DEF EndInv
    <2>4. QED
      BY <2>2, <2>3
  <1>6. QED
    BY <1>1, <1>2, <1>3, <1>4, <1>5 DEF Next

-----------------------------------------------------------------------------
(* The server's properties.                                                *)

\* With prompt threads every variable has its type, and the lists hold only
\* connections that BeginAcceptingNewConnections made, none twice.
THEOREM TypeCorrect == Prompt /\ Spec => []TypeOK
  <1>1. Inv => TypeOK
    <2> SUFFICES ASSUME Inv
                 PROVE  TypeOK
      OBVIOUS
    <2>1. Types /\ ListInv
      BY DEF Inv
    <2>2. Elements(awaiting) \cup Elements(made) \subseteq Conns
      BY <2>1 DEF Types, Elements
    <2>3. \A c \in Elements(awaiting) \cup Elements(made) : c \in 1 .. created
      BY <2>1, <2>2, BoundAssumption DEF ListInv, New, Types, Conns
    <2>4. QED
      BY <2>1, <2>3, ListsFit DEF Types, TypeOK
  <1>2. QED
    BY <1>1, Invariance, PTL

\* With prompt threads HandleReschedule forgets no connection that
\* RescheduleMe put in line.
THEOREM ConnectionsKept == Prompt /\ Spec => []NoConnectionLost
  <1>1. Inv => NoConnectionLost
    BY DEF Inv, PlaceInv, NoConnectionLost
  <1>2. QED
    BY <1>1, Invariance, PTL

\* With prompt threads Start gives a connection's buffer to one read at a time.
THEOREM ReadsAlternate == Prompt /\ Spec => []OneReadPerConnection
  <1>1. Inv => OneReadPerConnection
    <2> SUFFICES ASSUME Inv, at["service"] = "resched", pos <= Len(awaiting)
                 PROVE  /\ read[awaiting[pos]] = "none"
                        /\ ~closed[awaiting[pos]]
                        /\ \A t \in Threads : on[t] = awaiting[pos] => at[t] # "received"
      BY DEF OneReadPerConnection
    <2>1. pos \in 1 .. Len(awaiting) /\ awaiting[pos] \in Conns /\ awaiting[pos] \in Elements(awaiting)
      BY DEF Inv, Types, Elements
    <2>2. read[awaiting[pos]] = "none"
      BY <2>1 DEF Inv, IteratorInv
    <2>3. ~closed[awaiting[pos]]
      BY <2>1 DEF Inv, PlaceInv
    <2>4. \A t \in Threads : at[t] # "received"
      BY ListsAreLonely DEF Inv, Alone
    <2>5. QED
      BY <2>2, <2>3, <2>4
  <1>2. QED
    BY <1>1, Invariance, PTL

\* With prompt threads no connection is freed while its read or a handler of
\* it uses the plain `this'.
THEOREM ConnectionsLive == Prompt /\ Spec => []ConnectionsOutliveReads
  <1>1. Inv => ConnectionsOutliveReads
    <2> SUFFICES ASSUME Inv, NEW c \in Conns, read[c] # "none" \/ \E t \in Threads : on[t] = c
                 PROVE  Owned(c)
      BY DEF ConnectionsOutliveReads
    <2>1. CASE read[c] # "none"
      BY <2>1 DEF Inv, PlaceInv, Owned
    <2>2. ASSUME NEW t \in Threads, on[t] = c
          PROVE  Owned(c)
      <3>1. at[t] \in Handling
        BY <2>2 DEF Inv, LifeInv, Conns
      <3>2. CASE at[t] \in Reading
        BY <2>2, <3>2 DEF Inv, PlaceInv, Owned
      <3>3. CASE at[t] \in Accepting
        BY <2>2, <3>3 DEF Owned, Accepting
      <3>4. QED
        BY <3>1, <3>2, <3>3 DEF Handling
    <2>3. QED
      BY <2>1, <2>2
  <1>2. QED
    BY <1>1, Invariance, PTL

\* With prompt threads, and main lowering isThreadRunning first as ~ServerSocket
\* does, the detached service thread has ended before the TCPThreader is deleted.
THEOREM ServiceEndsFirst == Prompt /\ PrepareFirst /\ Spec => []ServerNotUsedAfterDelete
  <1>1. Init => EndInv
    BY DEF Init, EndInv
  <1>2. CASE Prompt /\ PrepareFirst
    <2>1. Inv /\ EndInv /\ [Next]_vars => EndInv'
      BY <1>2, NextEnd
    <2>2. EndInv => ServerNotUsedAfterDelete
      BY DEF EndInv, ServerNotUsedAfterDelete
    <2>3. QED
      BY <1>1, <1>2, <2>1, <2>2, Invariance, PTL DEF Spec
  <1>3. QED
    BY <1>2
=============================================================================
