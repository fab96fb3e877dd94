--------------------------- MODULE StartupProofs ---------------------------
(***************************************************************************)
(* For every set of threads that run the start-up routines together:       *)
(* however their steps fall, the stream of the log is spoilt only if two   *)
(* of them passed the test of isCreatingFile at once, so the flag is       *)
(* enough but for the gap between its test and its assignment; and         *)
(* whichever calls fail, the tidy routines release all that they hold and  *)
(* nothing else, and whoever serves is bound.                              *)
(*                                                                         *)
(* The second part is a small logic of routines: what is Safe may be held  *)
(* with these steps left, whatever succeeds or fails from here on, and     *)
(* Leads says how one part of a routine prepares the next.                 *)
(***************************************************************************)
EXTENDS Startup, SequenceTheorems, TLAPS

-----------------------------------------------------------------------------
(* The steps of the routines.                                              *)

\* The body of CreateLogFile up to the reset of the flag.
CloseIfOpen == [do |-> "if", test |-> "open", then |-> Step("close")]
Creation == Step("setFlag") \o <<CloseIfOpen>> \o Step("open") \o Step("clearFlag")

\* What CreateLogFile does if the flag is down.
Bodies == {Creation \o <<>>, Creation \o Step("write")}

\* What calls acquire.
Resources == {"addrinfo", "winsock", "socket", "bound", "ReceivingSocket"}

\* A step outside the body of CreateLogFile, and a call, whose failure is
\* followed by such steps.
SimpleSteps ==
    {[do |-> kind] : kind \in {"serve", "write", "close", "mkdir"}}
    \cup [do : {"release"}, what : Resources]
    \cup [do : {"if"}, test : {"open"}, then : {Step("write"), Step("close")}]
    \cup [do : {"if"}, test : {"not creating"}, then : Bodies]
CallSteps == [do : {"call"}, acquires : SUBSET Resources, otherwise : Seq(SimpleSteps)]
Steps == SimpleSteps \cup CallSteps

\* The steps of its body that are not found outside it.
AllSteps == Steps \cup {[do |-> kind] : kind \in {"setFlag", "open", "clearFlag"}}

\* Where a thread is in CreateLogFile, by the steps it has left.
Outside(s) == s \in Seq(Steps)
AtClear(s) == s # <<>> /\ Head(s) = [do |-> "clearFlag"] /\ Outside(Tail(s))
AtOpen(s)  == s # <<>> /\ Head(s) = [do |-> "open"] /\ AtClear(Tail(s))
AtClose(s) == s # <<>> /\ Head(s) = [do |-> "close"] /\ AtOpen(Tail(s))
AtTest(s)  == s # <<>> /\ Head(s) = CloseIfOpen /\ AtOpen(Tail(s))
AtSet(s)   == s # <<>> /\ Head(s) = [do |-> "setFlag"] /\ AtTest(Tail(s))
Inside(s)  == AtSet(s) \/ AtTest(s) \/ AtClose(s) \/ AtOpen(s) \/ AtClear(s)

-----------------------------------------------------------------------------
(* The inductive invariant about the log.                                  *)

\* Every thread is before, in or behind the body of CreateLogFile.
PlaceInv == /\ todo \in [Threads -> Seq(AllSteps)]
            /\ \A t \in Threads : Outside(todo[t]) \/ Inside(todo[t])

\* As long as no two threads were in it at once there is one at most, and the
\* stream that it is about to open is closed.
StreamInv ==
    /\ raced \in BOOLEAN
    /\ ~raced =>
        /\ \A t, u \in Threads : Inside(todo[t]) /\ Inside(todo[u]) => t = u
        /\ \A t \in Threads : AtOpen(todo[t]) => loggingFile = "closed"
        /\ loggingFile # "failed"

Inv == PlaceInv /\ StreamInv
-----------------------------------------------------------------------------
(* The routines consist of such steps.                                     *)

\* Steps one after the other.
LEMMA Sequences ==
    /\ \A s, r \in Seq(SimpleSteps) : s \o r \in Seq(SimpleSteps)
    /\ \A s, r \in Seq(Steps) : s \o r \in Seq(Steps)
    /\ \A s \in Seq(SimpleSteps) : s \in Seq(Steps)
    /\ <<>> \in Seq(SimpleSteps)
    /\ \A e \in SimpleSteps : <<e>> \in Seq(SimpleSteps)
    /\ \A e \in Steps : <<e>> \in Seq(Steps)
  <1>1. \A S : \A s, r \in Seq(S) : s \o r \in Seq(S)
    OBVIOUS
  <1>2. SimpleSteps \subseteq Steps
    BY DEF Steps
  <1> HIDE DEF Steps
  <1>3. \A S : \A e \in S : <<e>> \in Seq(S)
    OBVIOUS
  <1>4. \A s \in Seq(SimpleSteps) : s \in Seq(Steps)
    BY <1>2
  <1>5. <<>> \in Seq(SimpleSteps)
    OBVIOUS
  <1>6. QED
    BY <1>1, <1>3, <1>4, <1>5, Zenon

\* The steps on the log.
LEMMA LogSteps ==
    /\ FileLog \in Seq(SimpleSteps) /\ LogMessage \in Seq(SimpleSteps)
    /\ FileLogClose \in Seq(SimpleSteps)
    /\ Serve \in Seq(SimpleSteps) /\ Return \in Seq(SimpleSteps)
    /\ \A r \in Resources : Release(r) \in Seq(SimpleSteps)
    /\ \A e \in BOOLEAN : FileLogOpen(e) \in Seq(SimpleSteps)
  <1>1. /\ [do |-> "serve"] \in SimpleSteps /\ [do |-> "mkdir"] \in SimpleSteps
    BY Zenon DEF SimpleSteps
  <1>2. \A r \in Resources : [do |-> "release", what |-> r] \in SimpleSteps
    <2>1. \A r \in Resources : [do |-> "release", what |-> r] \in [do : {"release"}, what : Resources]
      OBVIOUS
    <2>2. QED
      BY <2>1, Zenon DEF SimpleSteps
  <1>3. \A s : s \in {Step("write"), Step("close")} =>
                 [do |-> "if", test |-> "open", then |-> s] \in SimpleSteps
    <2> DEFINE A == {Step("write"), Step("close")}
    <2> HIDE DEF A
    <2>1. \A s : s \in A => [do |-> "if", test |-> "open", then |-> s] \in [do : {"if"}, test : {"open"}, then : A]
      OBVIOUS
    <2>2. QED
      BY <2>1, Zenon DEF SimpleSteps, A
  <1>4. \A s : s \in Bodies => [do |-> "if", test |-> "not creating", then |-> s] \in SimpleSteps
    <2>1. \A s : s \in Bodies => [do |-> "if", test |-> "not creating", then |-> s]
                                    \in [do : {"if"}, test : {"not creating"}, then : Bodies]
      OBVIOUS
    <2>2. QED
      BY <2>1, Zenon DEF SimpleSteps
  <1>5. FileLog \in Seq(SimpleSteps) /\ FileLogClose \in Seq(SimpleSteps)
    BY <1>3, Sequences, Zenon DEF FileLog, FileLogClose, If
  <1>6. Serve \in Seq(SimpleSteps) /\ Return \in Seq(SimpleSteps) /\ Step("mkdir") \in Seq(SimpleSteps)
    BY <1>1, Sequences, Zenon DEF Serve, Return, Step
  <1>7. \A r \in Resources : Release(r) \in Seq(SimpleSteps)
    BY <1>2, Sequences, Zenon DEF Release
  <1>8. \A e \in BOOLEAN : CreateLogFile(e) \in Seq(SimpleSteps)
    <2> SUFFICES ASSUME NEW e \in BOOLEAN PROVE CreateLogFile(e) \in Seq(SimpleSteps)
      OBVIOUS
    <2> DEFINE body == Step("setFlag") \o If("open", Step("close")) \o Step("open") \o Step("clearFlag")
                       \o (IF e THEN <<>> ELSE Step("write"))
    <2>1. If("open", Step("close")) = <<CloseIfOpen>>
      BY Zenon DEF If, CloseIfOpen
    <2>2. body \in Bodies
      BY <2>1, Zenon DEF Bodies, Creation
    <2> HIDE DEF body
    <2>3. CreateLogFile(e) = <<[do |-> "if", test |-> "not creating", then |-> body]>>
      BY Zenon DEF CreateLogFile, If, body
    <2>4. QED
      BY <1>4, <2>2, <2>3, Sequences, Zenon
  <1>9. QED
    BY <1>5, <1>6, <1>7, <1>8, Sequences, Zenon DEF LogMessage, FileLogOpen

\* A call is a step.
LEMMA Calls ==
    ASSUME NEW a \in SUBSET Resources, NEW s \in Seq(SimpleSteps)
    PROVE  Call(a, s) \in Seq(Steps)
  <1> HIDE DEF SimpleSteps
  <1>1. [do |-> "call", acquires |-> a, otherwise |-> s] \in CallSteps
    BY DEF CallSteps
  <1>2. QED
    BY <1>1, Sequences, Zenon DEF Call, Steps

\* Every routine is made of steps outside CreateLogFile.
LEMMA RoutineSteps == \A r \in DOMAIN Routines : Routines[r] \in Seq(Steps)
  <1>1. /\ \A s, r \in Seq(Steps) : s \o r \in Seq(Steps)
        /\ \A s, r \in Seq(SimpleSteps) : s \o r \in Seq(SimpleSteps)
        /\ \A s \in Seq(SimpleSteps) : s \in Seq(Steps)
    BY Sequences, Zenon
  <1>2. /\ LogMessage \in Seq(SimpleSteps) /\ FileLogClose \in Seq(SimpleSteps)
        /\ Serve \in Seq(SimpleSteps) /\ Return \in Seq(SimpleSteps)
        /\ \A r \in Resources : Release(r) \in Seq(SimpleSteps)
        /\ \A e \in BOOLEAN : FileLogOpen(e) \in Seq(SimpleSteps)
    BY LogSteps, Zenon
  <1>3. \A a \in SUBSET Resources : \A s \in Seq(SimpleSteps) : Call(a, s) \in Seq(Steps)
    BY Calls, Zenon
  <1>4. /\ Release("addrinfo") \in Seq(SimpleSteps) /\ Release("socket") \in Seq(SimpleSteps)
        /\ Release("winsock") \in Seq(SimpleSteps) /\ Release("ReceivingSocket") \in Seq(SimpleSteps)
    BY <1>2, Zenon DEF Resources
  <1>5. /\ {} \in SUBSET Resources /\ {"addrinfo"} \in SUBSET Resources /\ {"socket"} \in SUBSET Resources
        /\ {"winsock"} \in SUBSET Resources /\ {"bound"} \in SUBSET Resources
    BY DEF Resources
  <1> HIDE DEF Steps, SimpleSteps
  <1>6. /\ LogMessage \o LogMessage \in Seq(SimpleSteps)
        /\ LogMessage \o LogMessage \o Release("addrinfo") \in Seq(SimpleSteps)
        /\ LogMessage \o LogMessage \o Release("socket") \in Seq(SimpleSteps)
        /\ LogMessage \o LogMessage \o Release("addrinfo") \o Release("socket") \in Seq(SimpleSteps)
        /\ Release("socket") \o Release("winsock") \in Seq(SimpleSteps)
        /\ Release("addrinfo") \o Release("socket") \in Seq(SimpleSteps)
        /\ CleanupAndExit \in Seq(SimpleSteps)
    BY <1>1, <1>2, <1>4, Zenon DEF CleanupAndExit
  <1>7. IsPortBusy \in Seq(Steps)
    <2> DEFINE both == LogMessage \o LogMessage
               all == both \o Release("addrinfo") \o Release("socket")
               opened == LogMessage \o Call({"addrinfo"}, both)
                         \o Call({"socket"}, both \o Release("addrinfo"))
               bound == opened \o Call({}, all) \o Call({"bound"}, all)
    <2>1. opened \in Seq(Steps)
      BY <1>1, <1>2, <1>3, <1>5, <1>6, Zenon
    <2> HIDE DEF opened
    <2>2. bound \in Seq(Steps)
      BY <1>1, <1>3, <1>5, <1>6, <2>1, Zenon
    <2> HIDE DEF bound
    <2>3. bound \o Release("addrinfo") \o Call({}, both \o Release("socket"))
             \o Release("socket") \o LogMessage \in Seq(Steps)
      BY <1>1, <1>2, <1>3, <1>4, <1>5, <1>6, <2>2, Zenon
    <2>4. QED
      BY <2>3 DEF IsPortBusy, bound, opened
  <1>8. OpenDGramSocket \in Seq(Steps) /\ OpenReceivingSocket \in Seq(Steps)
    BY <1>1, <1>2, <1>3, <1>4, <1>5, <1>6, Zenon DEF OpenDGramSocket, OpenReceivingSocket
  <1>9. Main \in Seq(Steps) /\ UDPServerInit \in Seq(Steps)
    BY <1>1, <1>2, <1>3, <1>5, <1>6, <1>8, Zenon DEF Main, UDPServerInit
  <1>10. udpServer \in Seq(Steps)
    BY <1>1, <1>2, <1>3, <1>4, <1>5, <1>6, Zenon DEF udpServer
  <1>11. /\ FileLogOpen(FALSE) \o LogMessage \o FileLogClose \o LogMessage \in Seq(Steps)
         /\ FileLogOpen(TRUE) \o LogMessage \o FileLogOpen(TRUE) \o LogMessage \in Seq(Steps)
    <2>1. FileLogOpen(FALSE) \in Seq(SimpleSteps) /\ FileLogOpen(TRUE) \in Seq(SimpleSteps)
      BY <1>2
    <2>2. QED
      BY <1>1, <1>2, <2>1, Zenon
  <1> HIDE DEF IsPortBusy, Main, UDPServerInit, udpServer, FileLogOpen, LogMessage, FileLogClose
  <1> DEFINE logger == FileLogOpen(FALSE) \o LogMessage \o FileLogClose \o LogMessage
             rotator == FileLogOpen(TRUE) \o LogMessage \o FileLogOpen(TRUE) \o LogMessage
  <1>12. logger \in Seq(Steps) /\ rotator \in Seq(Steps)
    BY <1>11
  <1> HIDE DEF logger, rotator
  <1>13. Routines = [IsPortBusy |-> IsPortBusy, Main |-> Main, UDPServerInit |-> UDPServerInit,
                     udpServer |-> udpServer, Logger |-> logger, Rotator |-> rotator]
    BY Zenon DEF Routines, logger, rotator
  <1> DEFINE S == Seq(Steps)
  <1> HIDE DEF S
  <1>14. QED
    <2>1. \A a, b, c, d, e, f \in S :
             LET all == [IsPortBusy |-> a, Main |-> b, UDPServerInit |-> c,
                         udpServer |-> d, Logger |-> e, Rotator |-> f]
             IN  \A r \in DOMAIN all : all[r] \in S
      OBVIOUS
    <2>2. QED
      BY <1>7, <1>9, <1>10, <1>12, <1>13, <2>1, Zenon DEF S

-----------------------------------------------------------------------------
(* Taking a step.                                                          *)

\* The next step outside CreateLogFile, and what follows it.
LEMMA OutsideSteps ==
    ASSUME NEW s, Outside(s), s # <<>>
    PROVE  Head(s) \in Steps /\ Outside(Tail(s))
  BY HeadTailProperties DEF Outside

\* What the steps outside CreateLogFile do.
LEMMA StepKinds ==
    /\ \A e \in Steps : e.do \in {"serve", "write", "close", "mkdir", "release", "if", "call"}
    /\ \A e \in Steps : e.do = "call" => e.otherwise \in Seq(SimpleSteps)
    /\ \A e \in Steps : e.do = "if" =>
          \/ e.test = "open" /\ e.then \in {Step("write"), Step("close")}
          \/ e.test = "not creating" /\ e.then \in Bodies
  <1> DEFINE A == {Step("write"), Step("close")}
             S1 == {[do |-> kind] : kind \in {"serve", "write", "close", "mkdir"}}
             S2 == [do : {"release"}, what : Resources]
             S3 == [do : {"if"}, test : {"open"}, then : A]
             S4 == [do : {"if"}, test : {"not creating"}, then : Bodies]
  <1>1. \A e : e \in Steps <=> e \in S1 \/ e \in S2 \/ e \in S3 \/ e \in S4 \/ e \in CallSteps
    BY Zenon DEF Steps, SimpleSteps
  <1>2. \A e \in S1 : e.do \in {"serve", "write", "close", "mkdir"}
    OBVIOUS
  <1>3. \A e \in S2 : e.do = "release"
    OBVIOUS
  <1> HIDE DEF A
  <1>4. \A e \in S3 : e.do = "if" /\ e.test = "open" /\ e.then \in A
    OBVIOUS
  <1>5. \A e \in S4 : e.do = "if" /\ e.test = "not creating" /\ e.then \in Bodies
    OBVIOUS
  <1> DEFINE Q == Seq(SimpleSteps)
  <1> HIDE DEF Q
  <1>6. \A e \in CallSteps : e.do = "call" /\ e.otherwise \in Q
    BY DEF CallSteps, Q
  <1> HIDE DEF S1, S2, S3, S4
  <1>7. QED
    BY <1>1, <1>2, <1>3, <1>4, <1>5, <1>6 DEF A, Q

\* What the thread does next tells where it is.
LEMMA NextStep ==
    ASSUME NEW s, s # <<>>, Outside(s) \/ Inside(s)
    PROVE  \/ Outside(s) /\ Head(s) \in Steps /\ Outside(Tail(s))
           \/ AtSet(s) /\ Head(s).do = "setFlag"
           \/ AtTest(s) /\ Head(s).do = "if" /\ Head(s).test = "open" /\ Head(s).then = Step("close")
           \/ AtClose(s) /\ Head(s).do = "close"
           \/ AtOpen(s) /\ Head(s).do = "open"
           \/ AtClear(s) /\ Head(s).do = "clearFlag"
  <1>1. CASE Outside(s)
    BY <1>1, OutsideSteps, Zenon
  <1>2. CASE AtTest(s)
    BY <1>2 DEF AtTest, CloseIfOpen
  <1>3. CASE AtSet(s)
    BY <1>3 DEF AtSet
  <1>4. CASE AtClose(s)
    BY <1>4 DEF AtClose
  <1>5. CASE AtOpen(s)
    BY <1>5 DEF AtOpen
  <1>6. CASE AtClear(s)
    BY <1>6 DEF AtClear
  <1>7. QED
    BY <1>1, <1>2, <1>3, <1>4, <1>5, <1>6, Zenon DEF Inside

\* Inside the body the flag is still to be reset.
LEMMA InsideCreates ==
    ASSUME NEW s \in Seq(AllSteps), Inside(s)
    PROVE  \E i \in DOMAIN s : s[i].do = "clearFlag"
  <1> HIDE DEF AllSteps
  <1> DEFINE Clears(r) == \E i \in 1 .. Len(r) : r[i].do = "clearFlag"
  <1>1. ASSUME NEW r \in Seq(AllSteps), r # <<>>
        PROVE  /\ Tail(r) \in Seq(AllSteps) /\ Head(r) = r[1] /\ 1 \in 1 .. Len(r)
               /\ Clears(Tail(r)) => Clears(r)
    BY <1>1
  <1>2. ASSUME NEW r \in Seq(AllSteps), AtClear(r)
        PROVE  Clears(r)
    BY <1>1, <1>2 DEF AtClear
  <1> HIDE DEF Clears
  <1>3. ASSUME NEW r \in Seq(AllSteps), AtOpen(r)
        PROVE  Clears(r)
    BY <1>1, <1>2, <1>3, Zenon DEF AtOpen
  <1>4. ASSUME NEW r \in Seq(AllSteps), AtTest(r) \/ AtClose(r)
        PROVE  Clears(r)
    BY <1>1, <1>3, <1>4, Zenon DEF AtTest, AtClose
  <1>5. ASSUME NEW r \in Seq(AllSteps), AtSet(r)
        PROVE  Clears(r)
    BY <1>1, <1>4, <1>5, Zenon DEF AtSet
  <1>6. Clears(s)
    BY <1>2, <1>3, <1>4, <1>5, Zenon DEF Inside
  <1>7. QED
    BY <1>6 DEF Clears

\* One step put before others.
LEMMA StepBefore ==
    ASSUME NEW e, NEW S, NEW r \in Seq(S)
    PROVE  /\ Head(<<e>> \o r) = e /\ Tail(<<e>> \o r) = r /\ <<e>> \o r # <<>>
  <1>1. r \in Seq(S \cup {e}) /\ <<e>> \in Seq(S \cup {e})
    OBVIOUS
  <1>2. <<e>> \o r \in Seq(S \cup {e}) /\ Len(<<e>> \o r) = 1 + Len(r)
        /\ \A i \in 1 .. 1 + Len(r) : (<<e>> \o r)[i] = IF i <= 1 THEN <<e>>[i] ELSE r[i - 1]
    BY <1>1, ConcatProperties
  <1> DEFINE q == <<e>> \o r
  <1> HIDE DEF q
  <1>3. q # <<>> /\ Head(q) = q[1] /\ Tail(q) \in Seq(S \cup {e}) /\ Len(Tail(q)) = Len(r)
        /\ \A i \in 1 .. Len(r) : Tail(q)[i] = q[i + 1]
    BY <1>2 DEF q
  <1>4. \A i \in 1 .. Len(r) : Tail(q)[i] = r[i]
    BY <1>2, <1>3 DEF q
  <1>5. Tail(q) = r
    BY <1>1, <1>3, <1>4
  <1>6. q[1] = e
    BY <1>2 DEF q
  <1>7. QED
    BY <1>3, <1>5, <1>6 DEF q

Regroups(s, t, u) == (s \o t) \o u = s \o (t \o u)

\* Three pieces may be grouped either way.
LEMMA Grouped ==
    ASSUME NEW S, NEW s \in Seq(S), NEW t \in Seq(S), NEW u \in Seq(S)
    PROVE  Regroups(s, t, u)
  BY DEF Regroups

RegroupsAll(a, b, c, d, w, r) ==
    (a \o b \o c \o d \o w) \o r = a \o (b \o (c \o (d \o (w \o r))))

\* So may six.
LEMMA Regrouped ==
    ASSUME NEW S, NEW a \in Seq(S), NEW b \in Seq(S), NEW c \in Seq(S), NEW d \in Seq(S),
           NEW w \in Seq(S), NEW r \in Seq(S)
    PROVE  RegroupsAll(a, b, c, d, w, r)
  <1> DEFINE ab == a \o b
             abc == ab \o c
             abcd == abc \o d
             wr == w \o r
             dwr == d \o wr
             cdwr == c \o dwr
  <1>1. ab \in Seq(S) /\ wr \in Seq(S)
    BY ConcatProperties
  <1> HIDE DEF ab, wr
  <1>2. abc \in Seq(S) /\ dwr \in Seq(S)
    BY <1>1, ConcatProperties
  <1> HIDE DEF abc, dwr
  <1>3. abcd \in Seq(S) /\ cdwr \in Seq(S)
    BY <1>2, ConcatProperties
  <1> HIDE DEF abcd, cdwr
  <1>4. Regroups(abcd, w, r) /\ Regroups(abc, d, wr) /\ Regroups(ab, c, dwr) /\ Regroups(a, b, cdwr)
    BY <1>1, <1>2, <1>3, Grouped, Zenon
  <1>5. (abcd \o w) \o r = abcd \o wr
    BY <1>4, Zenon DEF Regroups, wr
  <1>6. abcd \o wr = abc \o dwr
    BY <1>4, Zenon DEF Regroups, abcd, dwr
  <1>7. abc \o dwr = ab \o cdwr
    BY <1>4, Zenon DEF Regroups, abc, cdwr
  <1>8. ab \o cdwr = a \o (b \o cdwr)
    BY <1>4, Zenon DEF Regroups, ab
  <1>9. QED
    BY <1>5, <1>6, <1>7, <1>8, Zenon DEF RegroupsAll, ab, abc, abcd, wr, dwr, cdwr

\* Its first steps lead a thread into the body.
LEMMA Entering ==
    ASSUME NEW body \in Bodies, NEW r \in Seq(Steps)
    PROVE  AtSet(body \o r) /\ body \o r \in Seq(AllSteps)
  <1> DEFINE a == <<[do |-> "setFlag"]>>
             b == <<CloseIfOpen>>
             c == <<[do |-> "open"]>>
             d == <<[do |-> "clearFlag"]>>
  <1>1. PICK w \in Seq(Steps) : body = Creation \o w
    <2>1. <<>> \in Seq(Steps) /\ Step("write") \in Seq(Steps)
      <3>1. [do |-> "write"] \in SimpleSteps
        BY Zenon DEF SimpleSteps
      <3>2. QED
        BY <3>1, Sequences, Zenon DEF Step
    <2>2. QED
      BY <2>1, Zenon DEF Bodies
  <1>2. a \in Seq(AllSteps) /\ b \in Seq(AllSteps) /\ c \in Seq(AllSteps) /\ d \in Seq(AllSteps)
    <2>1. /\ [do |-> "setFlag"] \in AllSteps /\ [do |-> "open"] \in AllSteps
          /\ [do |-> "clearFlag"] \in AllSteps
      BY Zenon DEF AllSteps
    <2>2. CloseIfOpen \in AllSteps
      <3>1. CloseIfOpen \in [do : {"if"}, test : {"open"}, then : {Step("write"), Step("close")}]
        BY DEF CloseIfOpen
      <3>2. QED
        BY <3>1, Zenon DEF AllSteps, Steps, SimpleSteps
    <2> HIDE DEF AllSteps, CloseIfOpen
    <2>3. \A e \in AllSteps : <<e>> \in Seq(AllSteps)
      OBVIOUS
    <2>4. QED
      BY <2>1, <2>2, <2>3, Zenon
  <1>3. w \in Seq(AllSteps) /\ r \in Seq(AllSteps) /\ w \o r \in Seq(Steps) /\ w \o r \in Seq(AllSteps)
    <2>1. Steps \subseteq AllSteps
      BY DEF AllSteps
    <2>2. w \o r \in Seq(Steps)
      BY Sequences, Zenon
    <2> HIDE DEF Steps, AllSteps
    <2>3. \A s \in Seq(Steps) : s \in Seq(AllSteps)
      BY <2>1
    <2>4. QED
      BY <2>2, <2>3, Zenon
  <1> HIDE DEF Steps, AllSteps, a, b, c, d
  <1>4. body \o r = a \o (b \o (c \o (d \o (w \o r))))
    <2>1. body = a \o b \o c \o d \o w
      BY <1>1, Zenon DEF Creation, Step, a, b, c, d
    <2>2. RegroupsAll(a, b, c, d, w, r)
      BY <1>2, <1>3, Regrouped, Zenon
    <2>3. QED
      BY <2>1, <2>2, Zenon DEF RegroupsAll
  <1>5. d \o (w \o r) \in Seq(AllSteps) /\ AtClear(d \o (w \o r))
    <2>1. d \o (w \o r) \in Seq(AllSteps)
      BY <1>2, <1>3, ConcatProperties
    <2>2. QED
      BY <1>3, <2>1, StepBefore, Zenon DEF AtClear, Outside, d
  <1> DEFINE s == d \o (w \o r)
  <1> HIDE DEF s
  <1>6. c \o s \in Seq(AllSteps) /\ AtOpen(c \o s)
    <2>1. c \o s \in Seq(AllSteps)
      BY <1>2, <1>5, ConcatProperties DEF s
    <2>2. QED
      BY <1>5, <2>1, StepBefore, Zenon DEF AtOpen, c, s
  <1>7. b \o (c \o s) \in Seq(AllSteps) /\ AtTest(b \o (c \o s))
    <2>1. b \o (c \o s) \in Seq(AllSteps)
      BY <1>2, <1>6, ConcatProperties
    <2>2. QED
      BY <1>6, <2>1, StepBefore, Zenon DEF AtTest, b
  <1>8. a \o (b \o (c \o s)) \in Seq(AllSteps) /\ AtSet(a \o (b \o (c \o s)))
    <2>1. a \o (b \o (c \o s)) \in Seq(AllSteps)
      BY <1>2, <1>7, ConcatProperties
    <2>2. QED
      BY <1>7, <2>1, StepBefore, Zenon DEF AtSet, a
  <1>9. QED
    BY <1>4, <1>8, Zenon DEF s

-----------------------------------------------------------------------------
(* The invariant is kept.                                                  *)

\* Steps outside the body are steps.
LEMMA OutsideType ==
    /\ Seq(Steps) \subseteq Seq(AllSteps) /\ Seq(SimpleSteps) \subseteq Seq(Steps)
    /\ \A s : Outside(s) => s \in Seq(AllSteps)
  <1>1. Steps \subseteq AllSteps /\ SimpleSteps \subseteq Steps
    BY DEF AllSteps, Steps
  <1> HIDE DEF Steps, AllSteps, SimpleSteps
  <1>2. \A S, T : S \subseteq T => \A s \in Seq(S) : s \in Seq(T)
    OBVIOUS
  <1>3. QED
    BY <1>1, <1>2, Zenon DEF Outside

\* A thread is outside or inside, never both.
LEMMA OutsideInside ==
    ASSUME NEW s, Outside(s)
    PROVE  ~Inside(s)
  <1> SUFFICES ASSUME Inside(s) PROVE FALSE
    OBVIOUS
  <1>1. s # <<>>
    BY Zenon DEF Inside, AtSet, AtTest, AtClose, AtOpen, AtClear
  <1>2. Head(s) \in Steps /\ Outside(Tail(s))
    BY <1>1, OutsideSteps, Zenon
  <1>3. \A e \in Steps : e.do \in {"serve", "write", "close", "mkdir", "release", "if", "call"}
    BY StepKinds, Zenon
  <1>4. \A r : Outside(r) /\ r # <<>> => Head(r).do \in {"serve", "write", "close", "mkdir", "release", "if", "call"}
    BY <1>3, OutsideSteps, Zenon
  <1>5. \A r : AtClear(r) \/ AtOpen(r) => r # <<>> /\ Head(r).do \in {"open", "clearFlag"}
    BY DEF AtClear, AtOpen
  <1>6. \A r : AtClear(r) \/ AtOpen(r) => ~Outside(r)
    BY <1>4, <1>5
  <1>7. AtSet(s) => Head(s).do = "setFlag"
    BY DEF AtSet
  <1>8. ~AtSet(s)
    BY <1>1, <1>4, <1>7
  <1>9. ~AtTest(s) /\ ~AtClose(s)
    BY <1>2, <1>6, Zenon DEF AtTest, AtClose
  <1>10. QED
    BY <1>6, <1>8, <1>9, Zenon DEF Inside

\* At the start nobody is in CreateLogFile.
LEMMA InvInit == Init => Inv
  <1> SUFFICES ASSUME Init PROVE Inv
    OBVIOUS
  <1>1. \A t \in Threads : Outside(todo[t])
    <2>1. \A t \in Threads : routine[t] \in DOMAIN Routines /\ todo[t] = Routines[routine[t]]
      BY DEF Init
    <2>2. QED
      BY <2>1, RoutineSteps, Zenon DEF Outside
  <1>2. \A t \in Threads : ~Inside(todo[t])
    BY <1>1, OutsideInside, Zenon
  <1>3. \A t \in Threads : todo[t] \in Seq(AllSteps)
    BY <1>1, OutsideType, Zenon
  <1>4. todo = [t \in Threads |-> todo[t]]
    BY DEF Init
  <1> HIDE DEF AllSteps
  <1>5. PlaceInv
    BY <1>1, <1>3, <1>4 DEF PlaceInv
  <1>6. raced = FALSE /\ loggingFile = "closed"
    BY DEF Init
  <1>7. \A t \in Threads : ~AtOpen(todo[t])
    BY <1>2, Zenon DEF Inside
  <1>8. StreamInv
    BY <1>2, <1>6, <1>7 DEF StreamInv
  <1>9. QED
    BY <1>5, <1>8 DEF Inv

\* A thread takes a step: it does not enter the body, and if it is about to
\* open the stream then it has closed it or found it closed.
LEMMA Moved ==
    ASSUME Inv, NEW t \in Threads, NEW s \in Seq(AllSteps), todo[t] # <<>>,
           Outside(s) \/ (Inside(s) /\ Inside(todo[t])),
           todo' = [todo EXCEPT ![t] = s], raced' = raced,
           ~raced => \/ loggingFile' = "closed"
                     \/ loggingFile' = loggingFile /\ ~AtOpen(s)
                     \/ loggingFile' = "open" /\ Inside(todo[t]) /\ ~AtOpen(s)
    PROVE  Inv'
  <1>1. /\ todo \in [Threads -> Seq(AllSteps)]
        /\ \A u \in Threads : Outside(todo[u]) \/ Inside(todo[u])
        /\ raced \in BOOLEAN
    BY DEF Inv, PlaceInv, StreamInv
  <1> HIDE DEF AllSteps
  <1>2. /\ todo' \in [Threads -> Seq(AllSteps)] /\ todo'[t] = s
        /\ \A u \in Threads : u # t => todo'[u] = todo[u]
    BY <1>1
  <1>3. PlaceInv'
    BY <1>1, <1>2 DEF PlaceInv
  <1>4. ASSUME NEW u \in Threads, Inside(todo'[u])
        PROVE  Inside(todo[u])
    BY <1>2, <1>4, OutsideInside, Zenon
  <1>5. ASSUME ~raced
        PROVE  /\ \A u, v \in Threads : Inside(todo'[u]) /\ Inside(todo'[v]) => u = v
               /\ \A u \in Threads : AtOpen(todo'[u]) => loggingFile' = "closed"
               /\ loggingFile' # "failed"
    <2>1. /\ \A u, v \in Threads : Inside(todo[u]) /\ Inside(todo[v]) => u = v
          /\ \A u \in Threads : AtOpen(todo[u]) => loggingFile = "closed"
          /\ loggingFile # "failed"
      BY <1>5, Zenon DEF Inv, StreamInv
    <2>2. \A u, v \in Threads : Inside(todo'[u]) /\ Inside(todo'[v]) => u = v
      BY <1>4, <2>1, Zenon
    <2>3. loggingFile' # "failed"
      BY <1>5, <2>1
    <2>4. ASSUME NEW u \in Threads, AtOpen(todo'[u])
          PROVE  loggingFile' = "closed"
      <3>1. CASE u = t
        BY <1>2, <1>5, <2>4, <3>1
      <3>2. CASE u # t
        <4>1. AtOpen(todo[u]) /\ Inside(todo[u])
          BY <1>2, <2>4, <3>2, Zenon DEF Inside
        <4>2. loggingFile = "closed" /\ ~Inside(todo[t])
          BY <2>1, <3>2, <4>1, Zenon
        <4>3. QED
          BY <1>5, <4>2
      <3>3. QED
        BY <3>1, <3>2
    <2>5. QED
      BY <2>2, <2>3, <2>4
  <1>6. StreamInv'
    BY <1>1, <1>5 DEF StreamInv
  <1>7. QED
    BY <1>3, <1>6 DEF Inv

\* What a thread that is about to take a step has before it.
LEMMA Taking ==
    ASSUME Inv, NEW t \in Threads, todo[t] # <<>>
    PROVE  /\ todo[t] \in Seq(AllSteps) /\ Tail(todo[t]) \in Seq(AllSteps)
           /\ Outside(todo[t]) \/ Inside(todo[t])
           /\ \/ Outside(todo[t]) /\ Head(todo[t]) \in Steps /\ Outside(Tail(todo[t]))
              \/ AtSet(todo[t]) /\ Head(todo[t]).do = "setFlag"
              \/ /\ AtTest(todo[t]) /\ Head(todo[t]).do = "if"
                 /\ Head(todo[t]).test = "open" /\ Head(todo[t]).then = Step("close")
              \/ AtClose(todo[t]) /\ Head(todo[t]).do = "close"
              \/ AtOpen(todo[t]) /\ Head(todo[t]).do = "open"
              \/ AtClear(todo[t]) /\ Head(todo[t]).do = "clearFlag"
  <1>1. todo[t] \in Seq(AllSteps) /\ (Outside(todo[t]) \/ Inside(todo[t]))
    BY DEF Inv, PlaceInv
  <1> HIDE DEF AllSteps
  <1>2. Tail(todo[t]) \in Seq(AllSteps)
    BY <1>1
  <1>3. QED
    BY <1>1, <1>2, NextStep, Zenon

\* Steps of other kinds are taken outside.
LEMMA OtherSteps ==
    ASSUME Inv, NEW t \in Threads, todo[t] # <<>>,
           Head(todo[t]).do \in {"call", "release", "mkdir", "write"}
    PROVE  Outside(todo[t]) /\ Head(todo[t]) \in Steps /\ Outside(Tail(todo[t]))
  BY Taking

\* A step that no log is touched by, taken outside, to steps outside.
LEMMA QuietStep ==
    ASSUME Inv, NEW t \in Threads, NEW s, Outside(s), todo[t] # <<>>,
           todo' = [todo EXCEPT ![t] = s], raced' = raced, loggingFile' = loggingFile
    PROVE  Inv'
  <1>1. s \in Seq(AllSteps)
    BY OutsideType, Zenon
  <1>2. ~AtOpen(s)
    BY OutsideInside, Zenon DEF Inside
  <1>3. QED
    BY <1>1, <1>2, Moved, Zenon

\* Calls, releases and what is written.
LEMMA CallInv ==
    ASSUME Inv, NEW t \in Threads, Succeed(t) \/ Fail(t) \/ ReleaseHeld(t) \/ MakeDirectory(t) \/ Write(t)
    PROVE  Inv'
  <1>1. CASE Fail(t)
    <2>1. /\ todo[t] # <<>> /\ Head(todo[t]).do = "call"
          /\ todo' = [todo EXCEPT ![t] = Head(todo[t]).otherwise] /\ UNCHANGED logVars
      <3>1. todo' = [todo EXCEPT ![t] = Head(@).otherwise]
        BY <1>1 DEF Fail
      <3>2. [todo EXCEPT ![t] = Head(@).otherwise] = [todo EXCEPT ![t] = Head(todo[t]).otherwise]
        BY DEF Inv, PlaceInv
      <3>3. QED
        BY <1>1, <3>1, <3>2, Zenon DEF Fail, At
    <2>2. Outside(Head(todo[t]).otherwise)
      <3>1. Head(todo[t]) \in Steps
        BY <2>1, OtherSteps
      <3>2. Head(todo[t]).otherwise \in Seq(SimpleSteps)
        BY <2>1, <3>1, StepKinds, Zenon
      <3>3. QED
        BY <3>2, OutsideType, Zenon DEF Outside
    <2>3. QED
      BY <2>1, <2>2, QuietStep, Zenon DEF logVars
  <1>2. CASE Succeed(t) \/ ReleaseHeld(t) \/ MakeDirectory(t) \/ Write(t)
    <2>1. /\ todo[t] # <<>> /\ Head(todo[t]).do \in {"call", "release", "mkdir", "write"}
          /\ Advance(t) /\ raced' = raced /\ loggingFile' = loggingFile
      <3>1. CASE Succeed(t)
        BY <3>1 DEF Succeed, At, logVars
      <3>2. CASE ReleaseHeld(t)
        BY <3>2 DEF ReleaseHeld, At, logVars
      <3>3. CASE MakeDirectory(t)
        BY <3>3 DEF MakeDirectory, At
      <3>4. CASE Write(t)
        BY <3>4 DEF Write, At, logVars
      <3>5. QED
        BY <1>2, <3>1, <3>2, <3>3, <3>4
    <2>2. todo' = [todo EXCEPT ![t] = Tail(todo[t])]
      BY <2>1 DEF Advance, Inv, PlaceInv
    <2>3. Outside(Tail(todo[t]))
      BY <2>1, OtherSteps
    <2>4. QED
      BY <2>1, <2>2, <2>3, QuietStep, Zenon
  <1>3. QED
    BY <1>1, <1>2

\* Setting the flag, and resetting it.
LEMMA FlagInv ==
    ASSUME Inv, NEW t \in Threads, SetFlag(t, "setFlag", TRUE) \/ SetFlag(t, "clearFlag", FALSE)
    PROVE  Inv'
  <1>1. /\ todo[t] # <<>> /\ Head(todo[t]).do \in {"setFlag", "clearFlag"}
        /\ Advance(t) /\ raced' = raced /\ loggingFile' = loggingFile
    BY DEF SetFlag, At
  <1>2. todo' = [todo EXCEPT ![t] = Tail(todo[t])]
    BY <1>1 DEF Advance, Inv, PlaceInv
  <1>3. AtSet(todo[t]) \/ AtClear(todo[t])
    <2>1. \A e \in Steps : e.do \notin {"setFlag", "clearFlag"}
      BY StepKinds
    <2>2. QED
      BY <1>1, <2>1, Taking
  <1>4. CASE AtClear(todo[t])
    <2>1. Outside(Tail(todo[t]))
      BY <1>4 DEF AtClear
    <2>2. QED
      BY <1>1, <1>2, <2>1, QuietStep, Zenon
  <1>5. CASE AtSet(todo[t])
    <2>1. AtTest(Tail(todo[t]))
      BY <1>5 DEF AtSet
    <2>2. ~AtOpen(Tail(todo[t]))
      BY <2>1 DEF AtTest, AtOpen, CloseIfOpen
    <2>3. Inside(Tail(todo[t])) /\ Inside(todo[t])
      BY <1>5, <2>1, Zenon DEF Inside
    <2>4. Tail(todo[t]) \in Seq(AllSteps)
      BY <1>1, Taking, Zenon
    <2>5. QED
      BY <1>1, <1>2, <2>2, <2>3, <2>4, Moved, Zenon
  <1>6. QED
    BY <1>3, <1>4, <1>5

\* Opening the stream: the thread is alone in the body and the stream closed.
LEMMA OpenInv ==
    ASSUME Inv, NEW t \in Threads, OpenStream(t)
    PROVE  Inv'
  <1>1. /\ todo[t] # <<>> /\ Head(todo[t]).do = "open" /\ Advance(t) /\ raced' = raced
        /\ loggingFile = "closed" => loggingFile' \in {"open", "closed"}
    BY DEF OpenStream, At
  <1>2. todo' = [todo EXCEPT ![t] = Tail(todo[t])]
    BY <1>1 DEF Advance, Inv, PlaceInv
  <1>3. AtOpen(todo[t])
    <2>1. \A e \in Steps : e.do # "open"
      BY StepKinds
    <2>2. QED
      BY <1>1, <2>1, Taking
  <1>4. AtClear(Tail(todo[t]))
    BY <1>3 DEF AtOpen
  <1>5. ~AtOpen(Tail(todo[t]))
    BY <1>4 DEF AtClear, AtOpen
  <1>6. Inside(Tail(todo[t])) /\ Inside(todo[t])
    BY <1>3, <1>4, Zenon DEF Inside
  <1>7. Tail(todo[t]) \in Seq(AllSteps)
    BY <1>1, Taking, Zenon
  <1>8. ~raced => loggingFile = "closed"
    BY <1>3, Zenon DEF Inv, StreamInv
  <1>9. ~raced => loggingFile' = "open" \/ loggingFile' = "closed"
    BY <1>1, <1>8
  <1>10. QED
    BY <1>1, <1>2, <1>5, <1>6, <1>7, <1>9, Moved, Zenon

\* Closing it does no harm, wherever it is done.
LEMMA CloseInv ==
    ASSUME Inv, NEW t \in Threads, CloseStream(t)
    PROVE  Inv'
  <1>1. /\ todo[t] # <<>> /\ Head(todo[t]).do = "close" /\ Advance(t) /\ raced' = raced
        /\ loggingFile' = "closed"
    BY DEF CloseStream, At
  <1>2. todo' = [todo EXCEPT ![t] = Tail(todo[t])]
    BY <1>1 DEF Advance, Inv, PlaceInv
  <1>3. Outside(Tail(todo[t])) \/ (Inside(Tail(todo[t])) /\ Inside(todo[t]))
    <2>1. Outside(Tail(todo[t])) \/ AtClose(todo[t])
      BY <1>1, Taking
    <2>2. AtClose(todo[t]) => AtOpen(Tail(todo[t]))
      BY DEF AtClose
    <2>3. QED
      BY <2>1, <2>2, Zenon DEF Inside
  <1>4. Tail(todo[t]) \in Seq(AllSteps)
    BY <1>1, Taking, Zenon
  <1>5. QED
    BY <1>1, <1>2, <1>3, <1>4, Moved, Zenon

\* A test: of the stream before a message is written or the stream closed,
\* outside or in the body, or of the flag.
LEMMA TestInv ==
    ASSUME Inv, NEW t \in Threads, Test(t)
    PROVE  Inv'
  <1> DEFINE step == Head(todo[t])
             rest == Tail(todo[t])
             steps == IF Holds(step.test) THEN step.then ELSE <<>>
  <1>1. /\ todo[t] # <<>> /\ step.do = "if" /\ loggingFile' = loggingFile
        /\ raced' = (raced \/ (step.test = "not creating" /\ ~isCreatingFile
                               /\ \E u \in Threads \ {t} : Creating(u)))
    BY DEF Test, At
  <1>2. todo' = [todo EXCEPT ![t] = steps \o rest]
    <2>1. todo' = [todo EXCEPT ![t] = steps \o Tail(@)]
      BY DEF Test
    <2>2. QED
      BY <2>1 DEF Inv, PlaceInv
  <1>3. /\ rest \in Seq(AllSteps)
        /\ \/ Outside(todo[t]) /\ step \in Steps /\ Outside(rest)
           \/ AtTest(todo[t]) /\ step.test = "open" /\ step.then = Step("close")
    BY <1>1, Taking
  <1>4. <<>> \o rest = rest
    <2> HIDE DEF AllSteps, rest
    <2>1. QED
      BY <1>3
  <1>5. CASE AtTest(todo[t]) /\ step.test = "open" /\ step.then = Step("close")
    <2>1. AtOpen(rest)
      BY <1>5 DEF AtTest
    <2>2. raced' = raced
      BY <1>1, <1>5 DEF Inv, StreamInv
    <2>3. Inside(todo[t]) /\ Inside(rest)
      BY <1>5, <2>1, Zenon DEF Inside
    <2>4. CASE loggingFile = "closed"
      <3>1. todo' = [todo EXCEPT ![t] = rest]
        <4>1. steps = <<>>
          BY <1>5, <2>4 DEF Holds
        <4>2. QED
          BY <1>2, <1>4, <4>1, Zenon
      <3>2. QED
        BY <1>1, <1>3, <2>2, <2>3, <2>4, <3>1, Moved, Zenon
    <2>5. CASE loggingFile # "closed"
      <3> DEFINE s == <<[do |-> "close"]>> \o rest
      <3>1. todo' = [todo EXCEPT ![t] = s]
        <4>1. steps = <<[do |-> "close"]>>
          BY <1>5, <2>5 DEF Holds, Step
        <4>2. QED
          BY <1>2, <4>1, Zenon
      <3>2. s \in Seq(AllSteps)
        <4>1. [do |-> "close"] \in AllSteps
          BY Zenon DEF AllSteps, Steps, SimpleSteps
        <4> HIDE DEF AllSteps, rest
        <4>2. <<[do |-> "close"]>> \in Seq(AllSteps)
          BY <4>1
        <4>3. QED
          BY <1>3, <4>2, ConcatProperties
      <3>3. Head(s) = [do |-> "close"] /\ Tail(s) = rest /\ s # <<>>
        BY <1>3, StepBefore, Zenon
      <3> HIDE DEF s
      <3>4. AtClose(s)
        BY <2>1, <3>3, Zenon DEF AtClose
      <3>5. ~AtOpen(s)
        BY <3>3 DEF AtOpen
      <3>6. Inside(s)
        BY <3>4, Zenon DEF Inside
      <3>7. QED
        BY <1>1, <2>2, <2>3, <3>1, <3>2, <3>5, <3>6, Moved, Zenon
    <2>6. QED
      BY <2>4, <2>5
  <1>6. CASE Outside(todo[t]) /\ step \in Steps /\ Outside(rest)
    <2>1. \/ step.test = "open" /\ step.then \in {Step("write"), Step("close")}
          \/ step.test = "not creating" /\ step.then \in Bodies
      BY <1>1, <1>6, StepKinds, Zenon
    <2>2. CASE step.test = "open" /\ step.then \in {Step("write"), Step("close")}
      <3>1. raced' = raced
        BY <1>1, <2>2 DEF Inv, StreamInv
      <3>2. steps \in Seq(Steps)
        <4>1. /\ [do |-> "write"] \in SimpleSteps /\ [do |-> "close"] \in SimpleSteps
          BY Zenon DEF SimpleSteps
        <4>2. Step("write") \in Seq(Steps) /\ Step("close") \in Seq(Steps) /\ <<>> \in Seq(Steps)
          BY <4>1, Sequences, Zenon DEF Step
        <4>3. QED
          BY <2>2, <4>2, Zenon
      <3>3. Outside(steps \o rest)
        BY <1>6, <3>2, Sequences, Zenon DEF Outside
      <3>4. QED
        BY <1>1, <1>2, <3>1, <3>3, QuietStep, Zenon
    <2>3. CASE step.test = "not creating" /\ isCreatingFile
      <3>1. raced' = raced
        BY <1>1, <2>3 DEF Inv, StreamInv
      <3>2. steps = <<>>
        BY <2>3 DEF Holds
      <3>3. todo' = [todo EXCEPT ![t] = rest]
        BY <1>2, <1>4, <3>2, Zenon
      <3>4. QED
        BY <1>1, <1>6, <3>1, <3>3, QuietStep, Zenon
    <2>4. CASE step.test = "not creating" /\ step.then \in Bodies /\ ~isCreatingFile
      <3> DEFINE s == step.then \o rest
      <3>1. steps = step.then
        BY <2>4 DEF Holds
      <3>2. todo' = [todo EXCEPT ![t] = s]
        BY <1>2, <3>1, Zenon
      <3>3. AtSet(s) /\ s \in Seq(AllSteps)
        BY <1>6, <2>4, Entering, Zenon DEF Outside
      <3> HIDE DEF s, step, rest, steps
      <3>4. ~AtOpen(s)
        BY <3>3 DEF AtSet, AtOpen
      <3>5. /\ todo \in [Threads -> Seq(AllSteps)] /\ raced \in BOOLEAN
            /\ \A u \in Threads : Outside(todo[u]) \/ Inside(todo[u])
        BY DEF Inv, PlaceInv, StreamInv
      <3> HIDE DEF AllSteps
      <3>6. /\ todo' \in [Threads -> Seq(AllSteps)] /\ todo'[t] = s
            /\ \A u \in Threads : u # t => todo'[u] = todo[u]
        BY <3>2, <3>3, <3>5
      <3>7. Inside(s)
        BY <3>3, Zenon DEF Inside
      <3>8. PlaceInv'
        BY <3>5, <3>6, <3>7 DEF PlaceInv
      <3>9. raced' \in BOOLEAN
        BY <1>1
      <3>10. ASSUME ~raced'
             PROVE  /\ \A u, v \in Threads : Inside(todo'[u]) /\ Inside(todo'[v]) => u = v
                    /\ \A u \in Threads : AtOpen(todo'[u]) => loggingFile' = "closed"
                    /\ loggingFile' # "failed"
        <4>1. ~raced /\ \A u \in Threads : u # t => ~Creating(u)
          BY <1>1, <2>4, <3>10
        <4>2. \A u \in Threads : u # t => ~Inside(todo[u])
          BY <3>5, <4>1, InsideCreates, Zenon DEF Creating
        <4>3. \A u \in Threads : u # t => ~Inside(todo'[u])
          BY <3>6, <4>2, Zenon
        <4>4. \A u \in Threads : ~AtOpen(todo'[u])
          BY <3>4, <3>6, <4>3, Zenon DEF Inside
        <4>5. loggingFile # "failed"
          BY <4>1, Zenon DEF Inv, StreamInv
        <4>6. QED
          BY <1>1, <4>3, <4>4, <4>5, Zenon
      <3>11. StreamInv'
        BY <3>9, <3>10 DEF StreamInv
      <3>12. QED
        BY <3>8, <3>11 DEF Inv
    <2>5. QED
      BY <2>1, <2>2, <2>3, <2>4
  <1>7. QED
    BY <1>3, <1>5, <1>6

\* Every step keeps the invariant.
LEMMA NextInv == Inv /\ [Next]_vars => Inv'
  <1> SUFFICES ASSUME Inv, [Next]_vars PROVE Inv'
    OBVIOUS
  <1>1. CASE UNCHANGED vars
    BY <1>1 DEF vars, logVars, Inv, PlaceInv, StreamInv
  <1>2. ASSUME NEW t \in Threads, Run(t)
        PROVE  Inv'
    BY <1>2, CallInv, FlagInv, OpenInv, CloseInv, TestInv, Zenon DEF Run
  <1>3. QED
    BY <1>1, <1>2 DEF Next

-----------------------------------------------------------------------------
(* What a routine holds.                                                   *)

Holdings == SUBSET {"addrinfo", "winsock", "socket", "bound"}

\* What may be held with the steps s left: with nothing left, or before a
\* release, by the tidy routines too.
Right(tidy, s, h) ==
    /\ h \in Holdings
    /\ "bound" \in h => "socket" \in h
    /\ s # <<>> /\ Head(s).do = "serve" => {"winsock", "bound"} \subseteq h
    /\ tidy => /\ s = <<>> => h = {}
               /\ s # <<>> /\ Head(s).do = "release" => Head(s).what \in h

Without(h, r) == h \ (IF r = "socket" THEN {r, "bound"} ELSE {r})

LogKinds == {"mkdir", "setFlag", "open", "close", "clearFlag", "write"}

\* With s left and h held, one step leaves q and holds k.
Goes(s, h, q, k) ==
    /\ s # <<>>
    /\ \/ Head(s).do = "call" /\ q = Tail(s) /\ k = h \cup Head(s).acquires
       \/ Head(s).do = "call" /\ q = Head(s).otherwise /\ k = h
       \/ Head(s).do = "release" /\ q = Tail(s) /\ k = Without(h, Head(s).what)
       \/ Head(s).do = "if" /\ q \in {Head(s).then \o Tail(s), <<>> \o Tail(s)} /\ k = h
       \/ Head(s).do \in LogKinds /\ q = Tail(s) /\ k = h

\* It stays right whatever succeeds and fails from here on.
Closed(tidy, W) ==
    \A s, h : <<s, h>> \in W => /\ Right(tidy, s, h)
                                /\ \A q, k : Goes(s, h, q, k) => <<q, k>> \in W
Safe(tidy, s, h) == \E W : <<s, h>> \in W /\ Closed(tidy, W)

\* Steps s lead from holding h to holding k: they are safe before whatever is
\* safe with k.
IsSequence(s) == \E S : s \in Seq(S)
Leads(tidy, s, h, k) ==
    /\ IsSequence(s)
    /\ \A q : IsSequence(q) /\ Safe(tidy, q, k) => Safe(tidy, s \o q, h)

\* What is safe stays safe.
LEMMA SafeGoes ==
    ASSUME NEW tidy, NEW s, NEW h, Safe(tidy, s, h)
    PROVE  Right(tidy, s, h) /\ \A q, k : Goes(s, h, q, k) => Safe(tidy, q, k)
  BY Zenon DEF Safe, Closed

\* A step leads to one of two states.
GoesTo(s, h, q1, k1, q2, k2) ==
    \A q, k : Goes(s, h, q, k) => (q = q1 /\ k = k1) \/ (q = q2 /\ k = k2)

\* What is right and can go to safe states only is safe.
LEMMA SafeBefore ==
    ASSUME NEW tidy, NEW s, NEW h, Right(tidy, s, h),
           NEW q1, NEW k1, Safe(tidy, q1, k1), NEW q2, NEW k2, Safe(tidy, q2, k2),
           GoesTo(s, h, q1, k1, q2, k2)
    PROVE  Safe(tidy, s, h)
  <1>1. PICK W1 : <<q1, k1>> \in W1 /\ Closed(tidy, W1)
    BY Zenon DEF Safe
  <1>2. PICK W2 : <<q2, k2>> \in W2 /\ Closed(tidy, W2)
    BY Zenon DEF Safe
  <1> DEFINE W == W1 \cup W2 \cup {<<s, h>>}
  <1>3. ASSUME NEW r, NEW g, <<r, g>> \in W
        PROVE  Right(tidy, r, g) /\ \A q, k : Goes(r, g, q, k) => <<q, k>> \in W
    <2>1. CASE <<r, g>> \in W1
      BY <1>1, <2>1, Zenon DEF Closed
    <2>2. CASE <<r, g>> \in W2
      BY <1>2, <2>2, Zenon DEF Closed
    <2>3. CASE r = s /\ g = h
      BY <1>1, <1>2, <2>3, Zenon DEF GoesTo
    <2>4. <<r, g>> = <<s, h>> => r = s /\ g = h
      OBVIOUS
    <2>5. QED
      BY <1>3, <2>1, <2>2, <2>3, <2>4, Zenon
  <1> HIDE DEF W
  <1>4. Closed(tidy, W)
    BY <1>3, Zenon DEF Closed
  <1>5. <<s, h>> \in W
    BY Zenon DEF W
  <1>6. QED
    BY <1>4, <1>5, Zenon DEF Safe

\* The same with one state to go to.
LEMMA SafeBeforeOne ==
    ASSUME NEW tidy, NEW s, NEW h, Right(tidy, s, h), NEW q1, NEW k1, Safe(tidy, q1, k1),
           \A q, k : Goes(s, h, q, k) => q = q1 /\ k = k1
    PROVE  Safe(tidy, s, h)
  <1>1. GoesTo(s, h, q1, k1, q1, k1)
    BY DEF GoesTo
  <1>2. QED
    BY <1>1, SafeBefore, Zenon

\* Sequences are put together.
LEMMA SequenceLaws ==
    /\ \A e : IsSequence(<<e>>) /\ IsSequence(<<>>)
    /\ \A s, q : IsSequence(s) /\ IsSequence(q) => IsSequence(s \o q)
    /\ \A s : IsSequence(s) => <<>> \o s = s /\ s \o <<>> = s
    /\ \A e, q : IsSequence(q) => /\ <<e>> \o q # <<>> /\ Head(<<e>> \o q) = e /\ Tail(<<e>> \o q) = q
    /\ \A s, q, r : IsSequence(s) /\ IsSequence(q) /\ IsSequence(r) => Regroups(s, q, r)
  <1>1. \A e : <<e>> \in Seq({e}) /\ <<>> \in Seq({e})
    OBVIOUS
  <1>2. \A S, T : \A s \in Seq(S), q \in Seq(T) :
           s \in Seq(S \cup T) /\ q \in Seq(S \cup T) /\ s \o q \in Seq(S \cup T)
    <2>1. \A S, T : \A s \in Seq(S), q \in Seq(T) : s \in Seq(S \cup T) /\ q \in Seq(S \cup T)
      OBVIOUS
    <2>2. \A S : \A s, q \in Seq(S) : s \o q \in Seq(S)
      OBVIOUS
    <2>3. QED
      BY <2>1, <2>2, Zenon
  <1>3. \A S : \A s \in Seq(S) : <<>> \o s = s /\ s \o <<>> = s
    OBVIOUS
  <1>4. ASSUME NEW s, NEW q, NEW r, IsSequence(s), IsSequence(q), IsSequence(r)
        PROVE  Regroups(s, q, r)
    <2>1. PICK S : s \in Seq(S)
      BY <1>4, Zenon DEF IsSequence
    <2>2. PICK T : q \in Seq(T)
      BY <1>4, Zenon DEF IsSequence
    <2>3. PICK R : r \in Seq(R)
      BY <1>4, Zenon DEF IsSequence
    <2> DEFINE A == S \cup T \cup R
    <2>4. s \in Seq(A) /\ q \in Seq(A) /\ r \in Seq(A)
      BY <2>1, <2>2, <2>3
    <2> HIDE DEF A
    <2>5. QED
      BY <2>4, Grouped, Zenon
  <1>5. QED
    BY <1>1, <1>2, <1>3, <1>4, StepBefore, Zenon DEF IsSequence

\* What goes nowhere is safe if it is right.
LEMMA SafeEnd ==
    ASSUME NEW tidy, NEW s, NEW h, Right(tidy, s, h), \A q, k : ~Goes(s, h, q, k)
    PROVE  Safe(tidy, s, h)
  <1> DEFINE W == {<<s, h>>}
  <1>1. \A r, g : <<r, g>> \in W => r = s /\ g = h
    OBVIOUS
  <1>2. <<s, h>> \in W
    OBVIOUS
  <1> HIDE DEF W
  <1>3. Closed(tidy, W)
    BY <1>1, Zenon DEF Closed
  <1>4. QED
    BY <1>2, <1>3, Zenon DEF Safe

\* Holdings that are right at the end and those that are right on the way.
Sound(h) == h \in Holdings /\ ("bound" \in h => "socket" \in h)

\* The end of a routine.
LEMMA EndSafe ==
    ASSUME NEW tidy, NEW h, Sound(h), tidy => h = {}
    PROVE  Safe(tidy, <<>>, h)
  <1>1. Right(tidy, <<>>, h)
    BY DEF Right, Sound
  <1>2. \A q, k : ~Goes(<<>>, h, q, k)
    BY DEF Goes
  <1>3. QED
    BY <1>1, <1>2, SafeEnd, Zenon

\* One part after the other, and the last one.
LEMMA LeadsOn ==
    ASSUME NEW tidy, NEW a, NEW b, NEW h, NEW k, NEW l, Leads(tidy, a, h, k), Leads(tidy, b, k, l)
    PROVE  Leads(tidy, a \o b, h, l)
  <1>1. IsSequence(a) /\ IsSequence(b) /\ IsSequence(a \o b)
    BY SequenceLaws, Zenon DEF Leads
  <1>2. ASSUME NEW q, IsSequence(q), Safe(tidy, q, l)
        PROVE  Safe(tidy, (a \o b) \o q, h)
    <2>1. Safe(tidy, b \o q, k) /\ IsSequence(b \o q)
      BY <1>1, <1>2, SequenceLaws, Zenon DEF Leads
    <2>2. Safe(tidy, a \o (b \o q), h)
      BY <2>1, Zenon DEF Leads
    <2>3. Regroups(a, b, q)
      BY <1>1, <1>2, SequenceLaws, Zenon
    <2>4. QED
      BY <2>2, <2>3, Zenon DEF Regroups
  <1>3. QED
    BY <1>1, <1>2, Zenon DEF Leads

\* A routine whose parts lead to its end is safe.
LEMMA LeadsToEnd ==
    ASSUME NEW tidy, NEW s, NEW h, NEW k, Leads(tidy, s, h, k), Sound(k), tidy => k = {}
    PROVE  Safe(tidy, s, h)
  <1>1. Safe(tidy, <<>>, k) /\ IsSequence(<<>>)
    BY EndSafe, SequenceLaws, Zenon
  <1>2. Safe(tidy, s \o <<>>, h) /\ IsSequence(s)
    BY <1>1, Zenon DEF Leads
  <1>3. s \o <<>> = s
    BY <1>2, SequenceLaws, Zenon
  <1>4. QED
    BY <1>2, <1>3, Zenon

\* A call: it acquires something, or goes on with what follows its failure.
LEMMA CallLeads ==
    ASSUME NEW tidy, NEW a, NEW s, NEW h, Sound(h), Safe(tidy, s, h)
    PROVE  Leads(tidy, Call(a, s), h, h \cup a)
  <1> DEFINE e == [do |-> "call", acquires |-> a, otherwise |-> s]
  <1>1. e.do = "call" /\ e.acquires = a /\ e.otherwise = s
    OBVIOUS
  <1>2. Call(a, s) = <<e>>
    BY Zenon DEF Call
  <1> HIDE DEF e
  <1>3. ASSUME NEW q, IsSequence(q), Safe(tidy, q, h \cup a)
        PROVE  Safe(tidy, <<e>> \o q, h)
    <2> DEFINE t == <<e>> \o q
    <2>1. t # <<>> /\ Head(t) = e /\ Tail(t) = q
      BY <1>3, SequenceLaws, Zenon
    <2> HIDE DEF t
    <2>2. Right(tidy, t, h)
      BY <1>1, <2>1 DEF Right, Sound
    <2>3. GoesTo(t, h, q, h \cup a, s, h)
      <3>1. Head(t).do \notin LogKinds /\ Head(t).do \notin {"release", "if"}
        BY <1>1, <2>1 DEF LogKinds
      <3>2. QED
        BY <1>1, <2>1, <3>1 DEF Goes, GoesTo
    <2>4. Safe(tidy, t, h)
      BY <1>3, <2>2, <2>3, SafeBefore, Zenon
    <2>5. QED
      BY <2>4, Zenon DEF t
  <1>4. QED
    BY <1>2, <1>3, SequenceLaws, Zenon DEF Leads

\* A release, by a tidy routine of what is held only.
LEMMA ReleaseLeads ==
    ASSUME NEW tidy, NEW r, NEW h, Sound(h), tidy => r \in h
    PROVE  Leads(tidy, Release(r), h, Without(h, r))
  <1> DEFINE e == [do |-> "release", what |-> r]
  <1>1. e.do = "release" /\ e.what = r
    OBVIOUS
  <1>2. Release(r) = <<e>>
    BY Zenon DEF Release
  <1> HIDE DEF e
  <1>3. ASSUME NEW q, IsSequence(q), Safe(tidy, q, Without(h, r))
        PROVE  Safe(tidy, <<e>> \o q, h)
    <2> DEFINE t == <<e>> \o q
    <2>1. t # <<>> /\ Head(t) = e /\ Tail(t) = q
      BY <1>3, SequenceLaws, Zenon
    <2> HIDE DEF t
    <2>2. Right(tidy, t, h)
      BY <1>1, <2>1 DEF Right, Sound
    <2>3. \A p, k : Goes(t, h, p, k) => p = q /\ k = Without(h, r)
      <3>1. Head(t).do \notin LogKinds /\ Head(t).do \notin {"call", "if"}
        BY <1>1, <2>1 DEF LogKinds
      <3>2. QED
        BY <1>1, <2>1, <3>1, Zenon DEF Goes
    <2>4. Safe(tidy, t, h)
      BY <1>3, <2>2, <2>3, SafeBeforeOne
    <2>5. QED
      BY <2>4, Zenon DEF t
  <1>4. QED
    BY <1>2, <1>3, SequenceLaws, Zenon DEF Leads

\* A step on the log changes nothing that is held.
LEMMA StepLeads ==
    ASSUME NEW tidy, NEW kind \in LogKinds, NEW h, Sound(h)
    PROVE  Leads(tidy, Step(kind), h, h)
  <1> DEFINE e == [do |-> kind]
  <1>1. e.do = kind
    OBVIOUS
  <1>2. Step(kind) = <<e>>
    BY Zenon DEF Step
  <1> HIDE DEF e
  <1>3. ASSUME NEW q, IsSequence(q), Safe(tidy, q, h)
        PROVE  Safe(tidy, <<e>> \o q, h)
    <2> DEFINE t == <<e>> \o q
    <2>1. t # <<>> /\ Head(t) = e /\ Tail(t) = q
      BY <1>3, SequenceLaws, Zenon
    <2> HIDE DEF t
    <2>2. Head(t).do \in LogKinds /\ Head(t).do \notin {"call", "release", "if", "serve"}
      BY <1>1, <2>1 DEF LogKinds
    <2>3. Right(tidy, t, h)
      BY <2>1, <2>2 DEF Right, Sound
    <2>4. \A p, k : Goes(t, h, p, k) => p = q /\ k = h
      BY <2>1, <2>2, Zenon DEF Goes
    <2>5. Safe(tidy, t, h)
      BY <1>3, <2>3, <2>4, SafeBeforeOne
    <2>6. QED
      BY <2>5, Zenon DEF t
  <1>4. QED
    BY <1>2, <1>3, SequenceLaws, Zenon DEF Leads

\* Nor does a test of what leads nowhere else.
LEMMA TestLeads ==
    ASSUME NEW tidy, NEW test, NEW s, NEW h, Sound(h), Leads(tidy, s, h, h)
    PROVE  Leads(tidy, If(test, s), h, h)
  <1> DEFINE e == [do |-> "if", test |-> test, then |-> s]
  <1>1. e.do = "if" /\ e.then = s
    OBVIOUS
  <1>2. If(test, s) = <<e>>
    BY Zenon DEF If
  <1> HIDE DEF e
  <1>3. ASSUME NEW q, IsSequence(q), Safe(tidy, q, h)
        PROVE  Safe(tidy, <<e>> \o q, h)
    <2> DEFINE t == <<e>> \o q
    <2>1. t # <<>> /\ Head(t) = e /\ Tail(t) = q /\ <<>> \o q = q
      BY <1>3, SequenceLaws, Zenon
    <2>2. Safe(tidy, s \o q, h)
      BY <1>3, Zenon DEF Leads
    <2> HIDE DEF t
    <2>3. Head(t).do \notin LogKinds /\ Head(t).do \notin {"call", "release", "serve"}
      BY <1>1, <2>1 DEF LogKinds
    <2>4. Right(tidy, t, h)
      BY <2>1, <2>3 DEF Right, Sound
    <2>5. GoesTo(t, h, s \o q, h, q, h)
      BY <1>1, <2>1, <2>3, Zenon DEF Goes, GoesTo
    <2>6. Safe(tidy, t, h)
      BY <1>3, <2>2, <2>4, <2>5, SafeBefore, Zenon
    <2>7. QED
      BY <2>6, Zenon DEF t
  <1>4. QED
    BY <1>2, <1>3, SequenceLaws, Zenon DEF Leads

\* A routine that serves is bound and does not return.
LEMMA ServeSafe ==
    ASSUME NEW tidy, NEW h, NEW k, Sound(h), {"winsock", "bound"} \subseteq h
    PROVE  Leads(tidy, Serve, h, k)
  <1> DEFINE e == [do |-> "serve"]
  <1>1. e.do = "serve"
    OBVIOUS
  <1>2. Serve = <<e>>
    BY Zenon DEF Serve, Step
  <1> HIDE DEF e
  <1>3. ASSUME NEW q, IsSequence(q)
        PROVE  Safe(tidy, <<e>> \o q, h)
    <2> DEFINE t == <<e>> \o q
    <2>1. t # <<>> /\ Head(t) = e
      BY <1>3, SequenceLaws, Zenon
    <2> HIDE DEF t
    <2>2. Right(tidy, t, h)
      BY <1>1, <2>1 DEF Right, Sound
    <2>3. \A p, l : ~Goes(t, h, p, l)
      <3>1. Head(t).do \notin LogKinds /\ Head(t).do \notin {"call", "release", "if"}
        BY <1>1, <2>1 DEF LogKinds
      <3>2. QED
        BY <3>1, Zenon DEF Goes
    <2>4. QED
      BY <2>2, <2>3, SafeEnd, Zenon DEF t
  <1>4. QED
    BY <1>2, <1>3, SequenceLaws, Zenon DEF Leads

-----------------------------------------------------------------------------
(* The routines are safe.                                                  *)

\* The functions of the log hold nothing of their own.
LEMMA LogLeads ==
    ASSUME NEW tidy, NEW h, Sound(h)
    PROVE  /\ Leads(tidy, LogMessage, h, h) /\ Leads(tidy, FileLogClose, h, h)
           /\ \A e \in BOOLEAN : Leads(tidy, FileLogOpen(e), h, h)
  <1>1. \A kind \in LogKinds : Leads(tidy, Step(kind), h, h)
    BY StepLeads, Zenon
  <1>2. \A test, s : Leads(tidy, s, h, h) => Leads(tidy, If(test, s), h, h)
    BY TestLeads, Zenon
  <1>3. \A s, r : Leads(tidy, s, h, h) /\ Leads(tidy, r, h, h) => Leads(tidy, s \o r, h, h)
    BY LeadsOn, Zenon
  <1>4. /\ Leads(tidy, Step("write"), h, h) /\ Leads(tidy, Step("close"), h, h)
        /\ Leads(tidy, Step("mkdir"), h, h) /\ Leads(tidy, Step("setFlag"), h, h)
        /\ Leads(tidy, Step("open"), h, h) /\ Leads(tidy, Step("clearFlag"), h, h)
    BY <1>1, Zenon DEF LogKinds
  <1>5. Leads(tidy, LogMessage, h, h) /\ Leads(tidy, FileLogClose, h, h)
    BY <1>2, <1>4, Zenon DEF LogMessage, FileLog, FileLogClose
  <1>6. Leads(tidy, <<>>, h, h)
    BY SequenceLaws, Zenon DEF Leads
  <1>7. \A e \in BOOLEAN : Leads(tidy, FileLogOpen(e), h, h)
    <2> SUFFICES ASSUME NEW e \in BOOLEAN PROVE Leads(tidy, FileLogOpen(e), h, h)
      OBVIOUS
    <2> DEFINE banner == IF e THEN <<>> ELSE Step("write")
               create == Step("setFlag") \o If("open", Step("close")) \o Step("open") \o Step("clearFlag")
    <2>1. Leads(tidy, banner, h, h)
      BY <1>4, <1>6, Zenon
    <2>2. Leads(tidy, create, h, h)
      BY <1>2, <1>3, <1>4, Zenon
    <2>3. CreateLogFile(e) = If("not creating", create \o banner)
      BY Zenon DEF CreateLogFile
    <2> HIDE DEF banner, create
    <2>4. Leads(tidy, CreateLogFile(e), h, h)
      BY <1>2, <1>3, <2>1, <2>2, <2>3, Zenon
    <2>5. QED
      BY <1>3, <1>4, <2>4, Zenon DEF FileLogOpen
  <1>8. QED
    BY <1>5, <1>7

\* A call, with what is held afterwards.
LEMMA CallTo ==
    ASSUME NEW tidy, NEW a, NEW s, NEW h, NEW k, Sound(h), Safe(tidy, s, h), k = h \cup a
    PROVE  Leads(tidy, Call(a, s), h, k)
  BY CallLeads, Zenon

\* A release, with what is held afterwards.
LEMMA ReleaseTo ==
    ASSUME NEW tidy, NEW r, NEW h, NEW k, Sound(h), tidy => r \in h, k = Without(h, r)
    PROVE  Leads(tidy, Release(r), h, k)
  BY ReleaseLeads, Zenon

\* What may be held.
LEMMA SoundHoldings ==
    /\ Sound({}) /\ Sound({"addrinfo"}) /\ Sound({"addrinfo", "socket"})
    /\ Sound({"addrinfo", "socket", "bound"}) /\ Sound({"socket", "bound"})
    /\ Sound({"socket"}) /\ Sound({"winsock"}) /\ Sound({"winsock", "socket"})
    /\ Sound({"winsock", "socket", "bound"})
  BY DEF Sound, Holdings

\* IsPortBusy closes what it has opened, wherever it fails.
LEMMA IsPortBusySafe == Safe(TRUE, IsPortBusy, {})
  <1> DEFINE A == {"addrinfo"}
             AS == {"addrinfo", "socket"}
             ASB == {"addrinfo", "socket", "bound"}
             SB == {"socket", "bound"}
             both == LogMessage \o LogMessage
             all == both \o Release("addrinfo") \o Release("socket")
  <1>1. /\ A = {} \cup {"addrinfo"} /\ AS = A \cup {"socket"} /\ AS = AS \cup {} /\ ASB = AS \cup {"bound"}
        /\ SB = SB \cup {}
    OBVIOUS
  <1>2. /\ {} = Without(A, "addrinfo") /\ SB = Without(ASB, "addrinfo") /\ {} = Without(SB, "socket")
        /\ {"socket"} = Without(AS, "addrinfo") /\ {} = Without({"socket"}, "socket")
    BY DEF Without
  <1>3. /\ "addrinfo" \in A /\ "addrinfo" \in AS /\ "addrinfo" \in ASB
        /\ "socket" \in SB /\ "socket" \in {"socket"}
    OBVIOUS
  <1>4. /\ Sound({}) /\ Sound(A) /\ Sound(AS) /\ Sound(ASB) /\ Sound(SB) /\ Sound({"socket"})
    BY SoundHoldings, Zenon
  <1> HIDE DEF A, AS, ASB, SB
  <1>5. \A h : Sound(h) => Leads(TRUE, LogMessage, h, h) /\ Leads(TRUE, both, h, h)
    BY LogLeads, LeadsOn, Zenon
  <1>6. /\ Leads(TRUE, Release("addrinfo"), A, {}) /\ Leads(TRUE, Release("addrinfo"), ASB, SB)
        /\ Leads(TRUE, Release("addrinfo"), AS, {"socket"})
        /\ Leads(TRUE, Release("socket"), SB, {}) /\ Leads(TRUE, Release("socket"), {"socket"}, {})
    BY <1>2, <1>3, <1>4, ReleaseTo, Zenon
  <1>7. /\ Safe(TRUE, both, {})
        /\ Safe(TRUE, both \o Release("addrinfo"), A)
        /\ Safe(TRUE, all, AS)
        /\ Safe(TRUE, both \o Release("socket"), SB)
    <2>1. /\ Leads(TRUE, both, {}, {})
          /\ Leads(TRUE, both \o Release("addrinfo"), A, {})
          /\ Leads(TRUE, both \o Release("socket"), SB, {})
      BY <1>4, <1>5, <1>6, LeadsOn, Zenon
    <2>2. Leads(TRUE, both \o Release("addrinfo"), AS, {"socket"})
      BY <1>4, <1>5, <1>6, LeadsOn, Zenon
    <2>3. Leads(TRUE, all, AS, {})
      BY <1>6, <2>2, LeadsOn, Zenon
    <2>4. QED
      BY <1>4, <2>1, <2>3, LeadsToEnd, Zenon
  <1>8. /\ Leads(TRUE, Call({"addrinfo"}, both), {}, A)
        /\ Leads(TRUE, Call({"socket"}, both \o Release("addrinfo")), A, AS)
        /\ Leads(TRUE, Call({}, all), AS, AS)
        /\ Leads(TRUE, Call({"bound"}, all), AS, ASB)
        /\ Leads(TRUE, Call({}, both \o Release("socket")), SB, SB)
    BY <1>1, <1>4, <1>7, CallTo, Zenon
  <1> HIDE DEF both, all
  <1> DEFINE p1 == LogMessage \o Call({"addrinfo"}, both)
             p2 == p1 \o Call({"socket"}, both \o Release("addrinfo"))
             p3 == p2 \o Call({}, all)
             p4 == p3 \o Call({"bound"}, all)
             p5 == p4 \o Release("addrinfo")
             p6 == p5 \o Call({}, both \o Release("socket"))
             p7 == p6 \o Release("socket")
  <1>9. Leads(TRUE, p1, {}, A)
    BY <1>4, <1>5, <1>8, LeadsOn, Zenon
  <1>10. Leads(TRUE, p2, {}, AS)
    BY <1>8, <1>9, LeadsOn, Zenon
  <1>11. Leads(TRUE, p3, {}, AS)
    BY <1>8, <1>10, LeadsOn, Zenon
  <1>12. Leads(TRUE, p4, {}, ASB)
    BY <1>8, <1>11, LeadsOn, Zenon
  <1>13. Leads(TRUE, p5, {}, SB)
    BY <1>6, <1>12, LeadsOn, Zenon
  <1>14. Leads(TRUE, p6, {}, SB)
    BY <1>8, <1>13, LeadsOn, Zenon
  <1>15. Leads(TRUE, p7, {}, {})
    BY <1>6, <1>14, LeadsOn, Zenon
  <1>16. Leads(TRUE, p7 \o LogMessage, {}, {})
    BY <1>4, <1>5, <1>15, LeadsOn, Zenon
  <1>17. IsPortBusy = p7 \o LogMessage
    BY Zenon DEF IsPortBusy, both, all
  <1>18. QED
    BY <1>4, <1>16, <1>17, LeadsToEnd, Zenon

\* So does udpServer.
LEMMA UdpServerSafe == Safe(TRUE, udpServer, {})
  <1> DEFINE A == {"addrinfo"}
             AS == {"addrinfo", "socket"}
             ASB == {"addrinfo", "socket", "bound"}
             SB == {"socket", "bound"}
             S == {"socket"}
  <1>1. A = {} \cup {"addrinfo"} /\ AS = A \cup {"socket"} /\ ASB = AS \cup {"bound"}
    OBVIOUS
  <1>2. /\ {} = Without(A, "addrinfo") /\ SB = Without(ASB, "addrinfo") /\ {} = Without(SB, "socket")
        /\ S = Without(AS, "addrinfo") /\ {} = Without(S, "socket")
    BY DEF Without
  <1>3. /\ "addrinfo" \in A /\ "addrinfo" \in AS /\ "addrinfo" \in ASB
        /\ "socket" \in SB /\ "socket" \in S
    OBVIOUS
  <1>4. Sound({}) /\ Sound(A) /\ Sound(AS) /\ Sound(ASB) /\ Sound(SB) /\ Sound(S)
    BY SoundHoldings, Zenon
  <1> HIDE DEF A, AS, ASB, SB, S
  <1>5. /\ Leads(TRUE, Release("addrinfo"), A, {}) /\ Leads(TRUE, Release("addrinfo"), ASB, SB)
        /\ Leads(TRUE, Release("addrinfo"), AS, S)
        /\ Leads(TRUE, Release("socket"), SB, {}) /\ Leads(TRUE, Release("socket"), S, {})
    BY <1>2, <1>3, <1>4, ReleaseTo, Zenon
  <1>6. /\ Safe(TRUE, Return, {}) /\ Safe(TRUE, Release("addrinfo"), A)
        /\ Safe(TRUE, Release("addrinfo") \o Release("socket"), AS)
    <2>1. Leads(TRUE, Release("addrinfo") \o Release("socket"), AS, {})
      BY <1>5, LeadsOn, Zenon
    <2>2. QED
      BY <1>4, <1>5, <2>1, LeadsToEnd, EndSafe, Zenon DEF Return
  <1>7. /\ Leads(TRUE, Call({"addrinfo"}, Return), {}, A)
        /\ Leads(TRUE, Call({"socket"}, Release("addrinfo")), A, AS)
        /\ Leads(TRUE, Call({"bound"}, Release("addrinfo") \o Release("socket")), AS, ASB)
    BY <1>1, <1>4, <1>6, CallTo, Zenon
  <1> DEFINE p1 == Call({"addrinfo"}, Return) \o Call({"socket"}, Release("addrinfo"))
             p2 == p1 \o Call({"bound"}, Release("addrinfo") \o Release("socket"))
             p3 == p2 \o Release("addrinfo")
  <1>8. Leads(TRUE, p1, {}, AS)
    BY <1>7, LeadsOn, Zenon
  <1>9. Leads(TRUE, p2, {}, ASB)
    BY <1>7, <1>8, LeadsOn, Zenon
  <1>10. Leads(TRUE, p3, {}, SB)
    BY <1>5, <1>9, LeadsOn, Zenon
  <1>11. Leads(TRUE, p3 \o Release("socket"), {}, {})
    BY <1>5, <1>10, LeadsOn, Zenon
  <1>12. udpServer = p3 \o Release("socket")
    BY Zenon DEF udpServer
  <1>13. QED
    BY <1>4, <1>11, <1>12, LeadsToEnd, Zenon

\* main of UDP01 holds nothing when it ends, and is bound when it serves.
LEMMA MainSafe == Safe(TRUE, Main, {})
  <1> DEFINE W == {"winsock"}
             WS == {"winsock", "socket"}
             WSB == {"winsock", "socket", "bound"}
             both == Release("socket") \o Release("winsock")
  <1>1. /\ W = {} \cup {"winsock"} /\ WS = W \cup {"socket"} /\ WS = WS \cup {} /\ WSB = WS \cup {"bound"}
        /\ WSB = WSB \cup {}
    OBVIOUS
  <1>2. {} = Without(W, "winsock") /\ W = Without(WS, "socket") /\ W = Without(WSB, "socket")
    BY DEF Without
  <1>3. "winsock" \in W /\ "socket" \in WS /\ "socket" \in WSB /\ {"winsock", "bound"} \subseteq WSB
    OBVIOUS
  <1>4. Sound({}) /\ Sound(W) /\ Sound(WS) /\ Sound(WSB)
    BY SoundHoldings, Zenon
  <1> HIDE DEF W, WS, WSB
  <1>5. /\ Leads(TRUE, Release("winsock"), W, {})
        /\ Leads(TRUE, Release("socket"), WS, W) /\ Leads(TRUE, Release("socket"), WSB, W)
    BY <1>2, <1>3, <1>4, ReleaseTo, Zenon
  <1>6. Leads(TRUE, both, WS, {}) /\ Leads(TRUE, both, WSB, {})
    BY <1>5, LeadsOn, Zenon
  <1>7. /\ Safe(TRUE, Return, {}) /\ Safe(TRUE, Release("winsock"), W)
        /\ Safe(TRUE, both, WS) /\ Safe(TRUE, both, WSB)
    BY <1>4, <1>5, <1>6, LeadsToEnd, EndSafe, Zenon DEF Return
  <1> HIDE DEF both
  <1>8. /\ Leads(TRUE, Call({"winsock"}, Return), {}, W)
        /\ Leads(TRUE, Call({"socket"}, Release("winsock")), W, WS)
        /\ Leads(TRUE, Call({}, both), WS, WS) /\ Leads(TRUE, Call({"bound"}, both), WS, WSB)
        /\ Leads(TRUE, Call({}, both), WSB, WSB)
    BY <1>1, <1>4, <1>7, CallTo, Zenon
  <1> DEFINE p1 == Call({"winsock"}, Return) \o Call({"socket"}, Release("winsock"))
             p2 == p1 \o Call({}, both)
             p3 == p2 \o Call({"bound"}, both)
             p4 == p3 \o Call({}, both)
  <1>9. Leads(TRUE, p1, {}, WS)
    BY <1>8, LeadsOn, Zenon
  <1>10. Leads(TRUE, p2, {}, WS)
    BY <1>8, <1>9, LeadsOn, Zenon
  <1>11. Leads(TRUE, p3, {}, WSB)
    BY <1>8, <1>10, LeadsOn, Zenon
  <1>12. Leads(TRUE, p4, {}, WSB)
    BY <1>8, <1>11, LeadsOn, Zenon
  <1>13. Leads(TRUE, Serve, WSB, {})
    BY <1>3, <1>4, ServeSafe, Zenon
  <1>14. Leads(TRUE, p4 \o Serve, {}, {})
    BY <1>12, <1>13, LeadsOn, Zenon
  <1>15. Main = p4 \o Serve
    BY Zenon DEF Main, OpenDGramSocket, both
  <1>16. QED
    BY <1>4, <1>14, <1>15, LeadsToEnd, Zenon

\* UDPServer::Init is not tidy, but what serves is bound.
LEMMA UDPServerInitSafe == Safe(FALSE, UDPServerInit, {})
  <1> DEFINE W == {"winsock"}
             S == {"socket"}
             WS == {"winsock", "socket"}
             WSB == {"winsock", "socket", "bound"}
  <1>1. /\ W = {} \cup {"winsock"} /\ WS = W \cup {"socket"} /\ WS = WS \cup {} /\ WSB = WS \cup {"bound"}
    OBVIOUS
  <1>2. /\ W = Without(W, "ReceivingSocket") /\ WS = Without(WS, "ReceivingSocket")
        /\ {} = Without(W, "winsock") /\ S = Without(WS, "winsock")
    BY DEF Without
  <1>3. {"winsock", "bound"} \subseteq WSB
    OBVIOUS
  <1>4. Sound({}) /\ Sound(W) /\ Sound(S) /\ Sound(WS) /\ Sound(WSB)
    BY SoundHoldings, Zenon
  <1> HIDE DEF W, S, WS, WSB
  <1>5. /\ Leads(FALSE, Release("ReceivingSocket"), W, W) /\ Leads(FALSE, Release("ReceivingSocket"), WS, WS)
        /\ Leads(FALSE, Release("winsock"), W, {}) /\ Leads(FALSE, Release("winsock"), WS, S)
    BY <1>2, <1>4, ReleaseTo, Zenon
  <1>6. Leads(FALSE, CleanupAndExit, W, {}) /\ Leads(FALSE, CleanupAndExit, WS, S)
    BY <1>5, LeadsOn, Zenon DEF CleanupAndExit
  <1>7. /\ Safe(FALSE, Return, {}) /\ Safe(FALSE, Return, WS)
        /\ Safe(FALSE, CleanupAndExit, W) /\ Safe(FALSE, CleanupAndExit, WS)
    BY <1>4, <1>6, LeadsToEnd, EndSafe, Zenon DEF Return
  <1>8. /\ Leads(FALSE, Call({"winsock"}, Return), {}, W)
        /\ Leads(FALSE, Call({"socket"}, CleanupAndExit), W, WS)
        /\ Leads(FALSE, Call({}, CleanupAndExit), WS, WS)
        /\ Leads(FALSE, Call({"bound"}, Return), WS, WSB)
    BY <1>1, <1>4, <1>7, CallTo, Zenon
  <1> DEFINE p1 == Call({"winsock"}, Return) \o Call({"socket"}, CleanupAndExit)
             p2 == p1 \o Call({}, CleanupAndExit)
             p3 == p2 \o Call({"bound"}, Return)
  <1>9. Leads(FALSE, p1, {}, WS)
    BY <1>8, LeadsOn, Zenon
  <1>10. Leads(FALSE, p2, {}, WS)
    BY <1>8, <1>9, LeadsOn, Zenon
  <1>11. Leads(FALSE, p3, {}, WSB)
    BY <1>8, <1>10, LeadsOn, Zenon
  <1>12. Leads(FALSE, Serve, WSB, {})
    BY <1>3, <1>4, ServeSafe, Zenon
  <1>13. Leads(FALSE, p3 \o Serve, {}, {})
    BY <1>11, <1>12, LeadsOn, Zenon
  <1>14. UDPServerInit = p3 \o Serve
    BY Zenon DEF UDPServerInit, OpenReceivingSocket
  <1>15. QED
    BY <1>4, <1>13, <1>14, LeadsToEnd, Zenon

\* Whoever only uses the log holds nothing.
LEMMA LoggingSafe ==
    /\ Safe(FALSE, FileLogOpen(FALSE) \o LogMessage \o FileLogClose \o LogMessage, {})
    /\ Safe(FALSE, FileLogOpen(TRUE) \o LogMessage \o FileLogOpen(TRUE) \o LogMessage, {})
  <1>1. Sound({})
    BY SoundHoldings, Zenon
  <1>2. /\ Leads(FALSE, LogMessage, {}, {}) /\ Leads(FALSE, FileLogClose, {}, {})
        /\ Leads(FALSE, FileLogOpen(TRUE), {}, {}) /\ Leads(FALSE, FileLogOpen(FALSE), {}, {})
    <2>1. \A e \in BOOLEAN : Leads(FALSE, FileLogOpen(e), {}, {})
      BY <1>1, LogLeads, Zenon
    <2> HIDE DEF FileLogOpen
    <2>2. Leads(FALSE, FileLogOpen(TRUE), {}, {}) /\ Leads(FALSE, FileLogOpen(FALSE), {}, {})
      BY <2>1
    <2>3. QED
      BY <1>1, <2>2, LogLeads, Zenon
  <1>3. /\ Leads(FALSE, FileLogOpen(FALSE) \o LogMessage, {}, {})
        /\ Leads(FALSE, FileLogOpen(TRUE) \o LogMessage, {}, {})
    BY <1>2, LeadsOn, Zenon
  <1>4. /\ Leads(FALSE, FileLogOpen(FALSE) \o LogMessage \o FileLogClose, {}, {})
        /\ Leads(FALSE, FileLogOpen(TRUE) \o LogMessage \o FileLogOpen(TRUE), {}, {})
    BY <1>2, <1>3, LeadsOn, Zenon
  <1>5. /\ Leads(FALSE, FileLogOpen(FALSE) \o LogMessage \o FileLogClose \o LogMessage, {}, {})
        /\ Leads(FALSE, FileLogOpen(TRUE) \o LogMessage \o FileLogOpen(TRUE) \o LogMessage, {}, {})
    BY <1>2, <1>4, LeadsOn, Zenon
  <1>6. QED
    BY <1>1, <1>5, LeadsToEnd, Zenon

-----------------------------------------------------------------------------
(* What the threads hold.                                                  *)

SafeThread(t) == IF routine[t] \in Tidy THEN Safe(TRUE, todo[t], held[t]) ELSE Safe(FALSE, todo[t], held[t])

HeldInv == /\ routine \in [Threads -> DOMAIN Routines]
           /\ held \in [Threads -> Holdings]
           /\ \A t \in Threads : SafeThread(t)

LogInv == /\ directory \in {"there", "missing", "no parent"}
          /\ isCreatingFile \in BOOLEAN
          /\ loggingFile \in {"closed", "open", "failed"}

\* At the start nothing is held, and every routine is safe.
LEMMA HeldInit == Init => HeldInv /\ LogInv
  <1> SUFFICES ASSUME Init PROVE HeldInv /\ LogInv
    OBVIOUS
  <1>1. LogInv
    BY DEF Init, LogInv
  <1>2. routine \in [Threads -> DOMAIN Routines] /\ held = [t \in Threads |-> {}]
    BY DEF Init
  <1>3. held \in [Threads -> Holdings]
    BY <1>2 DEF Holdings
  <1>4. ASSUME NEW t \in Threads
        PROVE  SafeThread(t)
    <2>1. routine[t] \in DOMAIN Routines /\ todo[t] = Routines[routine[t]] /\ held[t] = {}
      BY <1>2 DEF Init
    <2> DEFINE logger == FileLogOpen(FALSE) \o LogMessage \o FileLogClose \o LogMessage
               rotator == FileLogOpen(TRUE) \o LogMessage \o FileLogOpen(TRUE) \o LogMessage
    <2>2. Safe(FALSE, logger, {}) /\ Safe(FALSE, rotator, {})
      BY LoggingSafe, Zenon
    <2> HIDE DEF logger, rotator
    <2>3. Routines = [IsPortBusy |-> IsPortBusy, Main |-> Main, UDPServerInit |-> UDPServerInit,
                      udpServer |-> udpServer, Logger |-> logger, Rotator |-> rotator]
      BY Zenon DEF Routines, logger, rotator
    <2>4. \/ routine[t] = "IsPortBusy" /\ todo[t] = IsPortBusy
          \/ routine[t] = "Main" /\ todo[t] = Main
          \/ routine[t] = "udpServer" /\ todo[t] = udpServer
          \/ routine[t] = "UDPServerInit" /\ todo[t] = UDPServerInit
          \/ routine[t] = "Logger" /\ todo[t] = logger
          \/ routine[t] = "Rotator" /\ todo[t] = rotator
      <3> HIDE DEF IsPortBusy, Main, udpServer, UDPServerInit
      <3>1. QED
        BY <2>1, <2>3
    <2>5. CASE routine[t] \in Tidy
      <3>1. todo[t] \in {IsPortBusy, Main, udpServer}
        <4>1. routine[t] \notin {"UDPServerInit", "Logger", "Rotator"}
          BY <2>5 DEF Tidy
        <4>2. QED
          BY <2>4, <4>1, Zenon
      <3>2. QED
        BY <2>1, <2>5, <3>1, IsPortBusySafe, MainSafe, UdpServerSafe, Zenon DEF SafeThread
    <2>6. CASE routine[t] \notin Tidy
      <3>1. todo[t] \in {UDPServerInit, logger, rotator}
        <4>1. routine[t] \notin {"IsPortBusy", "Main", "udpServer"}
          BY <2>6 DEF Tidy
        <4>2. QED
          BY <2>4, <4>1, Zenon
      <3>2. QED
        BY <2>1, <2>2, <2>6, <3>1, UDPServerInitSafe, Zenon DEF SafeThread
    <2>7. QED
      BY <2>5, <2>6
  <1>5. QED
    BY <1>1, <1>2, <1>3, <1>4 DEF HeldInv

\* A thread that is safe goes on being safe, and disturbs no other.
LEMMA HeldGoes ==
    ASSUME Inv, HeldInv, NEW t \in Threads, NEW q, NEW k, Goes(todo[t], held[t], q, k),
           todo' = [todo EXCEPT ![t] = q], held' = [held EXCEPT ![t] = k], routine' = routine
    PROVE  HeldInv'
  <1>1. DOMAIN todo = Threads /\ todo = [u \in Threads |-> todo[u]]
    BY DEF Inv, PlaceInv
  <1>2. held \in [Threads -> Holdings]
    BY DEF HeldInv
  <1>3. /\ todo'[t] = q /\ \A u \in Threads : u # t => todo'[u] = todo[u]
    BY <1>1
  <1>4. /\ held'[t] = k /\ \A u \in Threads : u # t => held'[u] = held[u]
    BY <1>2
  <1>5. SafeThread(t)
    BY DEF HeldInv
  <1>6. /\ routine[t] \in Tidy => Safe(TRUE, q, k)
        /\ routine[t] \notin Tidy => Safe(FALSE, q, k)
    BY <1>5, SafeGoes, Zenon DEF SafeThread
  <1>7. k \in Holdings
    <2>1. Right(TRUE, q, k) \/ Right(FALSE, q, k)
      BY <1>6, SafeGoes, Zenon
    <2>2. QED
      BY <2>1, Zenon DEF Right
  <1>8. ASSUME NEW u \in Threads
        PROVE  SafeThread(u)'
    <2>1. CASE u = t
      BY <1>3, <1>4, <1>6, <2>1, Zenon DEF SafeThread
    <2>2. CASE u # t
      <3>1. SafeThread(u)
        BY DEF HeldInv
      <3>2. QED
        BY <1>3, <1>4, <2>2, <3>1, Zenon DEF SafeThread
    <2>3. QED
      BY <2>1, <2>2
  <1>9. held' \in [Threads -> Holdings]
    BY <1>2, <1>7
  <1>10. QED
    BY <1>8, <1>9 DEF HeldInv

\* Every step of a thread goes somewhere in this sense.
LEMMA RunGoes ==
    ASSUME Inv, HeldInv, NEW t \in Threads, Run(t)
    PROVE  /\ routine' = routine
           /\ \E q, k : /\ Goes(todo[t], held[t], q, k)
                        /\ todo' = [todo EXCEPT ![t] = q] /\ held' = [held EXCEPT ![t] = k]
  <1>1. [held EXCEPT ![t] = held[t]] = held
    BY DEF HeldInv
  <1>2. CASE Succeed(t)
    <2>1. /\ todo[t] # <<>> /\ Head(todo[t]).do = "call" /\ routine' = routine
          /\ held' = [held EXCEPT ![t] = held[t] \cup Head(todo[t]).acquires]
          /\ todo' = [todo EXCEPT ![t] = Tail(todo[t])]
      BY <1>2 DEF Succeed, At, Advance, HeldInv, Inv, PlaceInv
    <2>2. Goes(todo[t], held[t], Tail(todo[t]), held[t] \cup Head(todo[t]).acquires)
      BY <2>1, Zenon DEF Goes
    <2>3. QED
      BY <2>1, <2>2, Zenon
  <1>3. CASE Fail(t)
    <2>1. /\ todo[t] # <<>> /\ Head(todo[t]).do = "call" /\ routine' = routine /\ held' = held
          /\ todo' = [todo EXCEPT ![t] = Head(todo[t]).otherwise]
      BY <1>3 DEF Fail, At, Inv, PlaceInv
    <2>2. Goes(todo[t], held[t], Head(todo[t]).otherwise, held[t])
      BY <2>1, Zenon DEF Goes
    <2>3. QED
      BY <1>1, <2>1, <2>2, Zenon
  <1>4. CASE ReleaseHeld(t)
    <2>1. /\ todo[t] # <<>> /\ Head(todo[t]).do = "release" /\ routine' = routine
          /\ held' = [held EXCEPT ![t] = Without(held[t], Head(todo[t]).what)]
          /\ todo' = [todo EXCEPT ![t] = Tail(todo[t])]
      BY <1>4 DEF ReleaseHeld, At, Advance, Without, HeldInv, Inv, PlaceInv
    <2>2. Goes(todo[t], held[t], Tail(todo[t]), Without(held[t], Head(todo[t]).what))
      BY <2>1, Zenon DEF Goes
    <2>3. QED
      BY <2>1, <2>2, Zenon
  <1>5. CASE Test(t)
    <2> DEFINE step == Head(todo[t])
               steps == IF Holds(step.test) THEN step.then ELSE <<>>
    <2>1. /\ todo[t] # <<>> /\ step.do = "if" /\ routine' = routine /\ held' = held
          /\ todo' = [todo EXCEPT ![t] = steps \o Tail(@)]
      BY <1>5 DEF Test, At
    <2>2. todo' = [todo EXCEPT ![t] = steps \o Tail(todo[t])]
      BY <2>1 DEF Inv, PlaceInv
    <2>3. Goes(todo[t], held[t], steps \o Tail(todo[t]), held[t])
      BY <2>1, Zenon DEF Goes
    <2> HIDE DEF steps
    <2>4. QED
      BY <1>1, <2>1, <2>2, <2>3, Zenon
  <1>6. CASE \/ MakeDirectory(t) \/ OpenStream(t) \/ CloseStream(t) \/ Write(t)
             \/ SetFlag(t, "setFlag", TRUE) \/ SetFlag(t, "clearFlag", FALSE)
    <2>1. todo[t] # <<>> /\ Head(todo[t]).do \in LogKinds /\ routine' = routine /\ held' = held /\ Advance(t)
      BY <1>6, Zenon DEF MakeDirectory, OpenStream, CloseStream, Write, SetFlag, At, LogKinds
    <2>2. todo' = [todo EXCEPT ![t] = Tail(todo[t])]
      BY <2>1 DEF Advance, Inv, PlaceInv
    <2>3. Goes(todo[t], held[t], Tail(todo[t]), held[t])
      BY <2>1, Zenon DEF Goes
    <2>4. QED
      BY <1>1, <2>1, <2>2, <2>3, Zenon
  <1>7. QED
    BY <1>2, <1>3, <1>4, <1>5, <1>6, Zenon DEF Run

\* Every step keeps what is held and the types of the log.
LEMMA HeldNext == Inv /\ HeldInv /\ LogInv /\ [Next]_vars => HeldInv' /\ LogInv'
  <1> SUFFICES ASSUME Inv, HeldInv, LogInv, [Next]_vars PROVE HeldInv' /\ LogInv'
    OBVIOUS
  <1>1. CASE UNCHANGED vars
    <2>1. HeldInv'
      BY <1>1, Zenon DEF vars, HeldInv, SafeThread
    <2>2. LogInv'
      BY <1>1 DEF vars, logVars, LogInv
    <2>3. QED
      BY <2>1, <2>2
  <1>2. ASSUME NEW t \in Threads, Run(t)
        PROVE  HeldInv' /\ LogInv'
    <2>1. HeldInv'
      BY <1>2, RunGoes, HeldGoes, Zenon
    <2>2. LogInv'
      <3>1. CASE Succeed(t) \/ Fail(t) \/ ReleaseHeld(t) \/ Write(t)
        BY <3>1 DEF Succeed, Fail, ReleaseHeld, Write, LogInv, logVars
      <3>2. CASE Test(t)
        BY <3>2 DEF Test, LogInv
      <3>3. CASE MakeDirectory(t)
        BY <3>3 DEF MakeDirectory, LogInv
      <3>4. CASE OpenStream(t)
        <4>1. loggingFile' \in {"failed", "open", "closed"}
          BY <3>4 DEF OpenStream
        <4>2. QED
          BY <3>4, <4>1 DEF OpenStream, LogInv
      <3>5. CASE CloseStream(t)
        BY <3>5 DEF CloseStream, LogInv
      <3>6. CASE SetFlag(t, "setFlag", TRUE) \/ SetFlag(t, "clearFlag", FALSE)
        BY <3>6 DEF SetFlag, LogInv
      <3>7. QED
        BY <1>2, <3>1, <3>2, <3>3, <3>4, <3>5, <3>6, Zenon DEF Run
    <2>3. QED
      BY <2>1, <2>2
  <1>3. QED
    BY <1>1, <1>2 DEF Next

-----------------------------------------------------------------------------
(* Theorems.                                                               *)

\* The invariants hold in every reachable state.
THEOREM Invariance == Spec => [](Inv /\ HeldInv /\ LogInv)
  BY InvInit, NextInv, HeldInit, HeldNext, PTL DEF Spec

\* Every variable has its type; what is bound is a socket, and whoever serves
\* is bound, whichever calls have failed before (UDPServer::Init, main).
THEOREM TypeCorrect == Spec => []TypeOK
  <1>1. Inv /\ HeldInv /\ LogInv => TypeOK
    <2> SUFFICES ASSUME Inv, HeldInv, LogInv PROVE TypeOK
      OBVIOUS
    <2>1. \A t \in Threads : Right(TRUE, todo[t], held[t]) \/ Right(FALSE, todo[t], held[t])
      BY SafeGoes, Zenon DEF HeldInv, SafeThread
    <2>2. \A t \in Threads : /\ "bound" \in held[t] => "socket" \in held[t]
                             /\ At(t, "serve") => {"winsock", "bound"} \subseteq held[t]
      BY <2>1, Zenon DEF Right, At
    <2>3. DOMAIN todo = Threads /\ raced \in BOOLEAN
      BY DEF Inv, PlaceInv, StreamInv
    <2>4. routine \in [Threads -> DOMAIN Routines] /\ held \in [Threads -> Holdings]
      BY DEF HeldInv
    <2>5. QED
      BY <2>2, <2>3, <2>4, Zenon DEF TypeOK, LogInv, Holdings
  <1>2. QED
    BY <1>1, Invariance, PTL

\* IsPortBusy, main of UDP01 and udpServer release on every path what they
\* have acquired, once, and nothing that they do not hold.
THEOREM EverythingReleased == Spec => []ReleasedOnce
  <1>1. HeldInv => ReleasedOnce
    <2> SUFFICES ASSUME HeldInv, NEW t \in Threads, routine[t] \in Tidy
                 PROVE  /\ todo[t] = <<>> => held[t] = {}
                        /\ At(t, "release") => Head(todo[t]).what \in held[t]
      BY Zenon DEF ReleasedOnce
    <2>1. Right(TRUE, todo[t], held[t])
      BY SafeGoes, Zenon DEF HeldInv, SafeThread
    <2>2. QED
      BY <2>1, Zenon DEF Right, At
  <1>2. QED
    BY <1>1, Invariance, PTL

\* ofstream::open is called on an open stream, which spoils it for good, only
\* after two threads have passed the test of isCreatingFile at once.
THEOREM SpoiltOnlyRaced == Spec => []StreamFailsOnlyRaced
  <1>1. Inv => StreamFailsOnlyRaced
    BY DEF Inv, StreamInv, StreamFailsOnlyRaced
  <1>2. QED
    BY <1>1, Invariance, PTL
=============================================================================
