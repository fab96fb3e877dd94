---------------------------- MODULE FramingProofs ----------------------------
(***************************************************************************)
(* For every set of packet classes, every buffer and any number of reads,  *)
(* start_write, the transport and the read loop of TCPConnection::Start    *)
(* together keep the promise of PacketStream, byte by byte: without a cut  *)
(* what arrives is what was sent, and after a cut too a frame whose        *)
(* beginning the loop meets is read as it was sent.  Both hold up to the   *)
(* frame that finds the pool of its class empty.                           *)
(***************************************************************************)
EXTENDS Framing, SequenceTheorems, WellFoundedInduction, TLAPS

-----------------------------------------------------------------------------
(* Induction on a number for the set of those that have the property, and  *)
(* what it gives for FlattenSeq, the concatenation of a sequence of        *)
(* sequences: the bytes of the frames on the wire, the packets of the      *)
(* writes of start_write.                                                  *)

\* A set of numbers with zero and each successor holds all of them: the least
\* number outside would have a predecessor inside.
LEMMA SetInduction ==
    ASSUME NEW S, 0 \in S, \A n \in Nat : n \in S => n + 1 \in S
    PROVE  \A n \in Nat : n \in S
  <1> DEFINE T == Nat \ S
             R == OpToRel(<, Nat)
  <1>1. IsWellFoundedOn(R, Nat)
    BY NatLessThanWellFounded
  <1> SUFFICES ASSUME T # {}
               PROVE  FALSE
    OBVIOUS
  <1>2. T \subseteq Nat
    OBVIOUS
  <1> HIDE DEF R, T
  <1>3. PICK x \in T : \A y \in T : ~ (<<y, x>> \in R)
    BY <1>1, <1>2, WFMin
  <1>4. x # 0 /\ x \in Nat /\ x - 1 \in Nat /\ x - 1 < x
    BY DEF T
  <1>5. <<x - 1, x>> \in R
    BY <1>4 DEF R, OpToRel
  <1>6. x - 1 \notin T
    BY <1>3, <1>5
  <1>7. QED
    BY <1>4, <1>6 DEF T

\* The same up to a bound.
LEMMA BoundedInduction ==
    ASSUME NEW S, NEW m \in Nat, 0 \in S, \A n \in 0 .. m - 1 : n \in S => n + 1 \in S
    PROVE  \A n \in 0 .. m : n \in S
  <1> DEFINE T == {n \in Nat : n <= m => n \in S}
  <1>1. 0 \in T
    OBVIOUS
  <1>2. \A n \in Nat : n \in T => n + 1 \in T
    OBVIOUS
  <1> HIDE DEF T
  <1>3. \A n \in Nat : n \in T
    BY <1>1, <1>2, SetInduction
  <1>4. QED
    BY <1>3 DEF T

-----------------------------------------------------------------------------
(* FlattenSeq.                                                             *)

\* f[i] is the concatenation of the first i sequences.
Steps(f, seqs, S) == /\ f \in [0 .. Len(seqs) -> Seq(S)]
                     /\ f[0] = <<>>
                     /\ \A i \in 1 .. Len(seqs) : f[i] = f[i - 1] \o seqs[i]

\* The recursive function in FlattenSeq exists.
Flattens(g, seqs, n) == g = [i \in 1 .. n |-> IF i = 1 THEN seqs[i] ELSE g[i - 1] \o seqs[i]]

\* What it says of one index.
LEMMA FlattenStep ==
    ASSUME NEW g, NEW seqs, NEW n \in Nat, Flattens(g, seqs, n), NEW i \in 1 .. n
    PROVE  /\ i = 1 => g[i] = seqs[i]
           /\ i # 1 => g[i] = g[i - 1] \o seqs[i]
  BY Zenon DEF Flattens

\* One for each bound: the next extends it by one value.
LEMMA FlattenExists ==
    ASSUME NEW seqs, NEW m \in Nat
    PROVE  \E g : Flattens(g, seqs, m)
  <1> DEFINE T == {n \in Nat : \E g : Flattens(g, seqs, n)}
  <1>1. 0 \in T
    <2>1. Flattens([i \in 1 .. 0 |-> <<>>], seqs, 0)
      BY DEF Flattens
    <2>2. QED
      BY <2>1
  <1>2. ASSUME NEW n \in Nat, n \in T
        PROVE  n + 1 \in T
    <2>1. PICK g : Flattens(g, seqs, n)
      BY <1>2
    <2> DEFINE h == [i \in 1 .. n + 1 |-> IF i = 1 THEN seqs[i]
                                          ELSE IF i = n + 1 THEN g[n] \o seqs[i] ELSE g[i]]
    <2>2. ASSUME NEW i \in 1 .. n + 1
          PROVE  h[i] = IF i = 1 THEN seqs[i] ELSE h[i - 1] \o seqs[i]
      <3>1. CASE i = 1
        BY <3>1
      <3>2. CASE i # 1
        <4>1. i - 1 \in 1 .. n /\ h[i - 1] = g[i - 1]
          BY <2>1, <3>2 DEF Flattens
        <4>2. h[i] = g[i - 1] \o seqs[i]
          <5>1. CASE i = n + 1
            <6>1. i - 1 = n /\ i \in 1 .. n + 1
              BY <5>1
            <6>2. h[i] = g[n] \o seqs[i]
              BY <3>2, <5>1, <6>1, Zenon
            <6>3. QED
              BY <6>1, <6>2, Zenon
          <5>2. CASE i # n + 1
            <6>1. i \in 1 .. n /\ h[i] = g[i]
              BY <3>2, <5>2
            <6>2. g[i] = g[i - 1] \o seqs[i]
              BY <2>1, <3>2, <6>1, FlattenStep, Zenon
            <6>3. QED
              BY <6>1, <6>2
          <5>3. QED
            BY <5>1, <5>2
        <4>3. QED
          BY <3>2, <4>1, <4>2
      <3>3. QED
        BY <3>1, <3>2
    <2>3. h = [i \in 1 .. n + 1 |-> h[i]]
      OBVIOUS
    <2> HIDE DEF h
    <2>4. Flattens(h, seqs, n + 1)
      BY <2>2, <2>3 DEF Flattens
    <2>5. QED
      BY <2>4
  <1> HIDE DEF T
  <1>3. m \in T
    BY <1>1, <1>2, SetInduction
  <1>4. QED
    BY <1>3 DEF T

\* FlattenSeq is the last of the steps.
LEMMA FlattenSteps ==
    ASSUME NEW S, NEW seqs \in Seq(Seq(S))
    PROVE  \E f : Steps(f, seqs, S) /\ FlattenSeq(seqs) = f[Len(seqs)]
  <1> DEFINE n == Len(seqs)
             g == CHOOSE g : Flattens(g, seqs, n)
             f == [i \in 0 .. n |-> IF i = 0 THEN <<>> ELSE g[i]]
  <1>1. n \in Nat /\ \A i \in 1 .. n : seqs[i] \in Seq(S)
    OBVIOUS
  <1>2. Flattens(g, seqs, n)
    BY <1>1, FlattenExists
  <1>3. FlattenSeq(seqs) = IF n = 0 THEN seqs ELSE g[n]
    BY DEF FlattenSeq, Flattens
  <1> HIDE DEF g
  <1>4. \A i \in 1 .. n : f[i] = f[i - 1] \o seqs[i]
    <2>1. ASSUME NEW i \in 1 .. n
          PROVE  f[i] = f[i - 1] \o seqs[i]
      <3>1. CASE i = 1
        <4>1. f[1] = seqs[1] /\ f[0] = <<>>
          BY <1>1, <1>2, <3>1 DEF Flattens
        <4>2. seqs[1] \in Seq(S)
          BY <1>1, <3>1
        <4>3. <<>> \o seqs[1] = seqs[1]
          BY <4>2, ConcatEmptySeq
        <4>4. QED
          BY <3>1, <4>1, <4>3, SMTT(40)
      <3>2. CASE i # 1
        <4>1. i - 1 \in 1 .. n /\ f[i - 1] = g[i - 1] /\ f[i] = g[i]
          BY <1>1, <3>2
        <4>2. g[i] = g[i - 1] \o seqs[i]
          BY <1>1, <1>2, <3>2, FlattenStep
        <4>3. QED
          BY <4>1, <4>2
      <3>3. QED
        BY <3>1, <3>2
    <2>2. QED
      BY <2>1
  <1>5. f[0] = <<>> /\ DOMAIN f = 0 .. n /\ f = [i \in 0 .. n |-> f[i]]
    BY <1>1
  <1>6. FlattenSeq(seqs) = f[n]
    BY <1>1, <1>3
  <1> HIDE DEF f
  <1>7. \A i \in 0 .. n : f[i] \in Seq(S)
    <2> DEFINE T == {i \in Nat : f[i] \in Seq(S)}
    <2>1. 0 \in T
      <3>1. <<>> \in Seq(S)
        BY EmptySeq
      <3>2. QED
        BY <1>5, <3>1
    <2>2. ASSUME NEW i \in 0 .. n - 1, i \in T
          PROVE  i + 1 \in T
      <3>1. i + 1 \in 1 .. n /\ (i + 1) - 1 = i
        BY <1>1
      <3>2. f[i + 1] = f[i] \o seqs[i + 1] /\ seqs[i + 1] \in Seq(S)
        BY <1>1, <1>4, <3>1
      <3>3. f[i] \o seqs[i + 1] \in Seq(S)
        BY <2>2, <3>2, ConcatProperties
      <3>4. f[i + 1] \in Seq(S)
        BY <3>2, <3>3, Zenon
      <3>5. QED
        BY <3>4
    <2> HIDE DEF T
    <2>3. \A i \in 0 .. n : i \in T
      BY <1>1, <2>1, <2>2, BoundedInduction
    <2>4. QED
      BY <2>3 DEF T
  <1>8. f \in [0 .. n -> Seq(S)]
    BY <1>5, <1>7
  <1>9. QED
    BY <1>4, <1>5, <1>6, <1>8 DEF Steps

\* Steps lead to one result only.
LEMMA FlattenIs ==
    ASSUME NEW S, NEW seqs \in Seq(Seq(S)), NEW f, Steps(f, seqs, S)
    PROVE  FlattenSeq(seqs) = f[Len(seqs)]
  <1>1. PICK e : Steps(e, seqs, S) /\ FlattenSeq(seqs) = e[Len(seqs)]
    BY FlattenSteps
  <1>2. Len(seqs) \in Nat
    OBVIOUS
  <1> DEFINE T == {i \in Nat : e[i] = f[i]}
  <1>3. 0 \in T
    BY <1>1 DEF Steps
  <1>4. ASSUME NEW i \in 0 .. Len(seqs) - 1, i \in T
        PROVE  i + 1 \in T
    <2>1. i + 1 \in 1 .. Len(seqs) /\ (i + 1) - 1 = i /\ i + 1 \in Nat
      BY <1>2
    <2>2. e[i + 1] = e[i] \o seqs[i + 1] /\ f[i + 1] = f[i] \o seqs[i + 1]
      BY <1>1, <2>1 DEF Steps
    <2>3. e[i + 1] = f[i + 1]
      BY <1>4, <2>2, Zenon
    <2>4. QED
      BY <2>1, <2>3
  <1> HIDE DEF T
  <1>5. \A i \in 0 .. Len(seqs) : i \in T
    BY <1>2, <1>3, <1>4, BoundedInduction
  <1>6. QED
    BY <1>1, <1>2, <1>5 DEF T

\* The concatenation has elements of the sequences.
LEMMA FlattenType ==
    ASSUME NEW S, NEW seqs \in Seq(Seq(S))
    PROVE  FlattenSeq(seqs) \in Seq(S)
  <1>1. PICK f : Steps(f, seqs, S) /\ FlattenSeq(seqs) = f[Len(seqs)]
    BY FlattenSteps
  <1>2. Len(seqs) \in 0 .. Len(seqs)
    OBVIOUS
  <1>3. QED
    BY <1>1, <1>2 DEF Steps

\* The sequences of one sequence come before those of the other.
LEMMA FlattenConcat ==
    ASSUME NEW S, NEW s \in Seq(Seq(S)), NEW t \in Seq(Seq(S))
    PROVE  FlattenSeq(s \o t) = FlattenSeq(s) \o FlattenSeq(t)
  <1>1. PICK f : Steps(f, s, S) /\ FlattenSeq(s) = f[Len(s)]
    BY FlattenSteps
  <1>2. PICK g : Steps(g, t, S) /\ FlattenSeq(t) = g[Len(t)]
    BY FlattenSteps
  <1> DEFINE m == Len(s)
             n == Len(t)
             h == [i \in 0 .. m + n |-> IF i <= m THEN f[i] ELSE f[m] \o g[i - m]]
  <1>3. /\ m \in Nat /\ n \in Nat /\ s \o t \in Seq(Seq(S)) /\ Len(s \o t) = m + n
        /\ \A i \in 1 .. m + n : (s \o t)[i] = IF i <= m THEN s[i] ELSE t[i - m]
    BY ConcatProperties
  <1>4. /\ \A i \in 0 .. m : f[i] \in Seq(S)
        /\ \A i \in 0 .. n : g[i] \in Seq(S)
        /\ f[0] = <<>> /\ g[0] = <<>>
    BY <1>1, <1>2 DEF Steps
  <1>5. \A i \in 1 .. n : t[i] \in Seq(S)
    OBVIOUS
  <1> HIDE DEF m, n
  <1>6. h[0] = <<>>
    BY <1>3, <1>4
  <1>7. \A i \in 0 .. m + n : h[i] \in Seq(S)
    <2> SUFFICES ASSUME NEW i \in 0 .. m + n
                 PROVE  h[i] \in Seq(S)
      OBVIOUS
    <2>1. CASE i <= m
      BY <1>3, <1>4, <2>1
    <2>2. CASE ~(i <= m)
      <3>1. f[m] \in Seq(S) /\ g[i - m] \in Seq(S)
        BY <1>3, <1>4, <2>2
      <3>2. f[m] \o g[i - m] \in Seq(S)
        BY <3>1, ConcatProperties
      <3>3. h[i] = f[m] \o g[i - m]
        BY <2>2
      <3>4. QED
        BY <3>2, <3>3, Zenon
    <2>3. QED
      BY <2>1, <2>2
  <1>8. ASSUME NEW i \in 1 .. m + n
        PROVE  h[i] = h[i - 1] \o (s \o t)[i]
    <2>1. i - 1 \in 0 .. m + n
      BY <1>3
    <2>2. CASE i <= m
      <3>1. h[i] = f[i] /\ h[i - 1] = f[i - 1] /\ (s \o t)[i] = s[i]
        BY <1>3, <2>1, <2>2
      <3>2. f[i] = f[i - 1] \o s[i]
        <4>1. i \in 1 .. Len(s)
          BY <1>3, <2>2 DEF m
        <4>2. QED
          BY <1>1, <4>1, Zenon DEF Steps
      <3>3. QED
        BY <3>1, <3>2, Zenon
    <2>3. CASE ~(i <= m)
      <3>1. /\ (s \o t)[i] = t[i - m]
            /\ i - m \in 1 .. n /\ i - m - 1 \in 0 .. n /\ m \in 0 .. m /\ i \in 0 .. m + n
        <4>1. i - m \in 1 .. n /\ i - m - 1 \in 0 .. n /\ m \in 0 .. m /\ i \in 0 .. m + n
          BY <1>3, <2>3
        <4>2. QED
          BY <1>3, <2>3, <4>1
      <3>2. h[i] = f[m] \o g[i - m]
        BY <2>3, <3>1
      <3>3. g[i - m] = g[i - m - 1] \o t[i - m]
        BY <1>2, <3>1 DEF Steps, n
      <3>4. f[m] \in Seq(S) /\ g[i - m - 1] \in Seq(S) /\ t[i - m] \in Seq(S)
        BY <1>4, <1>5, <3>1
      <3>5. f[m] \o (g[i - m - 1] \o t[i - m]) = (f[m] \o g[i - m - 1]) \o t[i - m]
        <4>1. ASSUME NEW a \in Seq(S), NEW b \in Seq(S), NEW c \in Seq(S)
              PROVE  a \o (b \o c) = (a \o b) \o c
          BY SMTT(30)
        <4>2. QED
          BY <3>4, <4>1, Zenon
      <3>6. h[i - 1] = f[m] \o g[i - m - 1]
        <4>1. CASE i - 1 = m
          <5>1. h[i - 1] = f[m] /\ i - m - 1 = 0
            BY <1>3, <2>1, <4>1
          <5>2. f[m] \o <<>> = f[m]
            BY <3>4, ConcatEmptySeq
          <5>3. QED
            BY <1>4, <5>1, <5>2
        <4>2. CASE i - 1 # m
          <5>1. ~(i - 1 <= m) /\ (i - 1) - m = i - m - 1
            BY <1>3, <2>1, <2>3, <4>2
          <5>2. h[i - 1] = f[m] \o g[(i - 1) - m]
            BY <2>1, <5>1
          <5>3. QED
            BY <5>1, <5>2
        <4>3. QED
          BY <4>1, <4>2
      <3>7. QED
        BY <3>1, <3>2, <3>3, <3>5, <3>6, Zenon
    <2>4. QED
      BY <2>2, <2>3
  <1>9. h[m + n] = f[m] \o g[n]
    <2>1. CASE n = 0
      <3>1. h[m + n] = f[m] /\ f[m] \in Seq(S) /\ g[n] = <<>>
        BY <1>3, <1>4, <2>1
      <3>2. f[m] \o <<>> = f[m]
        BY <3>1, ConcatEmptySeq
      <3>3. QED
        BY <3>1, <3>2
    <2>2. CASE n # 0
      <3>1. m + n \in 0 .. m + n /\ ~(m + n <= m) /\ (m + n) - m = n
        BY <1>3, <2>2
      <3>2. h[m + n] = f[m] \o g[(m + n) - m]
        BY <3>1
      <3>3. QED
        BY <3>1, <3>2
    <2>3. QED
      BY <2>1, <2>2
  <1>10. h = [i \in 0 .. m + n |-> h[i]]
    OBVIOUS
  <1> HIDE DEF h
  <1>11. Steps(h, s \o t, S)
    BY <1>3, <1>6, <1>7, <1>8, <1>10 DEF Steps
  <1>12. QED
    BY <1>1, <1>2, <1>3, <1>9, <1>11, FlattenIs DEF m, n

-----------------------------------------------------------------------------
(* Packets and their frames.                                               *)

Octets == 0 .. 255

\* What Write can put into the queue.
Packets == {NewPacket(c, n) : c \in Classes, n \in 1 .. 255}

\* The class of a packet, and the bytes of its frame one by one.
Frame(f, c, n) ==
    /\ f \in Seq(0 .. 255) /\ Len(f) = 10 + MoreBytes(c)
    /\ f[1] = 3 /\ f[2] = 0 /\ f[3] = 7 + MoreBytes(c)
    /\ f[4] = c[1] /\ f[5] = c[2] /\ f[6] = 51 /\ f[7] = 0 /\ f[8] = 56
    /\ f[9] = 0 /\ f[10] = n
    /\ \A j \in 1 .. MoreBytes(c) : f[10 + j] = j

\* How many bytes the classes have.
LEMMA ClassSizes ==
    ASSUME NEW c \in Registered
    PROVE  MoreBytes(c) \in 0 .. 22 /\ c[1] \in 0 .. 2 /\ c[2] \in 0 .. 2 /\ c = <<c[1], c[2]>>
  <1>1. c \in {<<0, 0>>, <<0, 2>>, <<2, 1>>, <<2, 2>>}
    BY DEF Registered, BasePacket, ConnectionCommsPacket, PositionPacket, MovementPacket
  <1>2. CASE c = <<0, 0>>
    BY <1>2 DEF MoreBytes, BasePacket, ConnectionCommsPacket, PositionPacket, MovementPacket
  <1>3. CASE c = <<0, 2>>
    BY <1>3 DEF MoreBytes, BasePacket, ConnectionCommsPacket, PositionPacket, MovementPacket
  <1>4. CASE c = <<2, 1>>
    BY <1>4 DEF MoreBytes, BasePacket, ConnectionCommsPacket, PositionPacket, MovementPacket
  <1>5. CASE c = <<2, 2>>
    BY <1>5 DEF MoreBytes, BasePacket, ConnectionCommsPacket, PositionPacket, MovementPacket
  <1>6. QED
    BY <1>1, <1>2, <1>3, <1>4, <1>5

\* The most and the least significant byte of a number of one byte.
LEMMA SmallNumber == ASSUME NEW v \in 0 .. 255 PROVE U16Out(v) = <<0, v>>
  <1>1. v \div 256 = 0 /\ v % 256 = v
    OBVIOUS
  <1>2. QED
    BY <1>1 DEF U16Out

\* The fields of a packet.
Fields(p, c, n) ==
    /\ p.type = c[1] /\ p.subtype = c[2] /\ p.major = 51 /\ p.minor = 0 /\ p.product = 56
    /\ p.instance = n
    /\ p.more \in Seq(0 .. 255) /\ Len(p.more) = MoreBytes(c)
    /\ \A j \in 1 .. MoreBytes(c) : p.more[j] = j
    /\ FrameLength(p) = 10 + MoreBytes(c)

\* What NewPacket fills in.
LEMMA PacketFields ==
    ASSUME NEW c \in Registered, NEW n \in 1 .. 255
    PROVE  Fields(NewPacket(c, n), c, n)
  <1> DEFINE m == MoreBytes(c)
             p == NewPacket(c, n)
  <1>1. m \in 0 .. 22
    BY ClassSizes
  <1>2. /\ p.more = [i \in 1 .. m |-> i]
        /\ p.type = c[1] /\ p.subtype = c[2] /\ p.major = 51 /\ p.minor = 0 /\ p.product = 56
        /\ p.instance = n
    BY DEF NewPacket
  <1> HIDE DEF m, p
  <1>3. p.more \in Seq(0 .. 255) /\ Len(p.more) = m /\ \A j \in 1 .. m : p.more[j] = j
    BY <1>1, <1>2
  <1>4. FrameLength(p) = 10 + m
    BY <1>1, <1>3 DEF FrameLength
  <1>5. Fields(p, c, n)
    BY <1>2, <1>3, <1>4 DEF Fields, m
  <1>6. QED
    BY <1>5 DEF p

\* The bytes of a frame.
LEMMA FrameBytes ==
    ASSUME NEW c \in Registered, NEW n \in 1 .. 255
    PROVE  Frame(FrameOut(NewPacket(c, n)), c, n)
  <1> DEFINE p == NewPacket(c, n)
             m == MoreBytes(c)
             more == p.more
             five == <<c[1], c[2], 51, 0, 56>>
             base == five \o <<0, n>>
             size == <<3>> \o <<0, 7 + m>>
             body == base \o more
  <1>1. m \in 0 .. 22 /\ c[1] \in 0 .. 2 /\ c[2] \in 0 .. 2
    BY ClassSizes
  <1>2. /\ p.type = c[1] /\ p.subtype = c[2] /\ p.major = 51 /\ p.minor = 0 /\ p.product = 56
        /\ p.instance = n
        /\ more \in Seq(0 .. 255) /\ Len(more) = m
        /\ \A j \in 1 .. m : more[j] = j
    <2>1. Fields(p, c, n)
      BY PacketFields
    <2> HIDE DEF p
    <2>2. QED
      BY <2>1 DEF Fields
  <1> HIDE DEF p, m, more
  <1>3. BasePacketOut(p) = base
    <2>1. U16Out(n) = <<0, n>>
      <3>1. n \in 0 .. 255
        OBVIOUS
      <3>2. QED
        BY <3>1, SmallNumber
    <2>2. QED
      BY <1>2, <2>1 DEF BasePacketOut
  <1>4. /\ base \in Seq(0 .. 255) /\ Len(base) = 7
        /\ base[1] = c[1] /\ base[2] = c[2] /\ base[3] = 51 /\ base[4] = 0 /\ base[5] = 56
        /\ base[6] = 0 /\ base[7] = n
    <2>1. five \in Seq(0 .. 255) /\ Len(five) = 5 /\ <<0, n>> \in Seq(0 .. 255) /\ Len(<<0, n>>) = 2
      BY <1>1
    <2>2. /\ base \in Seq(0 .. 255) /\ Len(base) = 5 + 2
          /\ \A i \in 1 .. 5 + 2 : base[i] = IF i <= 5 THEN five[i] ELSE <<0, n>>[i - 5]
      BY <2>1, ConcatProperties
    <2> HIDE DEF base
    <2>3. /\ base[1] = five[1] /\ base[2] = five[2] /\ base[3] = five[3] /\ base[4] = five[4]
          /\ base[5] = five[5] /\ base[6] = <<0, n>>[1] /\ base[7] = <<0, n>>[2]
      BY <2>2
    <2>4. QED
      BY <2>2, <2>3
  <1> HIDE DEF base
  <1>5. /\ body \in Seq(0 .. 255) /\ Len(body) = 7 + m
        /\ \A i \in 1 .. 7 : body[i] = base[i]
        /\ \A j \in 1 .. m : body[7 + j] = j
    <2>0. /\ body \in Seq(0 .. 255) /\ Len(body) = Len(base) + Len(more)
          /\ \A i \in 1 .. Len(base) + Len(more) :
                body[i] = IF i <= Len(base) THEN base[i] ELSE more[i - Len(base)]
      <3>1. base \in Seq(0 .. 255) /\ more \in Seq(0 .. 255)
        BY <1>2, <1>4
      <3>2. QED
        BY <3>1, ConcatProperties
    <2> HIDE DEF body
    <2>1. /\ body \in Seq(0 .. 255) /\ Len(body) = 7 + m
          /\ \A i \in 1 .. 7 + m : body[i] = IF i <= 7 THEN base[i] ELSE more[i - 7]
      BY <1>2, <1>4, <2>0
    <2>2. \A j \in 1 .. m : 7 + j \in 1 .. 7 + m /\ ~(7 + j <= 7) /\ (7 + j) - 7 = j
      BY <1>1
    <2>3. \A j \in 1 .. m : body[7 + j] = j
      BY <1>2, <2>1, <2>2
    <2>4. \A i \in 1 .. 7 : body[i] = base[i]
      BY <1>1, <2>1
    <2>5. QED
      BY <2>1, <2>3, <2>4
  <1>6. PacketOut(p) = body
    BY <1>3 DEF PacketOut, more
  <1> HIDE DEF body
  <1>7. FrameOut(p) = size \o body
    <2>1. U16Out(Len(body)) = <<0, 7 + m>>
      <3>1. 7 + m \in 0 .. 255
        BY <1>1
      <3>2. QED
        BY <1>5, <3>1, SmallNumber, ZenonT(40)
    <2>2. QED
      BY <1>6, <2>1 DEF FrameOut
  <1>8. size \in Seq(0 .. 255) /\ Len(size) = 3 /\ size[1] = 3 /\ size[2] = 0 /\ size[3] = 7 + m
    <2>1. <<3>> \in Seq(0 .. 255) /\ Len(<<3>>) = 1 /\ <<0, 7 + m>> \in Seq(0 .. 255) /\ Len(<<0, 7 + m>>) = 2
      BY <1>1
    <2>2. /\ size \in Seq(0 .. 255) /\ Len(size) = 1 + 2
          /\ \A i \in 1 .. 1 + 2 : size[i] = IF i <= 1 THEN <<3>>[i] ELSE <<0, 7 + m>>[i - 1]
      BY <2>1, ConcatProperties
    <2> HIDE DEF size
    <2>3. size[1] = <<3>>[1] /\ size[2] = <<0, 7 + m>>[1] /\ size[3] = <<0, 7 + m>>[2]
      BY <2>2
    <2>4. QED
      BY <2>2, <2>3
  <1> HIDE DEF size
  <1>9. /\ FrameOut(p) \in Seq(0 .. 255) /\ Len(FrameOut(p)) = 3 + (7 + m)
        /\ \A i \in 1 .. 3 + (7 + m) : FrameOut(p)[i] = IF i <= 3 THEN size[i] ELSE body[i - 3]
    <2>1. /\ FrameOut(p) \in Seq(0 .. 255) /\ Len(FrameOut(p)) = Len(size) + Len(body)
          /\ \A i \in 1 .. Len(size) + Len(body) :
                FrameOut(p)[i] = IF i <= Len(size) THEN size[i] ELSE body[i - Len(size)]
      <3>1. size \in Seq(0 .. 255) /\ body \in Seq(0 .. 255)
        BY <1>5, <1>8
      <3>2. /\ size \o body \in Seq(0 .. 255) /\ Len(size \o body) = Len(size) + Len(body)
            /\ \A i \in 1 .. Len(size) + Len(body) :
                  (size \o body)[i] = IF i <= Len(size) THEN size[i] ELSE body[i - Len(size)]
        BY <3>1, ConcatProperties
      <3>3. QED
        BY <1>7, <3>2
    <2>2. QED
      BY <1>5, <1>8, <2>1
  <1>10. FrameOut(p)[1] = 3 /\ FrameOut(p)[2] = 0 /\ FrameOut(p)[3] = 7 + m
    BY <1>1, <1>8, <1>9
  <1>11. \A i \in 1 .. 7 + m : FrameOut(p)[3 + i] = body[i]
    <2>1. \A i \in 1 .. 7 + m : 3 + i \in 1 .. 3 + (7 + m) /\ ~(3 + i <= 3) /\ (3 + i) - 3 = i
      BY <1>1
    <2>2. QED
      BY <1>9, <2>1
  <1>12. \A j \in 1 .. m : FrameOut(p)[10 + j] = j
    <2>1. \A j \in 1 .. m : 7 + j \in 1 .. 7 + m /\ 3 + (7 + j) = 10 + j
      BY <1>1
    <2>2. QED
      BY <1>5, <1>11, <2>1
  <1>13. /\ FrameOut(p)[4] = base[1] /\ FrameOut(p)[5] = base[2] /\ FrameOut(p)[6] = base[3]
         /\ FrameOut(p)[7] = base[4] /\ FrameOut(p)[8] = base[5] /\ FrameOut(p)[9] = base[6]
         /\ FrameOut(p)[10] = base[7]
    <2>1. /\ FrameOut(p)[3 + 1] = body[1] /\ FrameOut(p)[3 + 2] = body[2] /\ FrameOut(p)[3 + 3] = body[3]
          /\ FrameOut(p)[3 + 4] = body[4] /\ FrameOut(p)[3 + 5] = body[5] /\ FrameOut(p)[3 + 6] = body[6]
          /\ FrameOut(p)[3 + 7] = body[7]
      BY <1>1, <1>11
    <2>2. QED
      BY <1>5, <2>1
  <1>14. Len(FrameOut(p)) = 10 + m
    BY <1>1, <1>9
  <1>15. QED
    BY <1>4, <1>9, <1>10, <1>12, <1>13, <1>14 DEF Frame, p, m

-----------------------------------------------------------------------------
(* Where frames begin.                                                     *)

\* The recursive function in StartOf exists, and its values do not depend on
\* how far it goes.
Starts(g, packets, n) ==
    g = [j \in 1 .. n |-> IF j = 1 THEN 0 ELSE g[j - 1] + FrameLength(packets[j - 1])]

\* What it says of one index.
LEMMA StartStep ==
    ASSUME NEW g, NEW packets, NEW n \in Nat, Starts(g, packets, n), NEW j \in 1 .. n
    PROVE  /\ j = 1 => g[j] = 0
           /\ j # 1 => g[j] = g[j - 1] + FrameLength(packets[j - 1])
  BY Zenon DEF Starts

\* There is one for each bound: the next extends it by one value.
LEMMA StartExists ==
    ASSUME NEW packets, NEW m \in Nat
    PROVE  \E g : Starts(g, packets, m)
  <1> DEFINE T == {n \in Nat : \E g : Starts(g, packets, n)}
  <1>1. 0 \in T
    <2>1. Starts([j \in 1 .. 0 |-> 0], packets, 0)
      BY DEF Starts
    <2>2. QED
      BY <2>1
  <1>2. ASSUME NEW n \in Nat, n \in T
        PROVE  n + 1 \in T
    <2>1. PICK g : Starts(g, packets, n)
      BY <1>2
    <2> DEFINE h == [j \in 1 .. n + 1 |-> IF j = 1 THEN 0
                        ELSE IF j = n + 1 THEN g[n] + FrameLength(packets[n]) ELSE g[j]]
    <2>2. ASSUME NEW j \in 1 .. n + 1
          PROVE  h[j] = IF j = 1 THEN 0 ELSE h[j - 1] + FrameLength(packets[j - 1])
      <3>1. CASE j = 1
        BY <3>1
      <3>2. CASE j # 1
        <4>1. j - 1 \in 1 .. n /\ h[j - 1] = g[j - 1]
          BY <2>1, <3>2, StartStep
        <4>2. h[j] = g[j - 1] + FrameLength(packets[j - 1])
          <5>1. CASE j = n + 1
            <6>1. j - 1 = n /\ h[j] = g[n] + FrameLength(packets[n])
              BY <3>2, <5>1
            <6>2. QED
              BY <6>1
          <5>2. CASE j # n + 1
            <6>1. j \in 1 .. n /\ h[j] = g[j]
              BY <3>2, <5>2
            <6>2. g[j] = g[j - 1] + FrameLength(packets[j - 1])
              BY <2>1, <3>2, <6>1, StartStep, Zenon
            <6>3. QED
              BY <6>1, <6>2, Zenon
          <5>3. QED
            BY <5>1, <5>2
        <4>3. QED
          BY <3>2, <4>1, <4>2, Zenon
      <3>3. QED
        BY <3>1, <3>2
    <2>3. h = [j \in 1 .. n + 1 |-> h[j]]
      OBVIOUS
    <2> HIDE DEF h
    <2>4. Starts(h, packets, n + 1)
      BY <2>2, <2>3, Zenon DEF Starts
    <2>5. QED
      BY <2>4
  <1> HIDE DEF T
  <1>3. m \in T
    BY <1>1, <1>2, SetInduction
  <1>4. QED
    BY <1>3 DEF T

\* A longer one agrees with a shorter one.
LEMMA StartUnique ==
    ASSUME NEW packets, NEW m \in Nat, NEW n \in Nat, m <= n,
           NEW g, Starts(g, packets, m), NEW h, Starts(h, packets, n), NEW i \in 1 .. m
    PROVE  g[i] = h[i]
  <1> DEFINE T == {j \in Nat : j = 0 \/ g[j] = h[j]}
  <1>1. 0 \in T
    OBVIOUS
  <1>2. ASSUME NEW j \in 0 .. m - 1, j \in T
        PROVE  j + 1 \in T
    <2>1. j + 1 \in 1 .. m /\ j + 1 \in 1 .. n /\ (j + 1) - 1 = j /\ j + 1 \in Nat
      OBVIOUS
    <2>2. CASE j = 0
      <3>1. g[j + 1] = 0 /\ h[j + 1] = 0
        BY <2>1, <2>2, StartStep
      <3>2. QED
        BY <2>1, <3>1
    <2>3. CASE j # 0
      <3>1. j + 1 # 1 /\ g[j] = h[j]
        BY <1>2, <2>3
      <3>2. g[j + 1] = g[(j + 1) - 1] + FrameLength(packets[(j + 1) - 1])
        BY <2>1, <3>1, StartStep, Zenon
      <3>3. h[j + 1] = h[(j + 1) - 1] + FrameLength(packets[(j + 1) - 1])
        BY <2>1, <3>1, StartStep, Zenon
      <3>4. g[j + 1] = h[j + 1]
        BY <2>1, <3>1, <3>2, <3>3, Zenon
      <3>5. QED
        BY <2>1, <3>4
    <2>4. QED
      BY <2>2, <2>3
  <1> HIDE DEF T
  <1>3. i \in T
    BY <1>1, <1>2, BoundedInduction
  <1>4. QED
    BY <1>3 DEF T

\* The first frame begins at zero.
LEMMA StartOfFirst == ASSUME NEW packets PROVE StartOf(packets, 1) = 0
  <1> DEFINE g == CHOOSE g : Starts(g, packets, 1)
  <1>1. Starts(g, packets, 1)
    BY StartExists
  <1>2. StartOf(packets, 1) = g[1]
    BY DEF StartOf, Starts
  <1> HIDE DEF g
  <1>3. QED
    BY <1>1, <1>2, StartStep

\* The next frame begins where one ends.
LEMMA StartOfNext ==
    ASSUME NEW packets, NEW i \in Nat, i # 0
    PROVE  StartOf(packets, i + 1) = StartOf(packets, i) + FrameLength(packets[i])
  <1> DEFINE g == CHOOSE g : Starts(g, packets, i)
             h == CHOOSE h : Starts(h, packets, i + 1)
  <1>1. Starts(g, packets, i)
    BY StartExists
  <1>2. Starts(h, packets, i + 1)
    BY StartExists
  <1>3. StartOf(packets, i) = g[i] /\ StartOf(packets, i + 1) = h[i + 1]
    BY DEF StartOf, Starts
  <1> HIDE DEF g, h
  <1>4. g[i] = h[i]
    BY <1>1, <1>2, StartUnique
  <1>5. h[i + 1] = h[(i + 1) - 1] + FrameLength(packets[(i + 1) - 1]) /\ (i + 1) - 1 = i
    BY <1>2, StartStep
  <1>6. QED
    BY <1>3, <1>4, <1>5, Zenon

\* A packet of the client: its frame is as long as StartOf counts.
LEMMA PacketBytes ==
    ASSUME NEW p \in Packets
    PROVE  /\ FrameLength(p) \in Nat /\ 10 <= FrameLength(p)
           /\ FrameOut(p) \in Seq(Octets) /\ Len(FrameOut(p)) = FrameLength(p)
  <1>1. PICK c \in Classes, n \in 1 .. 255 : p = NewPacket(c, n)
    BY DEF Packets
  <1>2. c \in Registered
    BY ClassAssumption
  <1>3. Fields(p, c, n) /\ Frame(FrameOut(p), c, n)
    BY <1>1, <1>2, PacketFields, FrameBytes
  <1>4. MoreBytes(c) \in Nat
    <2>1. MoreBytes(c) \in 0 .. 22
      BY <1>2, ClassSizes, Zenon
    <2>2. QED
      BY <2>1
  <1>5. FrameLength(p) = 10 + MoreBytes(c)
    BY <1>3 DEF Fields
  <1>6. FrameOut(p) \in Seq(Octets) /\ Len(FrameOut(p)) = 10 + MoreBytes(c)
    BY <1>3 DEF Frame, Octets
  <1>7. FrameLength(p) \in Nat /\ 10 <= FrameLength(p)
    BY <1>4, <1>5
  <1>8. QED
    BY <1>5, <1>6, <1>7

\* Its class and its number.
LEMMA PacketClass ==
    ASSUME NEW p \in Packets
    PROVE  \E c \in Classes, n \in 1 .. 255 : Fields(p, c, n) /\ Frame(FrameOut(p), c, n)
  <1>1. PICK c \in Classes, n \in 1 .. 255 : p = NewPacket(c, n)
    BY DEF Packets
  <1>2. c \in Registered
    BY ClassAssumption
  <1>3. Fields(p, c, n) /\ Frame(FrameOut(p), c, n)
    BY <1>1, <1>2, PacketFields, FrameBytes
  <1>4. QED
    BY <1>3

\* Every frame begins at a number.
LEMMA StartType ==
    ASSUME NEW q \in Seq(Packets), NEW i \in 1 .. Len(q) + 1
    PROVE  StartOf(q, i) \in Nat
  <1> DEFINE T == {j \in Nat : StartOf(q, j + 1) \in Nat}
  <1>1. 0 \in T
    BY StartOfFirst
  <1>2. ASSUME NEW j \in 0 .. Len(q) - 1, j \in T
        PROVE  j + 1 \in T
    <2>1. j + 1 \in 1 .. Len(q) /\ j + 1 \in Nat /\ j + 1 # 0
      OBVIOUS
    <2>2. FrameLength(q[j + 1]) \in Nat /\ 10 <= FrameLength(q[j + 1])
      BY <2>1, PacketBytes
    <2>3. StartOf(q, (j + 1) + 1) = StartOf(q, j + 1) + FrameLength(q[j + 1])
      BY <2>1, StartOfNext
    <2>4. StartOf(q, j + 1) \in Nat
      BY <1>2
    <2>5. QED
      BY <2>1, <2>2, <2>3, <2>4
  <1> HIDE DEF T
  <1>3. \A j \in 0 .. Len(q) : j \in T
    <2>1. Len(q) \in Nat
      OBVIOUS
    <2>2. QED
      BY <1>1, <1>2, <2>1, BoundedInduction
  <1>4. i - 1 \in 0 .. Len(q) /\ (i - 1) + 1 = i
    OBVIOUS
  <1>5. StartOf(q, (i - 1) + 1) \in Nat
    BY <1>3, <1>4 DEF T
  <1>6. QED
    BY <1>4, <1>5

\* A frame ends before the later ones begin.
LEMMA StartOrder ==
    ASSUME NEW q \in Seq(Packets), NEW i \in 1 .. Len(q), NEW j \in i + 1 .. Len(q) + 1
    PROVE  StartOf(q, i) + FrameLength(q[i]) <= StartOf(q, j)
  <1> DEFINE T == {d \in Nat : StartOf(q, i) + FrameLength(q[i]) <= StartOf(q, i + d + 1)}
             m == Len(q) - i
  <1>0. m \in Nat /\ StartOf(q, i) \in Nat /\ FrameLength(q[i]) \in Nat
    <2>1. i \in 1 .. Len(q) + 1
      OBVIOUS
    <2>2. StartOf(q, i) \in Nat
      BY <2>1, StartType
    <2>3. FrameLength(q[i]) \in Nat /\ 10 <= FrameLength(q[i])
      BY PacketBytes
    <2>4. QED
      BY <2>2, <2>3
  <1>1. 0 \in T
    <2>1. StartOf(q, i + 1) = StartOf(q, i) + FrameLength(q[i])
      BY StartOfNext
    <2>2. i + 0 + 1 = i + 1
      OBVIOUS
    <2>3. StartOf(q, i) + FrameLength(q[i]) <= StartOf(q, i) + FrameLength(q[i])
      BY <1>0
    <2>4. QED
      BY <2>1, <2>2, <2>3
  <1>2. ASSUME NEW d \in 0 .. m - 1, d \in T
        PROVE  d + 1 \in T
    <2>1. /\ i + d + 1 \in 1 .. Len(q) /\ i + d + 1 \in 1 .. Len(q) + 1 /\ i + d + 1 \in Nat
          /\ i + d + 1 # 0 /\ (i + d + 1) + 1 = i + (d + 1) + 1 /\ d + 1 \in Nat
      OBVIOUS
    <2>2. FrameLength(q[i + d + 1]) \in Nat /\ 10 <= FrameLength(q[i + d + 1])
      BY <2>1, PacketBytes
    <2>3. StartOf(q, (i + d + 1) + 1) = StartOf(q, i + d + 1) + FrameLength(q[i + d + 1])
      BY <2>1, StartOfNext
    <2>4. StartOf(q, i + d + 1) \in Nat
      BY <2>1, StartType
    <2>5. StartOf(q, i) + FrameLength(q[i]) <= StartOf(q, i + d + 1)
      BY <1>2
    <2>6. StartOf(q, i) + FrameLength(q[i]) <= StartOf(q, (i + d + 1) + 1)
      BY <1>0, <2>2, <2>3, <2>4, <2>5
    <2>7. QED
      BY <2>1, <2>6
  <1> HIDE DEF T
  <1>3. \A d \in 0 .. m : d \in T
    BY <1>0, <1>1, <1>2, BoundedInduction
  <1>4. j - (i + 1) \in 0 .. m /\ i + (j - (i + 1)) + 1 = j
    OBVIOUS
  <1>5. StartOf(q, i) + FrameLength(q[i]) <= StartOf(q, i + (j - (i + 1)) + 1)
    BY <1>3, <1>4 DEF T
  <1>6. QED
    BY <1>4, <1>5

\* Where a frame begins depends on the frames before it.
LEMMA StartPrefix ==
    ASSUME NEW q, NEW r, NEW n \in Nat, \A j \in 1 .. n : q[j] = r[j], NEW i \in 1 .. n + 1
    PROVE  StartOf(q, i) = StartOf(r, i)
  <1> DEFINE T == {j \in Nat : StartOf(q, j + 1) = StartOf(r, j + 1)}
  <1>1. 0 \in T
    BY StartOfFirst
  <1>2. ASSUME NEW j \in 0 .. n - 1, j \in T
        PROVE  j + 1 \in T
    <2>1. j + 1 \in 1 .. n /\ j + 1 \in Nat /\ j + 1 # 0
      OBVIOUS
    <2>2. q[j + 1] = r[j + 1]
      BY <2>1
    <2>3. StartOf(q, (j + 1) + 1) = StartOf(q, j + 1) + FrameLength(q[j + 1])
      BY <2>1, StartOfNext
    <2>4. StartOf(r, (j + 1) + 1) = StartOf(r, j + 1) + FrameLength(r[j + 1])
      BY <2>1, StartOfNext
    <2>5. StartOf(q, j + 1) = StartOf(r, j + 1)
      BY <1>2
    <2>6. StartOf(q, (j + 1) + 1) = StartOf(r, (j + 1) + 1)
      BY <2>2, <2>3, <2>4, <2>5, Zenon
    <2>7. QED
      BY <2>1, <2>6
  <1> HIDE DEF T
  <1>3. \A j \in 0 .. n : j \in T
    BY <1>1, <1>2, BoundedInduction
  <1>4. i - 1 \in 0 .. n /\ (i - 1) + 1 = i
    OBVIOUS
  <1>5. StartOf(q, (i - 1) + 1) = StartOf(r, (i - 1) + 1)
    BY <1>3, <1>4 DEF T
  <1>6. QED
    BY <1>4, <1>5, Zenon

-----------------------------------------------------------------------------
(* The bytes of several frames.                                            *)

FramesOf(q) == [i \in DOMAIN q |-> FrameOut(q[i])]

\* The frames one by one.
LEMMA FramesOfType ==
    ASSUME NEW q \in Seq(Packets)
    PROVE  /\ FramesOf(q) \in Seq(Seq(Octets)) /\ Len(FramesOf(q)) = Len(q)
           /\ \A i \in 1 .. Len(q) : FramesOf(q)[i] = FrameOut(q[i])
           /\ Frames(q) = FlattenSeq(FramesOf(q))
  <1>1. Len(q) \in Nat /\ DOMAIN q = 1 .. Len(q)
    OBVIOUS
  <1>2. \A i \in 1 .. Len(q) : FrameOut(q[i]) \in Seq(Octets)
    <2>1. \A i \in 1 .. Len(q) : q[i] \in Packets
      OBVIOUS
    <2>2. QED
      BY <2>1, PacketBytes
  <1>3. FramesOf(q) = [i \in 1 .. Len(q) |-> FrameOut(q[i])]
    BY <1>1 DEF FramesOf
  <1>4. \A i \in 1 .. Len(q) : FramesOf(q)[i] = FrameOut(q[i])
    BY <1>3
  <1>5. FramesOf(q) \in [1 .. Len(q) -> Seq(Octets)]
    BY <1>2, <1>3
  <1>6. FramesOf(q) \in Seq(Seq(Octets)) /\ Len(FramesOf(q)) = Len(q)
    BY <1>1, <1>5
  <1>7. Frames(q) = FlattenSeq(FramesOf(q))
    BY DEF Frames, FramesOf
  <1>8. QED
    BY <1>4, <1>6, <1>7

\* Frames are bytes.
LEMMA FramesType == ASSUME NEW q \in Seq(Packets) PROVE Frames(q) \in Seq(Octets)
  <1>1. FramesOf(q) \in Seq(Seq(Octets)) /\ Frames(q) = FlattenSeq(FramesOf(q))
    BY FramesOfType
  <1>2. FlattenSeq(FramesOf(q)) \in Seq(Octets)
    BY <1>1, FlattenType
  <1>3. QED
    BY <1>1, <1>2, Zenon

\* The frames of packets written later come later.
LEMMA FramesConcat ==
    ASSUME NEW p \in Seq(Packets), NEW q \in Seq(Packets)
    PROVE  Frames(p \o q) = Frames(p) \o Frames(q)
  <1>1. /\ p \o q \in Seq(Packets) /\ Len(p \o q) = Len(p) + Len(q)
        /\ \A i \in 1 .. Len(p) + Len(q) : (p \o q)[i] = IF i <= Len(p) THEN p[i] ELSE q[i - Len(p)]
    BY ConcatProperties
  <1>2. /\ FramesOf(p \o q) \in Seq(Seq(Octets)) /\ Len(FramesOf(p \o q)) = Len(p \o q)
        /\ \A i \in 1 .. Len(p \o q) : FramesOf(p \o q)[i] = FrameOut((p \o q)[i])
        /\ Frames(p \o q) = FlattenSeq(FramesOf(p \o q))
    BY <1>1, FramesOfType
  <1>3. /\ FramesOf(p) \in Seq(Seq(Octets)) /\ Len(FramesOf(p)) = Len(p)
        /\ \A i \in 1 .. Len(p) : FramesOf(p)[i] = FrameOut(p[i])
        /\ Frames(p) = FlattenSeq(FramesOf(p))
    BY FramesOfType
  <1>4. /\ FramesOf(q) \in Seq(Seq(Octets)) /\ Len(FramesOf(q)) = Len(q)
        /\ \A i \in 1 .. Len(q) : FramesOf(q)[i] = FrameOut(q[i])
        /\ Frames(q) = FlattenSeq(FramesOf(q))
    BY FramesOfType
  <1>5. FramesOf(p \o q) = FramesOf(p) \o FramesOf(q)
    <2>1. /\ FramesOf(p) \o FramesOf(q) \in Seq(Seq(Octets))
          /\ Len(FramesOf(p) \o FramesOf(q)) = Len(FramesOf(p)) + Len(FramesOf(q))
          /\ \A i \in 1 .. Len(FramesOf(p)) + Len(FramesOf(q)) :
                (FramesOf(p) \o FramesOf(q))[i] =
                    IF i <= Len(FramesOf(p)) THEN FramesOf(p)[i] ELSE FramesOf(q)[i - Len(FramesOf(p))]
      <3>1. FramesOf(p) \in Seq(Seq(Octets)) /\ FramesOf(q) \in Seq(Seq(Octets))
        BY <1>3, <1>4
      <3>2. QED
        BY <3>1, ConcatProperties
    <2>2. Len(FramesOf(p \o q)) = Len(FramesOf(p) \o FramesOf(q))
      BY <1>1, <1>2, <1>3, <1>4, <2>1
    <2>3. ASSUME NEW i \in 1 .. Len(FramesOf(p \o q))
          PROVE  FramesOf(p \o q)[i] = (FramesOf(p) \o FramesOf(q))[i]
      <3>1. /\ Len(p) \in Nat /\ Len(q) \in Nat /\ i \in 1 .. Len(p) + Len(q)
            /\ i \in 1 .. Len(p \o q) /\ i \in 1 .. Len(FramesOf(p)) + Len(FramesOf(q))
        BY <1>1, <1>2, <1>3, <1>4
      <3>2. CASE i <= Len(p)
        <4>1. i \in 1 .. Len(p) /\ i <= Len(FramesOf(p))
          BY <1>3, <3>1, <3>2
        <4>2. FramesOf(p \o q)[i] = FrameOut((p \o q)[i]) /\ (p \o q)[i] = p[i]
          BY <1>1, <1>2, <3>1, <3>2, Zenon
        <4>3. (FramesOf(p) \o FramesOf(q))[i] = FramesOf(p)[i] /\ FramesOf(p)[i] = FrameOut(p[i])
          BY <1>3, <2>1, <3>1, <4>1, Zenon
        <4>4. QED
          BY <4>2, <4>3, Zenon
      <3>3. CASE ~(i <= Len(p))
        <4>1. i - Len(p) \in 1 .. Len(q) /\ ~(i <= Len(FramesOf(p)))
          BY <1>3, <3>1, <3>3
        <4>2. FramesOf(p \o q)[i] = FrameOut((p \o q)[i]) /\ (p \o q)[i] = q[i - Len(p)]
          BY <1>1, <1>2, <3>1, <3>3, Zenon
        <4>3. (FramesOf(p) \o FramesOf(q))[i] = FramesOf(q)[i - Len(p)]
          BY <1>3, <2>1, <3>1, <4>1, Zenon
        <4>4. FramesOf(q)[i - Len(p)] = FrameOut(q[i - Len(p)])
          BY <1>4, <4>1, Zenon
        <4>5. QED
          BY <4>2, <4>3, <4>4, Zenon
      <3>4. QED
        BY <3>2, <3>3
    <2>4. QED
      <3>1. FramesOf(p \o q) \in Seq(Seq(Octets)) /\ FramesOf(p) \o FramesOf(q) \in Seq(Seq(Octets))
        BY <1>2, <2>1
      <3>2. QED
        BY <2>2, <2>3, <3>1, SeqEqual
  <1>6. FlattenSeq(FramesOf(p) \o FramesOf(q)) = FlattenSeq(FramesOf(p)) \o FlattenSeq(FramesOf(q))
    <2>1. FramesOf(p) \in Seq(Seq(Octets)) /\ FramesOf(q) \in Seq(Seq(Octets))
      BY <1>3, <1>4
    <2>2. QED
      BY <2>1, FlattenConcat
  <1>7. QED
    BY <1>2, <1>3, <1>4, <1>5, <1>6, Zenon

\* Where a step of the concatenation ends.
LEMMA FrameSteps ==
    ASSUME NEW q \in Seq(Packets), NEW f, Steps(f, FramesOf(q), Octets), NEW j \in 0 .. Len(q)
    PROVE  f[j] \in Seq(Octets) /\ Len(f[j]) = StartOf(q, j + 1)
  <1>1. Len(q) \in Nat
    OBVIOUS
  <1>2. /\ Len(FramesOf(q)) = Len(q)
        /\ \A i \in 1 .. Len(q) : FramesOf(q)[i] = FrameOut(q[i])
    BY FramesOfType
  <1>3. f[0] = <<>> /\ \A i \in 0 .. Len(q) : f[i] \in Seq(Octets)
    BY <1>2 DEF Steps
  <1>4. \A i \in 1 .. Len(q) : f[i] = f[i - 1] \o FrameOut(q[i])
    BY <1>2, Zenon DEF Steps
  <1> DEFINE T == {i \in Nat : Len(f[i]) = StartOf(q, i + 1)}
  <1>5. 0 \in T
    <2>1. StartOf(q, 1) = 0
      BY StartOfFirst
    <2>2. Len(f[0]) = 0
      BY <1>3
    <2>3. QED
      BY <2>1, <2>2
  <1>6. ASSUME NEW i \in 0 .. Len(q) - 1, i \in T
        PROVE  i + 1 \in T
    <2>1. i + 1 \in 1 .. Len(q) /\ i + 1 \in Nat /\ i + 1 # 0 /\ (i + 1) - 1 = i /\ i \in 0 .. Len(q)
      BY <1>1
    <2>2. q[i + 1] \in Packets
      BY <2>1
    <2>3. FrameOut(q[i + 1]) \in Seq(Octets) /\ Len(FrameOut(q[i + 1])) = FrameLength(q[i + 1])
      BY <2>2, PacketBytes
    <2>4. f[i] \in Seq(Octets)
      BY <1>3, <2>1
    <2>5. Len(f[i] \o FrameOut(q[i + 1])) = Len(f[i]) + Len(FrameOut(q[i + 1]))
      BY <2>3, <2>4, ConcatProperties
    <2>6. f[i + 1] = f[(i + 1) - 1] \o FrameOut(q[i + 1])
      BY <1>4, <2>1
    <2>7. StartOf(q, (i + 1) + 1) = StartOf(q, i + 1) + FrameLength(q[i + 1])
      BY <2>1, StartOfNext
    <2>8. Len(f[i]) = StartOf(q, i + 1)
      BY <1>6
    <2>9. Len(f[i + 1]) = StartOf(q, (i + 1) + 1)
      BY <2>1, <2>3, <2>5, <2>6, <2>7, <2>8, Zenon
    <2>10. QED
      BY <2>1, <2>9
  <1> HIDE DEF T
  <1>7. \A i \in 0 .. Len(q) : i \in T
    BY <1>1, <1>5, <1>6, BoundedInduction
  <1>8. QED
    BY <1>3, <1>7 DEF T

\* The frames end where the next one would begin.
LEMMA FramesLength ==
    ASSUME NEW q \in Seq(Packets)
    PROVE  Len(Frames(q)) = StartOf(q, Len(q) + 1)
  <1>1. FramesOf(q) \in Seq(Seq(Octets)) /\ Len(FramesOf(q)) = Len(q) /\ Frames(q) = FlattenSeq(FramesOf(q))
    BY FramesOfType
  <1>2. PICK f : Steps(f, FramesOf(q), Octets) /\ FlattenSeq(FramesOf(q)) = f[Len(FramesOf(q))]
    BY <1>1, FlattenSteps
  <1>3. Len(q) \in 0 .. Len(q)
    OBVIOUS
  <1>4. Len(f[Len(q)]) = StartOf(q, Len(q) + 1)
    BY <1>2, <1>3, FrameSteps
  <1>5. QED
    BY <1>1, <1>2, <1>4, Zenon

\* From where StartOf says on are the bytes of the frame.
LEMMA FrameAt ==
    ASSUME NEW q \in Seq(Packets), NEW i \in 1 .. Len(q), NEW k \in 1 .. FrameLength(q[i])
    PROVE  Frames(q)[StartOf(q, i) + k] = FrameOut(q[i])[k]
  <1>1. /\ FramesOf(q) \in Seq(Seq(Octets)) /\ Len(FramesOf(q)) = Len(q)
        /\ \A j \in 1 .. Len(q) : FramesOf(q)[j] = FrameOut(q[j])
        /\ Frames(q) = FlattenSeq(FramesOf(q))
    BY FramesOfType
  <1>2. PICK f : Steps(f, FramesOf(q), Octets) /\ FlattenSeq(FramesOf(q)) = f[Len(FramesOf(q))]
    BY <1>1, FlattenSteps
  <1>3. \A j \in 1 .. Len(q) : f[j] = f[j - 1] \o FrameOut(q[j])
    BY <1>1, <1>2, Zenon DEF Steps
  <1>4. Len(q) \in Nat /\ i \in Nat
    OBVIOUS
  <1>5. \A j \in 1 .. Len(q) :
            /\ FrameOut(q[j]) \in Seq(Octets) /\ Len(FrameOut(q[j])) = FrameLength(q[j])
            /\ FrameLength(q[j]) \in Nat
    <2>1. \A j \in 1 .. Len(q) : q[j] \in Packets
      OBVIOUS
    <2>2. QED
      BY <2>1, PacketBytes
  <1>6. StartOf(q, i) \in Nat
    <2>1. i \in 1 .. Len(q) + 1
      BY <1>4
    <2>2. QED
      BY <2>1, StartType
  <1> DEFINE m == Len(q) - i
             T == {d \in Nat : f[i + d][StartOf(q, i) + k] = FrameOut(q[i])[k]}
  <1>7. m \in Nat
    BY <1>4
  <1>8. 0 \in T
    <2>1. i - 1 \in 0 .. Len(q) /\ (i - 1) + 1 = i /\ i + 0 = i
      BY <1>4
    <2>2. f[i - 1] \in Seq(Octets) /\ Len(f[i - 1]) = StartOf(q, i)
      BY <1>2, <2>1, FrameSteps
    <2>3. FrameOut(q[i]) \in Seq(Octets) /\ Len(FrameOut(q[i])) = FrameLength(q[i])
      BY <1>5
    <2>4. /\ Len(f[i - 1] \o FrameOut(q[i])) = Len(f[i - 1]) + Len(FrameOut(q[i]))
          /\ \A l \in 1 .. Len(f[i - 1]) + Len(FrameOut(q[i])) :
                (f[i - 1] \o FrameOut(q[i]))[l] =
                    IF l <= Len(f[i - 1]) THEN f[i - 1][l] ELSE FrameOut(q[i])[l - Len(f[i - 1])]
      BY <2>2, <2>3, ConcatProperties
    <2>5. /\ StartOf(q, i) + k \in 1 .. StartOf(q, i) + FrameLength(q[i])
          /\ ~(StartOf(q, i) + k <= StartOf(q, i)) /\ (StartOf(q, i) + k) - StartOf(q, i) = k
      BY <1>5, <1>6
    <2>6. (f[i - 1] \o FrameOut(q[i]))[StartOf(q, i) + k] = FrameOut(q[i])[k]
      BY <2>2, <2>3, <2>4, <2>5, Zenon
    <2>7. f[i] = f[i - 1] \o FrameOut(q[i])
      BY <1>3
    <2>8. f[i + 0][StartOf(q, i) + k] = FrameOut(q[i])[k]
      BY <2>1, <2>6, <2>7, Zenon
    <2>9. QED
      BY <2>8
  <1>9. ASSUME NEW d \in 0 .. m - 1, d \in T
        PROVE  d + 1 \in T
    <2> DEFINE j == i + d
    <2>1. /\ j \in 0 .. Len(q) /\ j + 1 \in 1 .. Len(q) /\ j + 1 \in i + 1 .. Len(q) + 1
          /\ (j + 1) - 1 = j /\ i + (d + 1) = j + 1 /\ d + 1 \in Nat
      BY <1>4
    <2>2. f[i + d][StartOf(q, i) + k] = FrameOut(q[i])[k]
      BY <1>9
    <2>3. f[j][StartOf(q, i) + k] = FrameOut(q[i])[k]
      BY <2>2
    <2> HIDE DEF j
    <2>4. f[j] \in Seq(Octets) /\ Len(f[j]) = StartOf(q, j + 1)
      BY <1>2, <2>1, FrameSteps
    <2>5. StartOf(q, i) + FrameLength(q[i]) <= StartOf(q, j + 1)
      BY <2>1, StartOrder
    <2>6. FrameOut(q[j + 1]) \in Seq(Octets)
      BY <1>5, <2>1
    <2>7. \A l \in 1 .. Len(f[j]) + Len(FrameOut(q[j + 1])) :
              (f[j] \o FrameOut(q[j + 1]))[l] =
                  IF l <= Len(f[j]) THEN f[j][l] ELSE FrameOut(q[j + 1])[l - Len(f[j])]
      BY <2>4, <2>6, ConcatProperties
    <2>8. StartOf(q, i) + k \in 1 .. Len(f[j]) + Len(FrameOut(q[j + 1])) /\ StartOf(q, i) + k <= Len(f[j])
      <3>1. Len(f[j]) \in Nat /\ Len(FrameOut(q[j + 1])) \in Nat
        BY <2>4, <2>6
      <3>2. FrameLength(q[i]) \in Nat
        BY <1>5
      <3>3. QED
        BY <1>6, <2>4, <2>5, <3>1, <3>2
    <2>9. (f[j] \o FrameOut(q[j + 1]))[StartOf(q, i) + k] = f[j][StartOf(q, i) + k]
      BY <2>7, <2>8, Zenon
    <2>10. f[j + 1] = f[(j + 1) - 1] \o FrameOut(q[j + 1])
      BY <1>3, <2>1
    <2>11. f[i + (d + 1)][StartOf(q, i) + k] = FrameOut(q[i])[k]
      BY <2>1, <2>3, <2>9, <2>10, Zenon
    <2>12. QED
      BY <2>1, <2>11
  <1> HIDE DEF T
  <1>10. \A d \in 0 .. m : d \in T
    BY <1>7, <1>8, <1>9, BoundedInduction
  <1>11. m \in 0 .. m /\ i + m = Len(q)
    BY <1>4
  <1>12. f[i + m][StartOf(q, i) + k] = FrameOut(q[i])[k]
    BY <1>10, <1>11 DEF T
  <1>13. QED
    BY <1>1, <1>2, <1>11, <1>12, Zenon

-----------------------------------------------------------------------------
(* The writes of one start_write.                                          *)

\* The first n packets of q are in w, and no packet without the earlier ones.
Repeats(w, q, n) ==
    /\ \A k \in 1 .. n : \E i \in 1 .. Len(w) : w[i] = q[k]
    /\ \A i \in 1 .. Len(w) : \E k \in 1 .. Len(q) :
          w[i] = q[k] /\ \A l \in 1 .. k : \E j \in 1 .. i : w[j] = q[l]

\* One more write.
LEMMA RepeatOnce ==
    ASSUME NEW S, NEW q \in Seq(S), NEW w \in Seq(S), NEW n \in 0 .. Len(q) - 1, Repeats(w, q, n)
    PROVE  /\ w \o SubSeq(q, 1, n + 1) \in Seq(S)
           /\ Repeats(w \o SubSeq(q, 1, n + 1), q, n + 1)
  <1> DEFINE b == SubSeq(q, 1, n + 1)
             v == w \o b
  <1>1. n \in Nat /\ Len(q) \in Nat /\ Len(w) \in Nat
    OBVIOUS
  <1>2. b \in Seq(S) /\ Len(b) = n + 1 /\ \A i \in 1 .. n + 1 : b[i] = q[i]
    <2>1. 1 \in 1 .. Len(q) + 1 /\ n + 1 \in 1 - 1 .. Len(q)
      BY <1>1
    <2>2. /\ b \in Seq(S) /\ Len(b) = (n + 1) - 1 + 1
          /\ \A i \in 1 .. (n + 1) - 1 + 1 : b[i] = q[1 + i - 1]
      BY <2>1, SubSeqProperties
    <2>3. (n + 1) - 1 + 1 = n + 1 /\ \A i \in 1 .. n + 1 : 1 + i - 1 = i
      BY <1>1
    <2> HIDE DEF b
    <2>4. QED
      BY <2>2, <2>3
  <1> HIDE DEF b
  <1>3. /\ v \in Seq(S) /\ Len(v) = Len(w) + Len(b)
        /\ \A i \in 1 .. Len(w) + Len(b) : v[i] = IF i <= Len(w) THEN w[i] ELSE b[i - Len(w)]
    BY <1>2, ConcatProperties
  <1> HIDE DEF v
  <1>4. \A i \in 1 .. Len(w) : i \in 1 .. Len(v) /\ v[i] = w[i]
    BY <1>1, <1>2, <1>3
  <1>5. \A k \in 1 .. n + 1 : Len(w) + k \in 1 .. Len(v) /\ v[Len(w) + k] = q[k]
    <2>1. \A k \in 1 .. n + 1 : /\ Len(w) + k \in 1 .. Len(w) + Len(b) /\ ~(Len(w) + k <= Len(w))
                                /\ (Len(w) + k) - Len(w) = k
      BY <1>1, <1>2
    <2>2. QED
      BY <1>2, <1>3, <2>1
  <1>6. ASSUME NEW i \in 1 .. Len(v)
        PROVE  \E k \in 1 .. Len(q) :
                   v[i] = q[k] /\ \A l \in 1 .. k : \E j \in 1 .. i : v[j] = q[l]
    <2>1. i \in Nat /\ Len(v) = Len(w) + (n + 1) /\ i \in 1 .. Len(w) + (n + 1)
      BY <1>1, <1>2, <1>3
    <2>2. CASE i <= Len(w)
      <3>1. i \in 1 .. Len(w) /\ \A j \in 1 .. i : j \in 1 .. Len(w)
        BY <1>1, <2>1, <2>2
      <3>2. PICK k \in 1 .. Len(q) : w[i] = q[k] /\ \A l \in 1 .. k : \E j \in 1 .. i : w[j] = q[l]
        BY <3>1, Zenon DEF Repeats
      <3>3. v[i] = q[k] /\ \A l \in 1 .. k : \E j \in 1 .. i : v[j] = q[l]
        BY <1>4, <3>1, <3>2, Zenon
      <3>4. QED
        BY <3>3
    <2>3. CASE ~(i <= Len(w))
      <3> DEFINE k == i - Len(w)
      <3>1. k \in 1 .. n + 1 /\ k \in 1 .. Len(q) /\ Len(w) + k = i
        BY <1>1, <2>1, <2>3
      <3>2. \A l \in 1 .. k : l \in 1 .. n + 1 /\ Len(w) + l \in 1 .. i
        BY <1>1, <2>1, <2>3
      <3> HIDE DEF k
      <3>3. v[i] = q[k]
        BY <1>5, <3>1, Zenon
      <3>4. \A l \in 1 .. k : \E j \in 1 .. i : v[j] = q[l]
        BY <1>5, <3>2, Zenon
      <3>5. QED
        BY <3>1, <3>3, <3>4
    <2>4. QED
      BY <2>2, <2>3
  <1>7. \A k \in 1 .. n + 1 : \E i \in 1 .. Len(v) : v[i] = q[k]
    BY <1>5, Zenon
  <1>8. v \in Seq(S) /\ Repeats(v, q, n + 1)
    BY <1>3, <1>6, <1>7, Zenon DEF Repeats
  <1>9. QED
    BY <1>8 DEF v, b

\* The packets on the wire after start_write are those of the queue, each
\* preceded by those queued earlier.
LEMMA WritesRepeat ==
    ASSUME NEW S, NEW q \in Seq(S)
    PROVE  Writes(q) \in Seq(S) /\ Repeats(Writes(q), q, Len(q))
  <1> DEFINE seqs == [n \in DOMAIN q |-> SubSeq(q, 1, n)]
  <1>1. Len(q) \in Nat /\ DOMAIN q = 1 .. Len(q)
    OBVIOUS
  <1>2. \A n \in 1 .. Len(q) : SubSeq(q, 1, n) \in Seq(S)
    <2>1. ASSUME NEW n \in 1 .. Len(q)
          PROVE  SubSeq(q, 1, n) \in Seq(S)
      <3>1. 1 \in 1 .. Len(q) + 1 /\ n \in 1 - 1 .. Len(q)
        BY <1>1
      <3>2. QED
        BY <3>1, SubSeqProperties
    <2>2. QED
      BY <2>1
  <1>3. seqs = [n \in 1 .. Len(q) |-> SubSeq(q, 1, n)]
    BY <1>1
  <1>4. \A n \in 1 .. Len(q) : seqs[n] = SubSeq(q, 1, n)
    BY <1>3
  <1>5. seqs \in Seq(Seq(S)) /\ Len(seqs) = Len(q)
    <2>1. seqs \in [1 .. Len(q) -> Seq(S)]
      BY <1>2, <1>3
    <2> HIDE DEF seqs
    <2>2. QED
      BY <1>1, <2>1
  <1>6. Writes(q) = FlattenSeq(seqs)
    BY DEF Writes
  <1> HIDE DEF seqs
  <1>7. PICK f : Steps(f, seqs, S) /\ FlattenSeq(seqs) = f[Len(seqs)]
    BY <1>5, FlattenSteps
  <1> DEFINE T == {n \in Nat : f[n] \in Seq(S) /\ Repeats(f[n], q, n)}
  <1>8. 0 \in T
    <2>1. f[0] = <<>>
      BY <1>7 DEF Steps
    <2>2. <<>> \in Seq(S) /\ Len(<<>>) = 0
      OBVIOUS
    <2>3. Repeats(<<>>, q, 0)
      BY DEF Repeats
    <2>4. QED
      BY <2>1, <2>2, <2>3
  <1>9. ASSUME NEW n \in 0 .. Len(q) - 1, n \in T
        PROVE  n + 1 \in T
    <2>1. n + 1 \in 1 .. Len(q) /\ (n + 1) - 1 = n /\ n + 1 \in Nat
      BY <1>1
    <2>2. f[n] \in Seq(S) /\ Repeats(f[n], q, n)
      BY <1>9
    <2>3. f[n + 1] = f[n] \o SubSeq(q, 1, n + 1)
      <3>1. f[n + 1] = f[(n + 1) - 1] \o seqs[n + 1]
        BY <1>5, <1>7, <2>1, Zenon DEF Steps
      <3>2. QED
        BY <1>4, <2>1, <3>1, Zenon
    <2>4. /\ f[n] \o SubSeq(q, 1, n + 1) \in Seq(S)
          /\ Repeats(f[n] \o SubSeq(q, 1, n + 1), q, n + 1)
      BY <2>2, RepeatOnce
    <2>5. f[n + 1] \in Seq(S) /\ Repeats(f[n + 1], q, n + 1)
      BY <2>3, <2>4, Zenon
    <2>6. QED
      BY <2>1, <2>5
  <1> HIDE DEF T
  <1>10. \A n \in 0 .. Len(q) : n \in T
    BY <1>1, <1>8, <1>9, BoundedInduction
  <1>11. f[Len(q)] \in Seq(S) /\ Repeats(f[Len(q)], q, Len(q))
    BY <1>1, <1>10 DEF T
  <1>12. QED
    BY <1>5, <1>6, <1>7, <1>11, Zenon

-----------------------------------------------------------------------------
(* The invariant.                                                          *)

\* A packet that the loop may have read, from whatever bytes.
Readable == {p \in [type : Octets, subtype : Octets, major : Octets, minor : Octets,
                    product : Octets, instance : Nat, more : Seq(Octets)] :
                <<p.type, p.subtype>> \in Registered}

Types ==
    /\ whole \in BOOLEAN /\ cuts \in 0 .. MaxCuts
    /\ written \in 0 .. MaxPackets
    /\ queue \in Seq(Packets) /\ wire \in Seq(Packets)
    /\ stream \in Seq(Octets)
    /\ fill \in Octets
    /\ receiveBuffer \in [0 .. max_length - 1 -> Octets]
    /\ length \in 0 .. max_length /\ inOffset \in Nat
    /\ at \in {"reading", "parsing", "crashed"}
    /\ inwardPackets \in Seq(Readable)

\* What was read and what was not are the bytes of the packets sent.
BytesInv ==
    /\ Taken \in Nat /\ Taken + Len(stream) = Len(Frames(wire)) /\ length <= Taken
    /\ \A k \in 1 .. Len(stream) : stream[k] = Frames(wire)[Taken + k]
    /\ \A k \in 1 .. length : receiveBuffer[k - 1] = Frames(wire)[(Taken - length) + k]

\* Where the loop stands when no frame was cut.
WholeInv ==
    whole =>
        /\ Taken \in Boundaries
        /\ Len(inwardPackets) <= Len(wire)
        /\ \A i \in 1 .. Len(inwardPackets) : inwardPackets[i] = wire[i]
        /\ at = "reading" => Taken = StartOf(wire, Len(inwardPackets) + 1)
        /\ at = "parsing" => /\ inOffset <= length
                             /\ (Taken - length) + inOffset = StartOf(wire, Len(inwardPackets) + 1)

\* The packets that were written and not sent yet are in the queue, in order.
QueueInv == /\ Len(queue) <= written
            /\ \A k \in 1 .. Len(queue) : queue[k].instance = (written - Len(queue)) + k

\* The others were sent, none before an earlier one.
WireInv ==
    /\ \A n \in 1 .. written - Len(queue) : \E j \in 1 .. Len(wire) : wire[j].instance = n
    /\ \A i \in 1 .. Len(wire) : \A n \in 1 .. wire[i].instance :
          \E j \in 1 .. i : wire[j].instance = n

Inv == Types /\ BytesInv /\ WholeInv /\ QueueInv /\ WireInv

\* At the start nothing was sent, read or written.
LEMMA InvInit == Init => Inv
  <1> SUFFICES ASSUME Init PROVE Inv
    OBVIOUS
  <1>1. fill \in Octets
    BY BoundAssumption DEF Init, Octets
  <1>2. receiveBuffer \in [0 .. max_length - 1 -> Octets]
    BY <1>1 DEF Init
  <1>3. length \in 0 .. max_length /\ cuts \in 0 .. MaxCuts /\ written \in 0 .. MaxPackets
    BY BoundAssumption DEF Init
  <1>4. /\ whole \in BOOLEAN /\ queue = <<>> /\ wire = <<>> /\ stream = <<>> /\ inOffset = 0
        /\ at = "reading" /\ inwardPackets = <<>> /\ length = 0 /\ written = 0
    BY DEF Init
  <1>5. Types
    <2>1. /\ queue \in Seq(Packets) /\ wire \in Seq(Packets) /\ stream \in Seq(Octets)
          /\ inwardPackets \in Seq(Readable)
      BY <1>4
    <2>2. QED
      BY <1>1, <1>2, <1>3, <1>4, <2>1 DEF Types
  <1>6. wire \in Seq(Packets) /\ Len(wire) = 0 /\ Len(stream) = 0 /\ Len(inwardPackets) = 0 /\ Len(queue) = 0
    BY <1>4
  <1>7. StartOf(wire, Len(wire) + 1) = 0
    <2>1. Len(wire) + 1 = 1
      BY <1>6
    <2>2. QED
      BY <2>1, StartOfFirst
  <1>8. Taken = 0 /\ Len(Frames(wire)) = 0
    <2>1. Len(Frames(wire)) = StartOf(wire, Len(wire) + 1)
      BY <1>6, FramesLength
    <2>2. QED
      BY <1>6, <1>7, <2>1 DEF Taken
  <1>9. BytesInv
    BY <1>4, <1>6, <1>8 DEF BytesInv
  <1>10. WholeInv
    <2>1. Len(wire) + 1 \in 1 .. Len(wire) + 1 /\ Len(inwardPackets) + 1 = Len(wire) + 1
      BY <1>6
    <2>2. Taken \in Boundaries
      BY <1>7, <1>8, <2>1 DEF Boundaries
    <2>3. Taken = StartOf(wire, Len(inwardPackets) + 1)
      BY <1>7, <1>8, <2>1, Zenon
    <2>4. QED
      BY <1>4, <1>6, <2>2, <2>3 DEF WholeInv
  <1>11. QueueInv /\ WireInv
    BY <1>4, <1>6 DEF QueueInv, WireInv
  <1>12. QED
    BY <1>5, <1>9, <1>10, <1>11 DEF Inv

-----------------------------------------------------------------------------
(* The loop at the beginning of a frame.                                   *)

\* The bytes at and after inOffset are those of the frame, as far as the read
\* has them.
LEMMA ByteRead ==
    ASSUME Types, BytesInv, NEW i \in 1 .. Len(wire),
           (Taken - length) + inOffset = StartOf(wire, i),
           NEW k \in 1 .. FrameLength(wire[i]), inOffset + k <= length
    PROVE  Byte(inOffset + (k - 1)) = FrameOut(wire[i])[k]
  <1>1. /\ wire \in Seq(Packets) /\ length \in Nat /\ inOffset \in Nat /\ Taken \in Nat
        /\ length <= max_length /\ max_length \in Nat
    BY BoundAssumption DEF Types, BytesInv
  <1>2. wire[i] \in Packets
    BY <1>1
  <1>3. k \in Nat /\ 1 <= k
    <2>1. FrameLength(wire[i]) \in Nat
      BY <1>2, PacketBytes
    <2>2. QED
      BY <2>1
  <1>4. /\ inOffset + k \in 1 .. length /\ inOffset + (k - 1) < max_length
        /\ (inOffset + k) - 1 = inOffset + (k - 1)
        /\ (Taken - length) + (inOffset + k) = ((Taken - length) + inOffset) + k
    BY <1>1, <1>3
  <1>5. receiveBuffer[(inOffset + k) - 1] = Frames(wire)[(Taken - length) + (inOffset + k)]
    BY <1>4 DEF BytesInv
  <1>6. Frames(wire)[StartOf(wire, i) + k] = FrameOut(wire[i])[k]
    BY <1>1, FrameAt
  <1>7. Byte(inOffset + (k - 1)) = receiveBuffer[inOffset + (k - 1)]
    BY <1>4, Zenon DEF Byte
  <1>8. QED
    BY <1>4, <1>5, <1>6, <1>7, Zenon

\* The size in its header.
LEMMA HeaderRead ==
    ASSUME Types, BytesInv, NEW i \in 1 .. Len(wire),
           (Taken - length) + inOffset = StartOf(wire, i), inOffset + 3 <= length
    PROVE  U16In(inOffset + 1) = FrameLength(wire[i]) - 3
  <1>1. wire \in Seq(Packets) /\ length \in Nat /\ inOffset \in Nat
    BY DEF Types
  <1>2. wire[i] \in Packets
    BY <1>1
  <1>3. PICK c \in Classes, n \in 1 .. 255 : Fields(wire[i], c, n) /\ Frame(FrameOut(wire[i]), c, n)
    BY <1>2, PacketClass
  <1>4. MoreBytes(c) \in Nat
    <2>1. c \in Registered
      BY ClassAssumption
    <2>2. MoreBytes(c) \in 0 .. 22
      BY <2>1, ClassSizes, Zenon
    <2>3. QED
      BY <2>2, SMTT(40)
  <1>5. FrameLength(wire[i]) = 10 + MoreBytes(c)
    BY <1>3 DEF Fields
  <1>6. FrameOut(wire[i])[2] = 0 /\ FrameOut(wire[i])[3] = 7 + MoreBytes(c)
    BY <1>3 DEF Frame
  <1>7. /\ 2 \in 1 .. FrameLength(wire[i]) /\ 3 \in 1 .. FrameLength(wire[i])
        /\ inOffset + 2 <= length /\ inOffset + 3 <= length
    BY <1>1, <1>4, <1>5
  <1>8. Byte(inOffset + (2 - 1)) = 0 /\ Byte(inOffset + (3 - 1)) = 7 + MoreBytes(c)
    BY <1>6, <1>7, ByteRead
  <1>9. inOffset + (2 - 1) = inOffset + 1 /\ inOffset + (3 - 1) = (inOffset + 1) + 1
    BY <1>1
  <1>10. U16In(inOffset + 1) = 256 * 0 + (7 + MoreBytes(c))
    BY <1>8, <1>9, Zenon DEF U16In
  <1>11. QED
    BY <1>4, <1>5, <1>10

\* The packet in it.
LEMMA PacketRead ==
    ASSUME Types, BytesInv, NEW i \in 1 .. Len(wire),
           (Taken - length) + inOffset = StartOf(wire, i), inOffset + FrameLength(wire[i]) <= length
    PROVE  LET body == inOffset + 3
               class == <<Byte(body), Byte(body + 1)>>
           IN  /\ class \in Registered /\ PacketIn(class, body) = wire[i]
               /\ FrameLength(wire[i]) = 10 + MoreBytes(class)
  <1>1. wire \in Seq(Packets) /\ length \in Nat /\ inOffset \in Nat
    BY DEF Types
  <1>2. wire[i] \in Packets
    BY <1>1
  <1>3. PICK c \in Classes, n \in 1 .. 255 : wire[i] = NewPacket(c, n)
    BY <1>2 DEF Packets
  <1>4. c \in Registered
    BY ClassAssumption
  <1>5. Fields(wire[i], c, n) /\ Frame(FrameOut(wire[i]), c, n)
    BY <1>3, <1>4, PacketFields, FrameBytes
  <1> DEFINE m == MoreBytes(c)
  <1>6. m \in Nat /\ c = <<c[1], c[2]>>
    <2>1. m \in 0 .. 22
      BY <1>4, ClassSizes, Zenon
    <2>2. c = <<c[1], c[2]>>
      BY <1>4, ClassSizes, Zenon
    <2> HIDE DEF m
    <2>3. m \in Nat
      BY <2>1
    <2>4. QED
      BY <2>2, <2>3, Zenon
  <1>7. FrameLength(wire[i]) = 10 + m
    BY <1>5 DEF Fields
  <1> DEFINE f == FrameOut(wire[i])
             body == inOffset + 3
  <1>8. /\ f[4] = c[1] /\ f[5] = c[2] /\ f[6] = 51 /\ f[7] = 0 /\ f[8] = 56 /\ f[9] = 0 /\ f[10] = n
        /\ \A j \in 1 .. m : f[10 + j] = j
    BY <1>5 DEF Frame
  <1>9. \A k \in 1 .. 10 + m : Byte(inOffset + (k - 1)) = f[k]
    <2>1. \A k \in 1 .. 10 + m : k \in 1 .. FrameLength(wire[i]) /\ inOffset + k <= length
      BY <1>1, <1>6, <1>7
    <2> HIDE DEF m, f
    <2>2. QED
      BY <2>1, ByteRead DEF f
  <1> HIDE DEF f, m
  <1>10. /\ Byte(body) = c[1] /\ Byte(body + 1) = c[2] /\ Byte(body + 2) = 51 /\ Byte(body + 3) = 0
         /\ Byte(body + 4) = 56 /\ Byte(body + 5) = 0 /\ Byte((body + 5) + 1) = n
    <2>1. /\ inOffset + (4 - 1) = body /\ inOffset + (5 - 1) = body + 1 /\ inOffset + (6 - 1) = body + 2
          /\ inOffset + (7 - 1) = body + 3 /\ inOffset + (8 - 1) = body + 4
          /\ inOffset + (9 - 1) = body + 5 /\ inOffset + (10 - 1) = (body + 5) + 1
      BY <1>1
    <2>2. /\ 4 \in 1 .. 10 + m /\ 5 \in 1 .. 10 + m /\ 6 \in 1 .. 10 + m /\ 7 \in 1 .. 10 + m
          /\ 8 \in 1 .. 10 + m /\ 9 \in 1 .. 10 + m /\ 10 \in 1 .. 10 + m
      BY <1>6
    <2> HIDE DEF body
    <2>3. /\ Byte(inOffset + (4 - 1)) = f[4] /\ Byte(inOffset + (5 - 1)) = f[5]
          /\ Byte(inOffset + (6 - 1)) = f[6] /\ Byte(inOffset + (7 - 1)) = f[7]
          /\ Byte(inOffset + (8 - 1)) = f[8] /\ Byte(inOffset + (9 - 1)) = f[9]
          /\ Byte(inOffset + (10 - 1)) = f[10]
      BY <1>9, <2>2
    <2>4. Byte(body) = c[1] /\ Byte(body + 1) = c[2] /\ Byte(body + 2) = 51
      BY <1>8, <2>1, <2>3, Zenon
    <2>5. Byte(body + 3) = 0 /\ Byte(body + 4) = 56
      BY <1>8, <2>1, <2>3, Zenon
    <2>6. Byte(body + 5) = 0 /\ Byte((body + 5) + 1) = n
      BY <1>8, <2>1, <2>3, Zenon
    <2>7. QED
      BY <2>4, <2>5, <2>6
  <1>11. \A j \in 1 .. m : Byte(body + 6 + j) = j
    <2> SUFFICES ASSUME NEW j \in 1 .. m
                 PROVE  Byte(body + 6 + j) = j
      OBVIOUS
    <2>1. 10 + j \in 1 .. 10 + m /\ inOffset + ((10 + j) - 1) = body + 6 + j
      BY <1>1, <1>6, SMTT(40)
    <2> HIDE DEF body
    <2>2. Byte(inOffset + ((10 + j) - 1)) = f[10 + j] /\ f[10 + j] = j
      BY <1>8, <1>9, <2>1
    <2>3. QED
      BY <2>1, <2>2, Zenon
  <1>12. U16In(body + 5) = n
    <2>1. U16In(body + 5) = 256 * 0 + n
      BY <1>10, Zenon DEF U16In
    <2>2. QED
      BY <2>1
  <1> HIDE DEF body
  <1>13. <<Byte(body), Byte(body + 1)>> = c
    BY <1>6, <1>10, Zenon
  <1>14. [j \in 1 .. m |-> Byte(body + 6 + j)] = [j \in 1 .. m |-> j]
    BY <1>11
  <1>15. PacketIn(c, body) = NewPacket(c, n)
    <2>1. PacketIn(c, body) = [type |-> Byte(body), subtype |-> Byte(body + 1),
                               major |-> Byte(body + 2), minor |-> Byte(body + 3),
                               product |-> Byte(body + 4), instance |-> U16In(body + 5),
                               more |-> [j \in 1 .. m |-> Byte(body + 6 + j)]]
      BY DEF PacketIn, BasePacketIn, m
    <2>2. NewPacket(c, n) = [type |-> c[1], subtype |-> c[2], major |-> 51, minor |-> 0,
                             product |-> 56, instance |-> n, more |-> [j \in 1 .. m |-> j]]
      BY DEF NewPacket, m
    <2>3. QED
      BY <1>10, <1>12, <1>14, <2>1, <2>2, Zenon
  <1>16. /\ <<Byte(body), Byte(body + 1)>> \in Registered
         /\ PacketIn(<<Byte(body), Byte(body + 1)>>, body) = wire[i]
         /\ FrameLength(wire[i]) = 10 + MoreBytes(<<Byte(body), Byte(body + 1)>>)
    BY <1>3, <1>4, <1>7, <1>13, <1>15, Zenon DEF m
  <1>crash. QED
    BY <1>16 DEF body

\* Whatever offset is read, a byte is found.
LEMMA ByteTypes ==
    ASSUME Types, NEW i \in Nat
    PROVE  Byte(i) \in Octets /\ U16In(i) \in Nat
  <1>1. ASSUME NEW j \in Nat
        PROVE  Byte(j) \in Octets
    <2>1. CASE j < max_length
      <3>1. j \in 0 .. max_length - 1
        BY <2>1, BoundAssumption
      <3>2. receiveBuffer[j] \in Octets
        BY <3>1 DEF Types
      <3>3. QED
        BY <2>1, <3>2, Zenon DEF Byte
    <2>2. CASE ~(j < max_length)
      BY <2>2, Zenon DEF Byte, Types
    <2>3. QED
      BY <2>1, <2>2
  <1>2. Byte(i) \in Octets /\ Byte(i + 1) \in Octets
    BY <1>1
  <1>3. Byte(i) \in Nat /\ Byte(i + 1) \in Nat
    BY <1>2 DEF Octets
  <1>4. 256 * Byte(i) + Byte(i + 1) \in Nat
    BY <1>3
  <1>5. QED
    BY <1>2, <1>4, Zenon DEF U16In

\* At the beginning of a frame the loop goes on if and only if it has all of it.
LEMMA BigEnough ==
    ASSUME Types, BytesInv, NEW i \in 1 .. Len(wire),
           (Taken - length) + inOffset = StartOf(wire, i)
    PROVE  IsRemainingBufferBigenough(inOffset, length) <=> inOffset + FrameLength(wire[i]) <= length
  <1>1. wire \in Seq(Packets) /\ length \in Nat /\ inOffset \in Nat
    BY DEF Types
  <1>2. wire[i] \in Packets
    BY <1>1
  <1>3. FrameLength(wire[i]) \in Nat /\ 10 <= FrameLength(wire[i])
    BY <1>2, PacketBytes
  <1>4. U16In(inOffset + 1) \in Nat
    <2>1. inOffset + 1 \in Nat
      BY <1>1
    <2>2. QED
      BY <2>1, ByteTypes
  <1>5. IsRemainingBufferBigenough(inOffset, length) <=> U16In(inOffset + 1) + (inOffset + 3) <= length
    BY DEF IsRemainingBufferBigenough
  <1>6. CASE inOffset + 3 <= length
    <2>1. U16In(inOffset + 1) = FrameLength(wire[i]) - 3
      BY <1>6, HeaderRead
    <2>2. QED
      BY <1>1, <1>3, <1>5, <2>1
  <1>7. CASE ~(inOffset + 3 <= length)
    BY <1>1, <1>3, <1>4, <1>5, <1>7
  <1>8. QED
    BY <1>6, <1>7

\* A turn of the loop at the beginning of a frame reads the packet in it, or
\* finds the pool of its class empty.
LEMMA FrameRead ==
    ASSUME Types, BytesInv, SerializeIn, NEW i \in 1 .. Len(wire),
           (Taken - length) + inOffset = StartOf(wire, i)
    PROVE  /\ inOffset + FrameLength(wire[i]) <= length /\ at = "parsing"
           /\ \/ /\ IsExhausted(ClassOf(wire[i]))
                 /\ at' = "crashed" /\ inwardPackets' = inwardPackets
              \/ /\ ~IsExhausted(ClassOf(wire[i])) /\ at' = at
                 /\ inwardPackets' = Append(inwardPackets, wire[i])
                 /\ inOffset' = inOffset + FrameLength(wire[i])
  <1> DEFINE body == inOffset + 3
             class == <<Byte(body), Byte(body + 1)>>
  <1>1. IsRemainingBufferBigenough(inOffset, length)
    BY DEF SerializeIn
  <1>2. inOffset + FrameLength(wire[i]) <= length
    BY <1>1, BigEnough
  <1>3. /\ class \in Registered /\ PacketIn(class, body) = wire[i]
        /\ FrameLength(wire[i]) = 10 + MoreBytes(class)
    BY <1>2, PacketRead
  <1>4. \/ /\ class \in Registered /\ ~IsExhausted(class)
           /\ inwardPackets' = Append(inwardPackets, PacketIn(class, body))
           /\ inOffset' = (body + 7) + MoreBytes(class)
           /\ at' = at
        \/ /\ class \notin Registered \/ IsExhausted(class)
           /\ at' = "crashed" /\ inwardPackets' = inwardPackets
    BY Zenon DEF SerializeIn
  <1>5. at = "parsing"
    BY DEF SerializeIn
  <1>6. ClassOf(wire[i]) = class
    <2>1. wire[i].type = Byte(body) /\ wire[i].subtype = Byte(body + 1)
      <3>1. /\ PacketIn(class, body).type = Byte(body)
            /\ PacketIn(class, body).subtype = Byte(body + 1)
        BY DEF PacketIn, BasePacketIn
      <3>2. QED
        BY <1>3, <3>1, Zenon
    <2>2. QED
      BY <2>1, Zenon DEF ClassOf
  <1>7. MoreBytes(class) \in Nat
    <2> HIDE DEF class
    <2>1. MoreBytes(class) \in 0 .. 22
      BY <1>3, ClassSizes, Zenon
    <2>2. QED
      BY <2>1, SMTT(40)
  <1>8. (body + 7) + MoreBytes(class) = inOffset + FrameLength(wire[i])
    <2>1. inOffset \in Nat
      BY DEF Types
    <2> HIDE DEF class
    <2>2. QED
      BY <1>3, <1>7, <2>1
  <1>9. QED
    BY <1>2, <1>3, <1>4, <1>5, <1>6, <1>8, Zenon

-----------------------------------------------------------------------------
(* Every step keeps the types.                                             *)

\* The client's steps and the transport's.
LEMMA WriteTypes ==
    ASSUME Types, NEW class \in Classes, Write(class)
    PROVE  Types'
  <1>1. written' = written + 1 /\ written \in Nat /\ written < MaxPackets
    BY DEF Types, Write
  <1>2. written' \in 0 .. MaxPackets /\ written + 1 \in 1 .. 255
    BY <1>1, BoundAssumption
  <1>3. queue' \in Seq(Packets)
    <2>1. NewPacket(class, written + 1) \in Packets
      BY <1>2 DEF Packets
    <2>2. queue \in Seq(Packets) /\ queue' = Append(queue, NewPacket(class, written + 1))
      BY DEF Types, Write
    <2>3. QED
      BY <2>1, <2>2, AppendProperties
  <1>4. UNCHANGED <<whole, cuts, wire, stream, bufferVars, inOffset, at, inwardPackets>>
    BY DEF Write
  <1>5. QED
    BY <1>2, <1>3, <1>4, Zenon DEF Types, bufferVars

\* start_write empties the queue.
LEMMA StartWriteTypes ==
    ASSUME Types, StartWrite
    PROVE  /\ Types' /\ queue' = <<>>
           /\ Writes(queue) \in Seq(Packets) /\ Frames(Writes(queue)) \in Seq(Octets)
  <1>1. queue \in Seq(Packets) /\ wire \in Seq(Packets) /\ stream \in Seq(Octets)
    BY DEF Types
  <1>2. Writes(queue) \in Seq(Packets)
    BY <1>1, WritesRepeat
  <1>3. Frames(Writes(queue)) \in Seq(Octets)
    BY <1>2, FramesType
  <1>4. wire \o Writes(queue) \in Seq(Packets) /\ stream \o Frames(Writes(queue)) \in Seq(Octets)
    <2>1. wire \o Writes(queue) \in Seq(Packets)
      BY <1>1, <1>2, ConcatProperties
    <2>2. stream \o Frames(Writes(queue)) \in Seq(Octets)
      BY <1>1, <1>3, ConcatProperties
    <2>3. QED
      BY <2>1, <2>2
  <1>5. queue' = <<>> /\ wire' = wire \o Writes(queue) /\ stream' = stream \o Frames(Writes(queue))
    BY DEF StartWrite
  <1>6. queue' \in Seq(Packets)
    BY <1>5
  <1>7. wire' \in Seq(Packets) /\ stream' \in Seq(Octets)
    BY <1>4, <1>5, Zenon
  <1>8. UNCHANGED <<whole, cuts, written, bufferVars, inOffset, at, inwardPackets>>
    BY DEF StartWrite
  <1>9. Types'
    BY <1>6, <1>7, <1>8, Zenon DEF Types, bufferVars
  <1>10. QED
    BY <1>2, <1>3, <1>5, <1>9

\* A read takes no more than the wire has and the buffer holds.
LEMMA ReadLength ==
    ASSUME Types, NEW n \in 1 .. ReadLimit
    PROVE  n \in Nat /\ 1 <= n /\ n <= Len(stream) /\ n <= max_length
  <1>1. Len(stream) \in Nat /\ max_length \in Nat
    BY BoundAssumption DEF Types
  <1>2. CASE Len(stream) < max_length
    <2>1. ReadLimit = Len(stream)
      BY <1>2 DEF ReadLimit
    <2>2. QED
      BY <1>1, <1>2, <2>1
  <1>3. CASE ~(Len(stream) < max_length)
    <2>1. ReadLimit = max_length
      BY <1>3 DEF ReadLimit
    <2>2. QED
      BY <1>1, <1>3, <2>1
  <1>4. QED
    BY <1>2, <1>3

\* The buffer has the bytes read, the wire the others.
LEMMA ReceiveTypes ==
    ASSUME Types, NEW n \in 1 .. ReadLimit, Receive(n), cuts' \in 0 .. MaxCuts
    PROVE  /\ Types'
           /\ Len(stream') = Len(stream) - n /\ \A k \in 1 .. Len(stream) - n : stream'[k] = stream[n + k]
           /\ \A k \in 1 .. n : receiveBuffer'[k - 1] = stream[k]
  <1>1. n \in Nat /\ 1 <= n /\ n <= Len(stream) /\ n <= max_length
    BY ReadLength
  <1>2. stream \in Seq(Octets) /\ Len(stream) \in Nat /\ max_length \in Nat
    BY BoundAssumption DEF Types
  <1>3. stream' = SubSeq(stream, n + 1, Len(stream))
    BY DEF Receive
  <1>4. /\ stream' \in Seq(Octets) /\ Len(stream') = Len(stream) - n
        /\ \A k \in 1 .. Len(stream) - n : stream'[k] = stream[n + k]
    <2> DEFINE s == SubSeq(stream, n + 1, Len(stream))
    <2>1. n + 1 \in 1 .. Len(stream) + 1 /\ Len(stream) \in (n + 1) - 1 .. Len(stream)
      BY <1>1, <1>2
    <2>2. /\ s \in Seq(Octets) /\ Len(s) = Len(stream) - (n + 1) + 1
          /\ \A k \in 1 .. Len(stream) - (n + 1) + 1 : s[k] = stream[(n + 1) + k - 1]
      BY <1>2, <2>1, SubSeqProperties
    <2>3. Len(stream) - (n + 1) + 1 = Len(stream) - n
      BY <1>1, <1>2
    <2>4. \A k \in 1 .. Len(stream) - n : (n + 1) + k - 1 = n + k
      BY <1>1, <1>2
    <2> HIDE DEF s
    <2>5. \A k \in 1 .. Len(stream) - n : s[k] = stream[n + k]
      BY <2>2, <2>3, <2>4
    <2>6. s \in Seq(Octets) /\ Len(s) = Len(stream) - n
      BY <2>2, <2>3
    <2>7. stream' = s
      BY <1>3 DEF s
    <2>8. QED
      BY <2>5, <2>6, <2>7, Zenon
  <1>5. receiveBuffer' = [i \in 0 .. max_length - 1 |->
                              IF i < n THEN stream[i + 1] ELSE receiveBuffer[i]]
    BY DEF Receive
  <1>6. ASSUME NEW i \in 0 .. max_length - 1
        PROVE  (IF i < n THEN stream[i + 1] ELSE receiveBuffer[i]) \in Octets
    <2>1. CASE i < n
      <3>1. i + 1 \in 1 .. Len(stream)
        BY <1>1, <1>2, <2>1
      <3>2. stream[i + 1] \in Octets
        BY <1>2, <3>1
      <3>3. QED
        BY <2>1, <3>2
    <2>2. CASE ~(i < n)
      <3>1. receiveBuffer[i] \in Octets
        BY DEF Types
      <3>2. QED
        BY <2>2, <3>1
    <2>3. QED
      BY <2>1, <2>2
  <1>7. receiveBuffer' \in [0 .. max_length - 1 -> Octets]
    BY <1>5, <1>6
  <1>8. \A k \in 1 .. n : receiveBuffer'[k - 1] = stream[k]
    <2>1. \A k \in 1 .. n : k - 1 \in 0 .. max_length - 1 /\ k - 1 < n /\ (k - 1) + 1 = k
      BY <1>1, <1>2
    <2>2. QED
      BY <1>5, <2>1
  <1>9. length' = n /\ inOffset' = 0 /\ at' = "parsing"
    BY DEF Receive
  <1>10. length' \in 0 .. max_length /\ inOffset' \in Nat
    BY <1>1, <1>2, <1>9
  <1>11. UNCHANGED <<whole, clientVars, fill, inwardPackets>>
    BY DEF Receive
  <1>12. Types'
    BY <1>4, <1>7, <1>9, <1>10, <1>11 DEF Types, clientVars
  <1>13. QED
    BY <1>4, <1>8, <1>12

\* The loop's steps.
LEMMA SerializeInTypes ==
    ASSUME Types, SerializeIn
    PROVE  Types'
  <1> DEFINE body == inOffset + 3
             class == <<Byte(body), Byte(body + 1)>>
             p == PacketIn(class, body)
  <1>1. UNCHANGED <<whole, cuts, clientVars, stream, bufferVars>>
    BY DEF SerializeIn
  <1>2. \/ /\ class \in Registered
           /\ inwardPackets' = Append(inwardPackets, p)
           /\ inOffset' = (body + 7) + MoreBytes(class) /\ at' = at
        \/ at' = "crashed" /\ inwardPackets' = inwardPackets /\ inOffset' = inOffset
    BY Zenon DEF SerializeIn
  <1>3. ASSUME class \in Registered
        PROVE  p \in Readable /\ (body + 7) + MoreBytes(class) \in Nat
    <2>0. body \in Nat
      BY DEF Types
    <2> DEFINE m == MoreBytes(class)
    <2>1. m \in 0 .. 22
      BY <1>3, ClassSizes, Zenon
    <2>2. p = [type |-> Byte(body), subtype |-> Byte(body + 1), major |-> Byte(body + 2),
               minor |-> Byte(body + 3), product |-> Byte(body + 4), instance |-> U16In(body + 5),
               more |-> [j \in 1 .. m |-> Byte(body + 6 + j)]]
      BY DEF PacketIn, BasePacketIn
    <2>3. <<Byte(body), Byte(body + 1)>> \in Registered
      BY <1>3
    <2> HIDE DEF m, p, class, body
    <2>4. m \in Nat
      BY <2>1
    <2>5. \A k \in Nat : body + k \in Nat /\ Byte(body + k) \in Octets
      <3>1. \A k \in Nat : body + k \in Nat
        BY <2>0
      <3>2. QED
        BY <3>1, ByteTypes
    <2>6. /\ Byte(body) \in Octets /\ Byte(body + 1) \in Octets /\ Byte(body + 2) \in Octets
          /\ Byte(body + 3) \in Octets /\ Byte(body + 4) \in Octets
      <3>1. Byte(body) \in Octets
        BY <2>0, ByteTypes
      <3>2. QED
        BY <2>5, <3>1
    <2>7. U16In(body + 5) \in Nat
      <3>1. body + 5 \in Nat
        BY <2>0
      <3>2. QED
        BY <3>1, ByteTypes
    <2>8. [j \in 1 .. m |-> Byte(body + 6 + j)] \in Seq(Octets)
      <3>1. ASSUME NEW j \in 1 .. m
            PROVE  Byte(body + 6 + j) \in Octets
        <4>1. body + 6 + j \in Nat
          BY <2>0, <2>4
        <4>2. QED
          BY <4>1, ByteTypes
      <3>2. QED
        BY <2>4, <3>1
    <2> DEFINE more == [j \in 1 .. m |-> Byte(body + 6 + j)]
    <2>9. p = [type |-> Byte(body), subtype |-> Byte(body + 1), major |-> Byte(body + 2),
               minor |-> Byte(body + 3), product |-> Byte(body + 4), instance |-> U16In(body + 5),
               more |-> more]
      BY <2>2
    <2>10. more \in Seq(Octets)
      BY <2>8
    <2> HIDE DEF more
    <2>11. p \in [type : Octets, subtype : Octets, major : Octets, minor : Octets,
                  product : Octets, instance : Nat, more : Seq(Octets)]
      BY <2>6, <2>7, <2>9, <2>10
    <2>12. p.type = Byte(body) /\ p.subtype = Byte(body + 1)
      BY <2>9
    <2>13. p \in Readable
      BY <2>3, <2>11, <2>12, Zenon DEF Readable
    <2>14. (body + 7) + m \in Nat
      BY <2>0, <2>4
    <2>15. QED
      BY <2>13, <2>14 DEF m
  <1> HIDE DEF p
  <1>4. inwardPackets' \in Seq(Readable) /\ inOffset' \in Nat
    <2>0. inwardPackets \in Seq(Readable) /\ inOffset \in Nat
      BY DEF Types
    <2>1. CASE class \in Registered /\ inwardPackets' = Append(inwardPackets, p)
                 /\ inOffset' = (body + 7) + MoreBytes(class)
      <3>1. p \in Readable /\ (body + 7) + MoreBytes(class) \in Nat
        BY <1>3, <2>1
      <3>2. Append(inwardPackets, p) \in Seq(Readable)
        BY <2>0, <3>1, AppendProperties
      <3>3. QED
        BY <2>1, <3>1, <3>2, Zenon
    <2>2. CASE inwardPackets' = inwardPackets /\ inOffset' = inOffset
      BY <2>0, <2>2
    <2>3. QED
      BY <1>2, <2>1, <2>2
  <1>5. at' \in {"reading", "parsing", "crashed"}
    BY <1>2 DEF Types
  <1>6. QED
    BY <1>1, <1>4, <1>5, Zenon DEF Types, clientVars, bufferVars

\* Going back to reading.
LEMMA ReadAgainTypes == ASSUME Types, ReadAgain PROVE Types'
  <1>1. at' = "reading" /\ UNCHANGED <<whole, cuts, clientVars, stream, bufferVars, inOffset, inwardPackets>>
    BY DEF ReadAgain
  <1>2. at' \in {"reading", "parsing", "crashed"}
    BY <1>1
  <1>3. QED
    BY <1>1, <1>2, Zenon DEF Types, clientVars, bufferVars

-----------------------------------------------------------------------------
(* Every step keeps the bytes.                                             *)

\* A step that leaves the wire and the buffer alone.
LEMMA BytesUnchanged ==
    ASSUME BytesInv, wire' = wire, stream' = stream, length' = length, receiveBuffer' = receiveBuffer
    PROVE  BytesInv' /\ Taken' = Taken /\ Boundaries' = Boundaries
  <1>1. Taken' = Taken /\ Boundaries' = Boundaries
    BY Zenon DEF Taken, Boundaries
  <1>2. BytesInv'
    BY <1>1, Zenon DEF BytesInv
  <1>3. QED
    BY <1>1, <1>2

\* What was sent before stays where it was.
LEMMA StartWriteBytes ==
    ASSUME Types, BytesInv, StartWrite
    PROVE  /\ BytesInv' /\ Taken' = Taken
           /\ wire \in Seq(Packets) /\ wire' \in Seq(Packets) /\ Len(wire) <= Len(wire')
           /\ \A i \in 1 .. Len(wire) : wire'[i] = wire[i]
           /\ \A i \in 1 .. Len(wire) + 1 : StartOf(wire', i) = StartOf(wire, i)
  <1>1. /\ Types' /\ Writes(queue) \in Seq(Packets) /\ Frames(Writes(queue)) \in Seq(Octets)
    BY StartWriteTypes
  <1>2. wire \in Seq(Packets) /\ stream \in Seq(Octets) /\ wire' \in Seq(Packets)
    BY <1>1 DEF Types
  <1>3. wire' = wire \o Writes(queue) /\ stream' = stream \o Frames(Writes(queue))
    BY DEF StartWrite
  <1> DEFINE w == Writes(queue)
             b == Frames(w)
             all == Frames(wire)
  <1>4. w \in Seq(Packets) /\ b \in Seq(Octets) /\ all \in Seq(Octets)
    BY <1>1, <1>2, FramesType
  <1>5. Frames(wire') = all \o b
    BY <1>1, <1>2, <1>3, FramesConcat
  <1>6. stream' = stream \o b
    BY <1>3
  <1>7. wire' = wire \o w
    BY <1>3
  <1> HIDE DEF b, w, all
  <1>8. /\ Len(all \o b) = Len(all) + Len(b)
        /\ \A k \in 1 .. Len(all) + Len(b) :
              (all \o b)[k] = IF k <= Len(all) THEN all[k] ELSE b[k - Len(all)]
    BY <1>4, ConcatProperties
  <1>9. /\ Len(stream \o b) = Len(stream) + Len(b)
        /\ \A k \in 1 .. Len(stream) + Len(b) :
              (stream \o b)[k] = IF k <= Len(stream) THEN stream[k] ELSE b[k - Len(stream)]
    BY <1>2, <1>4, ConcatProperties
  <1>10. Len(all) \in Nat /\ Len(b) \in Nat /\ Len(stream) \in Nat
    BY <1>2, <1>4
  <1>11. Taken \in Nat /\ Taken + Len(stream) = Len(all) /\ length <= Taken
    BY DEF BytesInv, all
  <1>12. Taken' = Taken
    <2>1. Taken' = StartOf(wire', Len(wire') + 1) - Len(stream')
      BY DEF Taken
    <2>2. Len(Frames(wire')) = StartOf(wire', Len(wire') + 1)
      BY <1>2, FramesLength
    <2>3. Len(Frames(wire')) = Len(all) + Len(b) /\ Len(stream') = Len(stream) + Len(b)
      BY <1>5, <1>6, <1>8, <1>9, Zenon
    <2>4. Taken' = (Len(all) + Len(b)) - (Len(stream) + Len(b))
      BY <2>1, <2>2, <2>3, Zenon
    <2>5. (Len(all) + Len(b)) - (Len(stream) + Len(b)) = Taken
      BY <1>10, <1>11
    <2>6. QED
      BY <2>4, <2>5, Zenon
  <1>13. length' = length /\ receiveBuffer' = receiveBuffer /\ length \in Nat
    BY DEF StartWrite, bufferVars, Types
  <1>14. Taken' \in Nat /\ Taken' + Len(stream') = Len(Frames(wire')) /\ length' <= Taken'
    <2>1. Len(Frames(wire')) = Len(all) + Len(b) /\ Len(stream') = Len(stream) + Len(b)
      BY <1>5, <1>6, <1>8, <1>9, Zenon
    <2>2. Taken + (Len(stream) + Len(b)) = Len(all) + Len(b)
      BY <1>10, <1>11
    <2>3. QED
      BY <1>11, <1>12, <1>13, <2>1, <2>2, Zenon
  <1>15. ASSUME NEW k \in 1 .. Len(stream')
         PROVE  stream'[k] = Frames(wire')[Taken' + k]
    <2>1. k \in 1 .. Len(stream) + Len(b)
      BY <1>6, <1>9
    <2>2. Taken + k \in 1 .. Len(all) + Len(b)
      BY <1>10, <1>11, <2>1
    <2>3. CASE k <= Len(stream)
      <3>1. k \in 1 .. Len(stream) /\ Taken + k <= Len(all)
        BY <1>10, <1>11, <2>1, <2>3
      <3>2. stream[k] = all[Taken + k]
        BY <3>1 DEF BytesInv, all
      <3>3. (stream \o b)[k] = stream[k] /\ (all \o b)[Taken + k] = all[Taken + k]
        BY <1>8, <1>9, <2>1, <2>2, <2>3, <3>1, Zenon
      <3>4. QED
        BY <1>5, <1>6, <1>12, <3>2, <3>3, Zenon
    <2>4. CASE ~(k <= Len(stream))
      <3>1. ~(Taken + k <= Len(all)) /\ (Taken + k) - Len(all) = k - Len(stream)
        BY <1>10, <1>11, <2>1, <2>4
      <3>2. (stream \o b)[k] = b[k - Len(stream)]
        BY <1>9, <2>1, <2>4, Zenon
      <3>3. (all \o b)[Taken + k] = b[(Taken + k) - Len(all)]
        BY <1>8, <2>2, <3>1, Zenon
      <3>4. QED
        BY <1>5, <1>6, <1>12, <3>1, <3>2, <3>3, Zenon
    <2>5. QED
      BY <2>3, <2>4
  <1>16. ASSUME NEW k \in 1 .. length'
         PROVE  receiveBuffer'[k - 1] = Frames(wire')[(Taken' - length') + k]
    <2>1. k \in 1 .. length
      BY <1>13
    <2>2. (Taken - length) + k \in 1 .. Len(all) + Len(b) /\ (Taken - length) + k <= Len(all)
      BY <1>10, <1>11, <1>13, <2>1
    <2>3. receiveBuffer[k - 1] = all[(Taken - length) + k]
      BY <2>1 DEF BytesInv, all
    <2>4. (all \o b)[(Taken - length) + k] = all[(Taken - length) + k]
      BY <1>8, <2>2, Zenon
    <2>5. QED
      BY <1>5, <1>12, <1>13, <2>3, <2>4, Zenon
  <1>crash. BytesInv'
    BY <1>14, <1>15, <1>16 DEF BytesInv
  <1>18. Len(wire) <= Len(wire') /\ \A i \in 1 .. Len(wire) : wire'[i] = wire[i]
    <2>1. /\ Len(wire \o w) = Len(wire) + Len(w)
          /\ \A i \in 1 .. Len(wire) + Len(w) :
                (wire \o w)[i] = IF i <= Len(wire) THEN wire[i] ELSE w[i - Len(wire)]
      BY <1>2, <1>4, ConcatProperties
    <2>2. Len(wire) \in Nat /\ Len(w) \in Nat
      BY <1>2, <1>4
    <2>3. \A i \in 1 .. Len(wire) : i \in 1 .. Len(wire) + Len(w) /\ i <= Len(wire)
      BY <2>2
    <2>4. \A i \in 1 .. Len(wire) : wire'[i] = wire[i]
      BY <1>7, <2>1, <2>3, Zenon
    <2>5. Len(wire) <= Len(wire) + Len(w)
      BY <2>2
    <2>6. QED
      BY <1>7, <2>1, <2>4, <2>5, Zenon
  <1>19. \A i \in 1 .. Len(wire) + 1 : StartOf(wire', i) = StartOf(wire, i)
    <2>1. Len(wire) \in Nat
      BY <1>2
    <2>2. QED
      BY <1>18, <2>1, StartPrefix
  <1>20. QED
    BY <1>2, <1>12, <1>crash, <1>18, <1>19

\* What is read continues what was read before.
LEMMA ReceiveBytes ==
    ASSUME Types, BytesInv, NEW n \in 1 .. ReadLimit, Receive(n), cuts' \in 0 .. MaxCuts
    PROVE  BytesInv' /\ Taken' = Taken + n /\ n \in Nat
  <1>1. n \in Nat /\ 1 <= n /\ n <= Len(stream)
    BY ReadLength
  <1>2. /\ Types'
        /\ Len(stream') = Len(stream) - n
        /\ \A k \in 1 .. Len(stream) - n : stream'[k] = stream[n + k]
        /\ \A k \in 1 .. n : receiveBuffer'[k - 1] = stream[k]
    BY ReceiveTypes
  <1>3. wire' = wire /\ length' = n
    BY DEF Receive, clientVars
  <1>4. Len(stream) \in Nat
    BY DEF Types
  <1>5. /\ Taken \in Nat /\ Taken + Len(stream) = Len(Frames(wire))
        /\ \A k \in 1 .. Len(stream) : stream[k] = Frames(wire)[Taken + k]
    BY DEF BytesInv
  <1>6. Taken' = Taken + n
    <2>1. Taken' = StartOf(wire', Len(wire') + 1) - Len(stream')
      BY DEF Taken
    <2>2. wire \in Seq(Packets)
      BY DEF Types
    <2>3. Len(Frames(wire)) = StartOf(wire, Len(wire) + 1)
      BY <2>2, FramesLength
    <2>4. Taken' = Len(Frames(wire)) - (Len(stream) - n)
      BY <1>2, <1>3, <2>1, <2>3, Zenon
    <2>5. Len(Frames(wire)) - (Len(stream) - n) = Taken + n
      BY <1>1, <1>4, <1>5
    <2>6. QED
      BY <2>4, <2>5, Zenon
  <1>7. Taken' \in Nat /\ Taken' + Len(stream') = Len(Frames(wire')) /\ length' <= Taken'
    <2>1. Taken + n \in Nat /\ (Taken + n) + (Len(stream) - n) = Taken + Len(stream) /\ n <= Taken + n
      BY <1>1, <1>4, <1>5
    <2>2. QED
      BY <1>2, <1>3, <1>5, <1>6, <2>1, Zenon
  <1>8. ASSUME NEW k \in 1 .. Len(stream')
        PROVE  stream'[k] = Frames(wire')[Taken' + k]
    <2>1. k \in 1 .. Len(stream) - n
      BY <1>2
    <2>2. n + k \in 1 .. Len(stream) /\ Taken + (n + k) = (Taken + n) + k
      BY <1>1, <1>4, <1>5, <2>1
    <2>3. stream'[k] = stream[n + k] /\ stream[n + k] = Frames(wire)[Taken + (n + k)]
      BY <1>2, <1>5, <2>1, <2>2, Zenon
    <2>4. QED
      BY <1>3, <1>6, <2>2, <2>3, Zenon
  <1>9. ASSUME NEW k \in 1 .. length'
        PROVE  receiveBuffer'[k - 1] = Frames(wire')[(Taken' - length') + k]
    <2>1. k \in 1 .. n
      BY <1>3
    <2>2. k \in 1 .. Len(stream) /\ ((Taken + n) - n) + k = Taken + k
      BY <1>1, <1>4, <1>5, <2>1
    <2>3. receiveBuffer'[k - 1] = stream[k] /\ stream[k] = Frames(wire)[Taken + k]
      BY <1>2, <1>5, <2>1, <2>2, Zenon
    <2>4. QED
      BY <1>3, <1>6, <2>2, <2>3, Zenon
  <1>10. QED
    BY <1>1, <1>6, <1>7, <1>8, <1>9 DEF BytesInv

-----------------------------------------------------------------------------
(* Without cuts the loop goes from frame to frame.                         *)

\* In a read of whole frames the loop stands at the end of what was read, or
\* at a frame that it has all of.
LEMMA NextFrame ==
    ASSUME Types, BytesInv, WholeInv, whole, at = "parsing"
    PROVE  \/ inOffset = length /\ Taken = StartOf(wire, Len(inwardPackets) + 1)
           \/ /\ Len(inwardPackets) + 1 \in 1 .. Len(wire)
              /\ (Taken - length) + inOffset = StartOf(wire, Len(inwardPackets) + 1)
              /\ inOffset + FrameLength(wire[Len(inwardPackets) + 1]) <= length
  <1> DEFINE m == Len(inwardPackets) + 1
  <1>1. /\ wire \in Seq(Packets) /\ Len(wire) \in Nat /\ length \in Nat /\ inOffset \in Nat
        /\ Len(inwardPackets) \in Nat /\ Taken \in Nat
    BY DEF Types, BytesInv
  <1>2. /\ inOffset <= length /\ (Taken - length) + inOffset = StartOf(wire, m)
        /\ Taken \in Boundaries /\ Len(inwardPackets) <= Len(wire)
    BY DEF WholeInv
  <1>3. PICK b \in 1 .. Len(wire) + 1 : Taken = StartOf(wire, b)
    BY <1>2 DEF Boundaries
  <1>4. m \in 1 .. Len(wire) + 1 /\ m \in Nat /\ b \in Nat
    BY <1>1, <1>2
  <1> HIDE DEF m
  <1>5. CASE inOffset = length
    <2>1. (Taken - length) + length = Taken
      BY <1>1
    <2>2. Taken = StartOf(wire, m)
      BY <1>2, <1>5, <2>1, Zenon
    <2>3. QED
      BY <1>5, <2>2 DEF m
  <1>6. CASE inOffset # length
    <2>1. (Taken - length) + inOffset < Taken
      BY <1>1, <1>2, <1>6
    <2>2. StartOf(wire, m) < StartOf(wire, b)
      BY <1>2, <1>3, <2>1, Zenon
    <2>3. StartOf(wire, m) \in Nat /\ StartOf(wire, b) \in Nat
      BY <1>1, <1>4, StartType
    <2>4. m < b
      <3>1. CASE b = m
        <4>1. StartOf(wire, m) < StartOf(wire, m)
          BY <2>2, <3>1, Zenon
        <4>2. QED
          BY <2>3, <4>1
      <3>2. CASE b < m
        <4>1. b \in 1 .. Len(wire) /\ m \in b + 1 .. Len(wire) + 1
          BY <1>1, <1>4, <3>2
        <4>2. StartOf(wire, b) + FrameLength(wire[b]) <= StartOf(wire, m)
          BY <1>1, <4>1, StartOrder
        <4>3. FrameLength(wire[b]) \in Nat
          <5>1. wire[b] \in Packets
            BY <1>1, <4>1
          <5>2. QED
            BY <5>1, PacketBytes
        <4>4. QED
          BY <2>2, <2>3, <4>2, <4>3
      <3>3. QED
        BY <1>4, <3>1, <3>2
    <2>5. m \in 1 .. Len(wire) /\ b \in m + 1 .. Len(wire) + 1
      BY <1>1, <1>4, <2>4
    <2>6. StartOf(wire, m) + FrameLength(wire[m]) <= StartOf(wire, b)
      BY <1>1, <2>5, StartOrder
    <2>7. FrameLength(wire[m]) \in Nat
      <3>1. wire[m] \in Packets
        BY <1>1, <2>5
      <3>2. QED
        BY <3>1, PacketBytes
    <2>8. ((Taken - length) + inOffset) + FrameLength(wire[m]) <= Taken
      BY <1>2, <1>3, <2>6, Zenon
    <2>9. inOffset + FrameLength(wire[m]) <= length
      BY <1>1, <2>7, <2>8
    <2>10. QED
      BY <1>2, <2>5, <2>9 DEF m
  <1>7. QED
    BY <1>5, <1>6

\* Write does not concern the server.
LEMMA WriteWhole ==
    ASSUME Types, WholeInv, NEW class \in Classes, Write(class)
    PROVE  WholeInv'
  <1>1. UNCHANGED <<whole, wire, stream, bufferVars, inOffset, at, inwardPackets>>
    BY DEF Write
  <1>2. Taken' = Taken /\ Boundaries' = Boundaries
    BY <1>1, Zenon DEF Taken, Boundaries
  <1>3. QED
    BY <1>1, <1>2, Zenon DEF WholeInv, bufferVars

\* Frames sent later change nothing of those read.
LEMMA StartWriteWhole ==
    ASSUME Types, BytesInv, WholeInv, StartWrite
    PROVE  WholeInv'
  <1>1. /\ Taken' = Taken
        /\ wire \in Seq(Packets) /\ wire' \in Seq(Packets) /\ Len(wire) <= Len(wire')
        /\ \A i \in 1 .. Len(wire) : wire'[i] = wire[i]
        /\ \A i \in 1 .. Len(wire) + 1 : StartOf(wire', i) = StartOf(wire, i)
    BY StartWriteBytes
  <1>2. whole' = whole /\ length' = length /\ inOffset' = inOffset /\ at' = at /\ inwardPackets' = inwardPackets
    BY DEF StartWrite, bufferVars
  <1>3. SUFFICES ASSUME whole
                 PROVE  WholeInv'
    BY <1>2 DEF WholeInv
  <1>4. /\ Taken \in Boundaries /\ Len(inwardPackets) <= Len(wire)
        /\ \A i \in 1 .. Len(inwardPackets) : inwardPackets[i] = wire[i]
        /\ at = "reading" => Taken = StartOf(wire, Len(inwardPackets) + 1)
        /\ at = "parsing" => /\ inOffset <= length
                             /\ (Taken - length) + inOffset = StartOf(wire, Len(inwardPackets) + 1)
    BY <1>3 DEF WholeInv
  <1>5. Len(inwardPackets) \in Nat /\ Len(wire) \in Nat /\ Len(wire') \in Nat
    <2>1. inwardPackets \in Seq(Readable)
      BY DEF Types
    <2>2. QED
      BY <1>1, <2>1
  <1>6. Taken' \in Boundaries'
    <2>1. PICK b \in 1 .. Len(wire) + 1 : Taken = StartOf(wire, b)
      BY <1>4 DEF Boundaries
    <2>2. b \in 1 .. Len(wire') + 1
      BY <1>1, <1>5
    <2>3. Taken' = StartOf(wire', b)
      BY <1>1, <2>1, Zenon
    <2>4. QED
      BY <2>2, <2>3 DEF Boundaries
  <1>7. Len(inwardPackets) <= Len(wire') /\ Len(inwardPackets) + 1 \in 1 .. Len(wire) + 1
    BY <1>1, <1>4, <1>5
  <1>8. \A i \in 1 .. Len(inwardPackets) : i \in 1 .. Len(wire)
    BY <1>4, <1>5
  <1>9. \A i \in 1 .. Len(inwardPackets) : inwardPackets[i] = wire'[i]
    BY <1>1, <1>4, <1>8, Zenon
  <1>10. StartOf(wire', Len(inwardPackets) + 1) = StartOf(wire, Len(inwardPackets) + 1)
    BY <1>1, <1>7
  <1>11. QED
    BY <1>1, <1>2, <1>4, <1>6, <1>7, <1>9, <1>10, Zenon DEF WholeInv

\* A read of whole frames ends at a boundary, and begins where the last one ended.
LEMMA ReadWholeWhole ==
    ASSUME Types, BytesInv, WholeInv, ReadWhole
    PROVE  WholeInv'
  <1>1. PICK n \in WholeReads : Receive(n)
    BY DEF ReadWhole
  <1>2. n \in 1 .. ReadLimit /\ n \in {b - Taken : b \in Boundaries}
    BY DEF WholeReads
  <1>3. cuts' \in 0 .. MaxCuts
    BY DEF ReadWhole, Types
  <1>4. Taken' = Taken + n /\ n \in Nat
    BY <1>1, <1>2, <1>3, ReceiveBytes
  <1>5. /\ whole' = whole /\ wire' = wire /\ length' = n /\ inOffset' = 0 /\ at = "reading"
        /\ at' = "parsing" /\ inwardPackets' = inwardPackets
    BY <1>1 DEF Receive, clientVars
  <1>6. SUFFICES ASSUME whole
                 PROVE  WholeInv'
    BY <1>5 DEF WholeInv
  <1>7. /\ Len(inwardPackets) <= Len(wire)
        /\ \A i \in 1 .. Len(inwardPackets) : inwardPackets[i] = wire[i]
        /\ Taken = StartOf(wire, Len(inwardPackets) + 1)
    BY <1>5, <1>6 DEF WholeInv
  <1>8. Taken' \in Boundaries'
    <2>1. wire \in Seq(Packets) /\ Taken \in Nat
      BY DEF Types, BytesInv
    <2>2. PICK b \in Boundaries : n = b - Taken
      BY <1>2
    <2>3. PICK i \in 1 .. Len(wire) + 1 : b = StartOf(wire, i)
      BY DEF Boundaries
    <2>4. b \in Nat
      BY <2>1, <2>3, StartType
    <2>5. Taken + n = b
      BY <2>1, <2>2, <2>4
    <2>6. Taken' = StartOf(wire', i) /\ i \in 1 .. Len(wire') + 1
      BY <1>4, <1>5, <2>3, <2>5, Zenon
    <2>7. QED
      BY <2>6 DEF Boundaries
  <1>9. (Taken' - length') + inOffset' = StartOf(wire', Len(inwardPackets') + 1) /\ inOffset' <= length'
    <2>1. Taken \in Nat
      BY DEF BytesInv
    <2>2. ((Taken + n) - n) + 0 = Taken /\ 0 <= n
      BY <1>4, <2>1
    <2>3. QED
      BY <1>4, <1>5, <1>7, <2>2, Zenon
  <1>10. at' # "reading"
    BY <1>5
  <1>11. QED
    BY <1>5, <1>7, <1>8, <1>9, <1>10, Zenon DEF WholeInv

\* A turn of the loop delivers the next packet, or no more.
LEMMA SerializeInWhole ==
    ASSUME Types, BytesInv, WholeInv, SerializeIn
    PROVE  /\ WholeInv'
           /\ \/ ~whole
              \/ inwardPackets' = inwardPackets
              \/ /\ Len(inwardPackets) + 1 \in 1 .. Len(wire)
                 /\ inwardPackets' = Append(inwardPackets, wire[Len(inwardPackets) + 1])
  <1>1. whole' = whole /\ wire' = wire /\ stream' = stream /\ length' = length
    BY DEF SerializeIn, clientVars, bufferVars
  <1>2. SUFFICES ASSUME whole
                 PROVE  /\ WholeInv'
                        /\ \/ inwardPackets' = inwardPackets
                           \/ /\ Len(inwardPackets) + 1 \in 1 .. Len(wire)
                              /\ inwardPackets' = Append(inwardPackets, wire[Len(inwardPackets) + 1])
    BY <1>1 DEF WholeInv
  <1>3. Taken' = Taken /\ Boundaries' = Boundaries
    BY <1>1, Zenon DEF Taken, Boundaries
  <1>crash. CASE at' = "crashed" /\ inwardPackets' = inwardPackets
    <2>1. at' # "reading" /\ at' # "parsing"
      BY <1>crash
    <2>2. QED
      BY <1>1, <1>2, <1>3, <1>crash, <2>1, Zenon DEF WholeInv
  <1>4. at = "parsing" /\ IsRemainingBufferBigenough(inOffset, length)
    BY DEF SerializeIn
  <1>5. /\ wire \in Seq(Packets) /\ inwardPackets \in Seq(Readable) /\ length \in Nat
        /\ inOffset \in Nat /\ Taken \in Nat
    BY DEF Types, BytesInv
  <1> DEFINE m == Len(inwardPackets) + 1
  <1>6. ~(inOffset = length)
    <2>1. U16In(inOffset + 1) \in Nat
      <3>1. inOffset + 1 \in Nat
        BY <1>5
      <3>2. QED
        BY <3>1, ByteTypes
    <2>2. U16In(inOffset + 1) + (inOffset + 3) <= length
      BY <1>4 DEF IsRemainingBufferBigenough
    <2>3. QED
      BY <1>5, <2>1, <2>2
  <1>7. /\ m \in 1 .. Len(wire)
        /\ (Taken - length) + inOffset = StartOf(wire, m)
        /\ inOffset + FrameLength(wire[m]) <= length
    BY <1>2, <1>4, <1>6, NextFrame
  <1>8. SUFFICES ASSUME /\ at' = at
                        /\ inwardPackets' = Append(inwardPackets, wire[m])
                        /\ inOffset' = inOffset + FrameLength(wire[m])
                 PROVE  WholeInv'
    <2> HIDE DEF m
    <2>1. \/ at' = "crashed" /\ inwardPackets' = inwardPackets
          \/ /\ at' = at
             /\ inwardPackets' = Append(inwardPackets, wire[m])
             /\ inOffset' = inOffset + FrameLength(wire[m])
      BY <1>7, FrameRead
    <2>2. QED
      BY <1>7, <1>crash, <2>1 DEF m
  <1>9. /\ Len(inwardPackets') = m
        /\ \A i \in 1 .. m : inwardPackets'[i] = wire[i]
    <2>1. wire[m] \in Packets
      BY <1>5, <1>7
    <2>2. \A i \in 1 .. Len(inwardPackets) : inwardPackets[i] = wire[i]
      BY <1>2 DEF WholeInv
    <2>3. Len(inwardPackets) \in Nat
      BY <1>5
    <2>4. /\ Len(inwardPackets') = Len(inwardPackets) + 1
          /\ \A i \in 1 .. Len(inwardPackets) : inwardPackets'[i] = inwardPackets[i]
          /\ inwardPackets'[Len(inwardPackets) + 1] = wire[m]
      <3>1. \A s \in Seq(Readable) : \A e :
                /\ Len(Append(s, e)) = Len(s) + 1
                /\ \A i \in 1 .. Len(s) : Append(s, e)[i] = s[i]
                /\ Append(s, e)[Len(s) + 1] = e
        OBVIOUS
      <3>2. QED
        BY <1>5, <1>8, <3>1, Zenon
    <2>5. \A i \in 1 .. m : i \in 1 .. Len(inwardPackets) \/ i = Len(inwardPackets) + 1
      BY <2>3
    <2>6. \A i \in 1 .. m : inwardPackets'[i] = wire[i]
      BY <2>2, <2>4, <2>5, Zenon
    <2>7. QED
      BY <2>4, <2>6
  <1>10. Len(inwardPackets') <= Len(wire')
    BY <1>1, <1>5, <1>7, <1>9
  <1>11. (Taken' - length') + inOffset' = StartOf(wire', Len(inwardPackets') + 1) /\ inOffset' <= length'
    <2>1. FrameLength(wire[m]) \in Nat
      <3>1. wire[m] \in Packets
        BY <1>5, <1>7
      <3>2. QED
        BY <3>1, PacketBytes
    <2>2. m \in Nat /\ m # 0
      BY <1>7
    <2> HIDE DEF m
    <2>3. StartOf(wire, m + 1) = StartOf(wire, m) + FrameLength(wire[m])
      BY <2>2, StartOfNext
    <2>4. (Taken - length) + (inOffset + FrameLength(wire[m])) = ((Taken - length) + inOffset) + FrameLength(wire[m])
      BY <1>5, <2>1
    <2>5. QED
      BY <1>1, <1>3, <1>7, <1>8, <1>9, <2>3, <2>4, Zenon
  <1>12. Taken' \in Boundaries'
    BY <1>2, <1>3, Zenon DEF WholeInv
  <1>13. at' # "reading"
    BY <1>4, <1>8
  <1>14. \A i \in 1 .. Len(inwardPackets') : inwardPackets'[i] = wire'[i]
    BY <1>1, <1>9, Zenon
  <1>15. QED
    BY <1>10, <1>11, <1>12, <1>13, <1>14, Zenon DEF WholeInv

\* The loop only ends when it has read all frames of the read.
LEMMA ReadAgainWhole ==
    ASSUME Types, BytesInv, WholeInv, ReadAgain
    PROVE  WholeInv'
  <1>1. /\ whole' = whole /\ wire' = wire /\ stream' = stream /\ length' = length /\ inOffset' = inOffset
        /\ inwardPackets' = inwardPackets
        /\ at = "parsing" /\ at' = "reading" /\ ~IsRemainingBufferBigenough(inOffset, length)
    BY DEF ReadAgain, clientVars, bufferVars
  <1>2. SUFFICES ASSUME whole
                 PROVE  WholeInv'
    BY <1>1 DEF WholeInv
  <1>3. Taken' = Taken /\ Boundaries' = Boundaries
    BY <1>1, Zenon DEF Taken, Boundaries
  <1>4. Taken = StartOf(wire, Len(inwardPackets) + 1)
    <2>1. CASE inOffset = length /\ Taken = StartOf(wire, Len(inwardPackets) + 1)
      BY <2>1
    <2>2. CASE /\ Len(inwardPackets) + 1 \in 1 .. Len(wire)
               /\ (Taken - length) + inOffset = StartOf(wire, Len(inwardPackets) + 1)
               /\ inOffset + FrameLength(wire[Len(inwardPackets) + 1]) <= length
      BY <1>1, <2>2, BigEnough
    <2>3. QED
      BY <1>1, <1>2, <2>1, <2>2, NextFrame
  <1>5. at' # "parsing"
    BY <1>1
  <1>6. QED
    BY <1>1, <1>2, <1>3, <1>4, <1>5, Zenon DEF WholeInv

-----------------------------------------------------------------------------
(* The numbers of the packets.                                             *)

\* A step of the server alone.
LEMMA NumbersUnchanged ==
    ASSUME QueueInv, WireInv, written' = written, queue' = queue, wire' = wire
    PROVE  QueueInv' /\ WireInv'
  <1>1. QueueInv'
    BY DEF QueueInv
  <1>2. WireInv'
    BY DEF WireInv
  <1>3. QED
    BY <1>1, <1>2

\* A packet is numbered when it is written, and sent after the earlier ones.
LEMMA WriteNumbers ==
    ASSUME Types, QueueInv, WireInv, NEW class \in Classes, Write(class)
    PROVE  QueueInv' /\ WireInv'
  <1>1. /\ queue' = Append(queue, NewPacket(class, written + 1))
        /\ written' = written + 1 /\ wire' = wire
    BY DEF Write
  <1>2. queue \in Seq(Packets) /\ Len(queue) \in Nat /\ written \in Nat /\ Len(queue) <= written
    BY DEF Types, QueueInv
  <1> DEFINE p == NewPacket(class, written + 1)
  <1>3. p.instance = written + 1
    BY DEF NewPacket
  <1>4. queue' = Append(queue, p)
    BY <1>1
  <1> HIDE DEF p
  <1>5. /\ Len(queue') = Len(queue) + 1
        /\ \A k \in 1 .. Len(queue) : queue'[k] = queue[k]
        /\ queue'[Len(queue) + 1] = p
    <2>1. \A s \in Seq(Packets) : \A e :
             /\ Len(Append(s, e)) = Len(s) + 1
             /\ \A i \in 1 .. Len(s) : Append(s, e)[i] = s[i]
             /\ Append(s, e)[Len(s) + 1] = e
      OBVIOUS
    <2>2. QED
      BY <1>2, <1>4, <2>1, Zenon
  <1>6. written' - Len(queue') = written - Len(queue) /\ Len(queue') <= written'
    <2>1. (written + 1) - (Len(queue) + 1) = written - Len(queue) /\ Len(queue) + 1 <= written + 1
      BY <1>2
    <2>2. QED
      BY <1>1, <1>5, <2>1, Zenon
  <1>7. ASSUME NEW k \in 1 .. Len(queue')
        PROVE  queue'[k].instance = (written - Len(queue)) + k
    <2>1. CASE k \in 1 .. Len(queue)
      <3>1. queue'[k] = queue[k] /\ queue[k].instance = (written - Len(queue)) + k
        BY <1>5, <2>1 DEF QueueInv
      <3>2. QED
        BY <3>1, Zenon
    <2>2. CASE k = Len(queue) + 1
      <3>1. queue'[k].instance = written + 1
        BY <1>3, <1>5, <2>2, Zenon
      <3>2. written + 1 = (written - Len(queue)) + (Len(queue) + 1)
        BY <1>2
      <3>3. QED
        BY <2>2, <3>1, <3>2, Zenon
    <2>3. QED
      BY <1>2, <1>5, <2>1, <2>2
  <1>8. QueueInv'
    BY <1>6, <1>7, Zenon DEF QueueInv
  <1>9. WireInv'
    <2>1. written' - Len(queue') = written - Len(queue)
      BY <1>6
    <2>2. \A n \in 1 .. written - Len(queue) : \E j \in 1 .. Len(wire) : wire[j].instance = n
      BY DEF WireInv
    <2>3. \A n \in 1 .. written' - Len(queue') : \E j \in 1 .. Len(wire') : wire'[j].instance = n
      BY <1>1, <2>1, <2>2, Zenon
    <2>4. \A i \in 1 .. Len(wire) : \A n \in 1 .. wire[i].instance :
              \E j \in 1 .. i : wire[j].instance = n
      BY DEF WireInv
    <2>5. \A i \in 1 .. Len(wire') : \A n \in 1 .. wire'[i].instance :
              \E j \in 1 .. i : wire'[j].instance = n
      BY <1>1, <2>4, ZenonT(40)
    <2>6. QED
      BY <2>3, <2>5 DEF WireInv
  <1>10. QED
    BY <1>8, <1>9

\* start_write sends all that is queued, none before an earlier one.
LEMMA StartWriteNumbers ==
    ASSUME Types, QueueInv, WireInv, StartWrite
    PROVE  QueueInv' /\ WireInv'
  <1>1. queue' = <<>> /\ written' = written /\ wire' = wire \o Writes(queue)
    BY DEF StartWrite
  <1>2. /\ queue \in Seq(Packets) /\ Len(queue) \in Nat /\ written \in Nat /\ Len(queue) <= written
        /\ wire \in Seq(Packets) /\ Len(wire) \in Nat
    BY DEF Types, QueueInv
  <1> DEFINE w == Writes(queue)
             s == written - Len(queue)
  <1>3. w \in Seq(Packets) /\ Repeats(w, queue, Len(queue))
    BY <1>2, WritesRepeat
  <1>4. wire' = wire \o w
    BY <1>1
  <1> HIDE DEF w
  <1>5. Len(queue') = 0 /\ written' - Len(queue') = written
    BY <1>1, <1>2
  <1>6. QueueInv'
    <2>1. Len(queue') <= written' /\ 1 .. Len(queue') = {}
      BY <1>1, <1>2, <1>5
    <2>2. QED
      BY <2>1, Zenon DEF QueueInv
  <1>7. /\ Len(wire') = Len(wire) + Len(w) /\ Len(w) \in Nat
        /\ \A i \in 1 .. Len(wire) + Len(w) :
              wire'[i] = IF i <= Len(wire) THEN wire[i] ELSE w[i - Len(wire)]
    <2>1. /\ Len(wire \o w) = Len(wire) + Len(w)
          /\ \A i \in 1 .. Len(wire) + Len(w) :
                (wire \o w)[i] = IF i <= Len(wire) THEN wire[i] ELSE w[i - Len(wire)]
      BY <1>2, <1>3, ConcatProperties
    <2>2. Len(w) \in Nat
      BY <1>3
    <2>3. QED
      BY <1>4, <2>1, <2>2, Zenon
  <1>8. \A i \in 1 .. Len(wire) : i \in 1 .. Len(wire') /\ wire'[i] = wire[i]
    BY <1>2, <1>7
  <1>9. \A i \in 1 .. Len(w) : Len(wire) + i \in 1 .. Len(wire') /\ wire'[Len(wire) + i] = w[i]
    <2>1. \A i \in 1 .. Len(w) : /\ Len(wire) + i \in 1 .. Len(wire) + Len(w)
                                 /\ ~(Len(wire) + i <= Len(wire)) /\ (Len(wire) + i) - Len(wire) = i
      BY <1>2, <1>7
    <2>2. QED
      BY <1>7, <2>1
  <1>10. /\ \A n \in 1 .. s : \E j \in 1 .. Len(wire) : wire[j].instance = n
         /\ \A i \in 1 .. Len(wire) : \A n \in 1 .. wire[i].instance :
               \E j \in 1 .. i : wire[j].instance = n
         /\ \A k \in 1 .. Len(queue) : queue[k].instance = s + k
    BY Zenon DEF WireInv, QueueInv, s
  <1>11. s \in Nat /\ s + Len(queue) = written
    BY <1>2
  <1> HIDE DEF s
  <1>12. ASSUME NEW n \in 1 .. written
         PROVE  \E j \in 1 .. Len(wire') : wire'[j].instance = n
    <2>1. CASE n \in 1 .. s
      <3>1. PICK j \in 1 .. Len(wire) : wire[j].instance = n
        BY <1>10, <2>1
      <3>2. j \in 1 .. Len(wire') /\ wire'[j].instance = n
        BY <1>8, <3>1, Zenon
      <3>3. QED
        BY <3>2
    <2>2. CASE n \notin 1 .. s
      <3>1. n - s \in 1 .. Len(queue) /\ s + (n - s) = n
        BY <1>2, <1>11, <2>2
      <3>2. PICK i \in 1 .. Len(w) : w[i] = queue[n - s]
        BY <1>3, <3>1, Zenon DEF Repeats
      <3>3. queue[n - s].instance = n
        BY <1>10, <3>1, Zenon
      <3>4. Len(wire) + i \in 1 .. Len(wire') /\ wire'[Len(wire) + i].instance = n
        BY <1>9, <3>2, <3>3, Zenon
      <3>5. QED
        BY <3>4, Zenon
    <2>3. QED
      BY <2>1, <2>2
  <1>13. ASSUME NEW i \in 1 .. Len(wire'), NEW n \in 1 .. wire'[i].instance
         PROVE  \E j \in 1 .. i : wire'[j].instance = n
    <2>1. i \in 1 .. Len(wire) + Len(w) /\ i \in Nat
      BY <1>2, <1>7
    <2>2. CASE i <= Len(wire)
      <3>1. i \in 1 .. Len(wire) /\ \A j \in 1 .. i : j \in 1 .. Len(wire)
        BY <1>2, <2>1, <2>2
      <3>2. n \in 1 .. wire[i].instance
        BY <1>8, <3>1, Zenon
      <3>3. PICK j \in 1 .. i : wire[j].instance = n
        BY <1>10, <3>1, <3>2, Zenon
      <3>4. wire'[j].instance = n
        BY <1>8, <3>1, <3>3, Zenon
      <3>5. QED
        BY <3>4, Zenon
    <2>3. CASE ~(i <= Len(wire))
      <3>1. i - Len(wire) \in 1 .. Len(w)
        BY <1>2, <1>7, <2>1, <2>3
      <3>2. PICK k \in 1 .. Len(queue) :
                /\ w[i - Len(wire)] = queue[k]
                /\ \A l \in 1 .. k : \E j \in 1 .. i - Len(wire) : w[j] = queue[l]
        BY <1>3, <3>1, Zenon DEF Repeats
      <3>3. wire'[i] = w[i - Len(wire)]
        BY <1>7, <2>1, <2>3, Zenon
      <3>4. n \in 1 .. s + k
        BY <1>10, <3>2, <3>3, Zenon
      <3>5. \A j \in 1 .. Len(wire) : j \in 1 .. i
        BY <1>2, <2>1, <2>3
      <3>6. CASE n \in 1 .. s
        <4>1. PICK j \in 1 .. Len(wire) : wire[j].instance = n
          BY <1>10, <3>6
        <4>2. wire'[j].instance = n /\ j \in 1 .. i
          BY <1>8, <3>5, <4>1, Zenon
        <4>3. QED
          BY <4>2
      <3>7. CASE n \notin 1 .. s
        <4>1. n - s \in 1 .. k /\ n - s \in 1 .. Len(queue) /\ s + (n - s) = n
          BY <1>2, <1>11, <3>4, <3>7
        <4>2. PICK j \in 1 .. i - Len(wire) : w[j] = queue[n - s]
          BY <3>2, <4>1, Zenon
        <4>3. j \in 1 .. Len(w) /\ Len(wire) + j \in 1 .. i
          BY <1>2, <2>1, <3>1, <4>2
        <4>4. queue[n - s].instance = n
          BY <1>10, <4>1, Zenon
        <4>5. wire'[Len(wire) + j].instance = n
          BY <1>9, <4>2, <4>3, <4>4, Zenon
        <4>6. QED
          BY <4>3, <4>5, Zenon
      <3>8. QED
        BY <3>6, <3>7
    <2>4. QED
      BY <2>2, <2>3
  <1>14. WireInv'
    BY <1>5, <1>12, <1>13, Zenon DEF WireInv
  <1>15. QED
    BY <1>6, <1>14

-----------------------------------------------------------------------------
(* The invariant holds.                                                    *)

\* Every step keeps the invariant.
LEMMA NextInv == Inv /\ [Next]_vars => Inv'
  <1> SUFFICES ASSUME Inv, [Next]_vars
               PROVE  Inv'
    OBVIOUS
  <1>0. Types /\ BytesInv /\ WholeInv /\ QueueInv /\ WireInv
    BY DEF Inv
  <1>1. ASSUME NEW class \in Classes, Write(class)
        PROVE  Inv'
    <2>1. Types'
      BY <1>0, <1>1, WriteTypes
    <2>2. wire' = wire /\ stream' = stream /\ length' = length /\ receiveBuffer' = receiveBuffer
      BY <1>1 DEF Write, bufferVars
    <2>3. BytesInv'
      BY <1>0, <2>2, BytesUnchanged
    <2>4. WholeInv'
      BY <1>0, <1>1, WriteWhole
    <2>5. QueueInv' /\ WireInv'
      BY <1>0, <1>1, WriteNumbers
    <2>6. QED
      BY <2>1, <2>3, <2>4, <2>5 DEF Inv
  <1>2. CASE StartWrite
    <2>1. Types'
      BY <1>0, <1>2, StartWriteTypes
    <2>2. BytesInv'
      BY <1>0, <1>2, StartWriteBytes
    <2>3. WholeInv'
      BY <1>0, <1>2, StartWriteWhole
    <2>4. QueueInv' /\ WireInv'
      BY <1>0, <1>2, StartWriteNumbers
    <2>5. QED
      BY <2>1, <2>2, <2>3, <2>4 DEF Inv
  <1>3. ASSUME NEW n \in 1 .. ReadLimit, Receive(n), cuts' \in 0 .. MaxCuts
        PROVE  Types' /\ BytesInv' /\ QueueInv' /\ WireInv'
    <2>1. Types'
      BY <1>0, <1>3, ReceiveTypes
    <2>2. BytesInv'
      BY <1>0, <1>3, ReceiveBytes
    <2>3. written' = written /\ queue' = queue /\ wire' = wire
      BY <1>3 DEF Receive, clientVars
    <2>4. QueueInv' /\ WireInv'
      BY <1>0, <2>3, NumbersUnchanged
    <2>5. QED
      BY <2>1, <2>2, <2>4
  <1>4. CASE ReadWhole
    <2>1. PICK n \in WholeReads : Receive(n)
      BY <1>4 DEF ReadWhole
    <2>2. n \in 1 .. ReadLimit
      BY DEF WholeReads
    <2>3. cuts' \in 0 .. MaxCuts
      BY <1>0, <1>4 DEF ReadWhole, Types
    <2>4. Types' /\ BytesInv' /\ QueueInv' /\ WireInv'
      BY <1>3, <2>1, <2>2, <2>3
    <2>5. WholeInv'
      BY <1>0, <1>4, ReadWholeWhole
    <2>6. QED
      BY <2>4, <2>5 DEF Inv
  <1>5. CASE ReadCut
    <2>1. PICK n \in 1 .. ReadLimit \ WholeReads : Receive(n)
      BY <1>5 DEF ReadCut
    <2>2. n \in 1 .. ReadLimit
      OBVIOUS
    <2>3. cuts' \in 0 .. MaxCuts
      <3>1. cuts \in 0 .. MaxCuts /\ cuts < MaxCuts /\ cuts' = cuts + 1
        BY <1>0, <1>5 DEF ReadCut, Types
      <3>2. QED
        BY <3>1, BoundAssumption
    <2>4. Types' /\ BytesInv' /\ QueueInv' /\ WireInv'
      BY <1>3, <2>1, <2>2, <2>3
    <2>5. ~whole /\ whole' = whole
      BY <1>5, <2>1 DEF ReadCut, Receive
    <2>6. WholeInv'
      BY <2>5 DEF WholeInv
    <2>7. QED
      BY <2>4, <2>6 DEF Inv
  <1>6. ASSUME UNCHANGED <<written, queue, wire, stream, receiveBuffer, length>>
        PROVE  BytesInv' /\ QueueInv' /\ WireInv'
    <2>1. BytesInv'
      BY <1>0, <1>6, BytesUnchanged
    <2>2. QueueInv' /\ WireInv'
      BY <1>0, <1>6, NumbersUnchanged
    <2>3. QED
      BY <2>1, <2>2
  <1>7. CASE SerializeIn
    <2>1. UNCHANGED <<written, queue, wire, stream, receiveBuffer, length>>
      BY <1>7 DEF SerializeIn, clientVars, bufferVars
    <2>2. BytesInv' /\ QueueInv' /\ WireInv'
      BY <1>6, <2>1
    <2>3. Types'
      BY <1>0, <1>7, SerializeInTypes
    <2>4. WholeInv'
      BY <1>0, <1>7, SerializeInWhole
    <2>5. QED
      BY <2>2, <2>3, <2>4 DEF Inv
  <1>8. CASE ReadAgain
    <2>1. UNCHANGED <<written, queue, wire, stream, receiveBuffer, length>>
      BY <1>8 DEF ReadAgain, clientVars, bufferVars
    <2>2. BytesInv' /\ QueueInv' /\ WireInv'
      BY <1>6, <2>1
    <2>3. Types'
      BY <1>0, <1>8, ReadAgainTypes
    <2>4. WholeInv'
      BY <1>0, <1>8, ReadAgainWhole
    <2>5. QED
      BY <2>2, <2>3, <2>4 DEF Inv
  <1>9. CASE UNCHANGED vars
    <2>1. UNCHANGED <<written, queue, wire, stream, receiveBuffer, length>>
      BY <1>9 DEF vars, clientVars, bufferVars
    <2>2. BytesInv' /\ QueueInv' /\ WireInv'
      BY <1>6, <2>1
    <2>3. Types'
      BY <1>0, <1>9, Zenon DEF Types, vars, clientVars, bufferVars
    <2>4. Taken' = Taken /\ Boundaries' = Boundaries
      BY <2>1, Zenon DEF Taken, Boundaries
    <2>5. WholeInv'
      BY <1>0, <1>9, <2>4, Zenon DEF WholeInv, vars, clientVars, bufferVars
    <2>6. QED
      BY <2>2, <2>3, <2>5 DEF Inv
  <1>10. QED
    BY <1>1, <1>2, <1>4, <1>5, <1>7, <1>8, <1>9 DEF Next, ServerStep

\* The invariant holds in every reachable state.
THEOREM Invariance == Spec => []Inv
  BY InvInit, NextInv, PTL DEF Spec

\* Every variable has its type, and the bytes on the wire are not more than
\* those of the frames sent.
THEOREM TypeCorrect == Spec => []TypeOK
  <1>1. Inv => TypeOK
    <2> SUFFICES ASSUME Inv
                 PROVE  TypeOK
      OBVIOUS
    <2>1. Types /\ BytesInv /\ Len(queue) <= written
      BY DEF Inv, QueueInv
    <2>2. Len(stream) <= StartOf(wire, Len(wire) + 1)
      <3>1. wire \in Seq(Packets) /\ Len(stream) \in Nat
        BY <2>1 DEF Types
      <3>2. Len(Frames(wire)) = StartOf(wire, Len(wire) + 1)
        BY <3>1, FramesLength
      <3>3. Taken \in Nat /\ Taken + Len(stream) = Len(Frames(wire))
        BY <2>1 DEF BytesInv
      <3>4. Len(stream) <= Taken + Len(stream)
        BY <3>1, <3>3
      <3>5. QED
        BY <3>2, <3>3, <3>4, Zenon
    <2>3. \A i \in DOMAIN inwardPackets : ClassOf(inwardPackets[i]) \in Registered
      <3>1. inwardPackets \in Seq(Readable)
        BY <2>1 DEF Types
      <3>2. \A i \in DOMAIN inwardPackets : inwardPackets[i] \in Readable
        BY <3>1
      <3>3. QED
        BY <3>2, Zenon DEF Readable, ClassOf
    <2>4. QED
      BY <2>1, <2>2, <2>3 DEF TypeOK, Types, Octets
  <1>2. QED
    BY <1>1, Invariance, PTL

\* Wherever the loop stands when it begins a frame, it goes on only when all of
\* it is there, and then reads the packet that was sent in it, or crashes if
\* and only if the pool of its class is empty (SizePacket::SerializeIn after
\* IsRemainingBufferBigenough, with SizePacket::SerializeOut and Create).
THEOREM BeginningsReadAsSent == Spec => FramesReadAsSent
  <1> DEFINE Step == \A i \in DOMAIN wire :
                        (/\ inwardPackets' # inwardPackets \/ (at = "parsing" /\ at' = "crashed")
                         /\ Taken - length + inOffset = StartOf(wire, i)) =>
                            /\ StartOf(wire, i + 1) <= Taken
                            /\ IF IsExhausted(ClassOf(wire[i]))
                               THEN at' = "crashed" /\ inwardPackets' = inwardPackets
                               ELSE /\ inwardPackets' = Append(inwardPackets, wire[i])
                                    /\ inOffset' = inOffset + FrameLength(wire[i])
  <1>1. ASSUME Inv, [Next]_vars
        PROVE  [Step]_vars
    <2> SUFFICES ASSUME NEW i \in DOMAIN wire,
                        inwardPackets' # inwardPackets \/ (at = "parsing" /\ at' = "crashed"),
                        Taken - length + inOffset = StartOf(wire, i)
                 PROVE  /\ StartOf(wire, i + 1) <= Taken
                        /\ IF IsExhausted(ClassOf(wire[i]))
                           THEN at' = "crashed" /\ inwardPackets' = inwardPackets
                           ELSE /\ inwardPackets' = Append(inwardPackets, wire[i])
                                /\ inOffset' = inOffset + FrameLength(wire[i])
      OBVIOUS
    <2>1. Types /\ BytesInv
      BY <1>1 DEF Inv
    <2>2. wire \in Seq(Packets) /\ length \in Nat /\ inOffset \in Nat /\ Taken \in Nat
      BY <2>1 DEF Types, BytesInv
    <2>3. i \in 1 .. Len(wire) /\ i \in Nat /\ i # 0
      BY <2>2
    <2>4. SerializeIn
      <3>1. \A class \in Classes : ~Write(class)
        BY DEF Write
      <3>2. ~StartWrite
        BY DEF StartWrite
      <3>3. \A n : ~Receive(n)
        BY DEF Receive
      <3>4. ~ReadWhole /\ ~ReadCut
        BY <3>3, Zenon DEF ReadWhole, ReadCut
      <3>5. ~ReadAgain
        BY DEF ReadAgain
      <3>6. ~UNCHANGED vars
        BY DEF vars
      <3>7. QED
        BY <1>1, <3>1, <3>2, <3>4, <3>5, <3>6, Zenon DEF Next, ServerStep
    <2>5. /\ inOffset + FrameLength(wire[i]) <= length
          /\ \/ /\ IsExhausted(ClassOf(wire[i]))
                /\ at' = "crashed" /\ inwardPackets' = inwardPackets
             \/ /\ ~IsExhausted(ClassOf(wire[i]))
                /\ inwardPackets' = Append(inwardPackets, wire[i])
                /\ inOffset' = inOffset + FrameLength(wire[i])
      BY <2>1, <2>3, <2>4, FrameRead
    <2>6. StartOf(wire, i + 1) = StartOf(wire, i) + FrameLength(wire[i])
      BY <2>3, StartOfNext
    <2>7. FrameLength(wire[i]) \in Nat
      <3>1. wire[i] \in Packets
        BY <2>2, <2>3
      <3>2. QED
        BY <3>1, PacketBytes
    <2>8. (Taken - length + inOffset) + FrameLength(wire[i]) <= Taken
      BY <2>2, <2>5, <2>7
    <2>9. StartOf(wire, i + 1) <= Taken
      BY <2>6, <2>8, Zenon
    <2>10. QED
      BY <2>5, <2>9
  <1>2. QED
    BY <1>1, Invariance, PTL DEF Spec, FramesReadAsSent

\* From Write to inwardPackets: when no frame is cut, no packet arrives before
\* one that TCPClient::Write took earlier, although start_write puts the first
\* packets of its queue on the wire again and again.
THEOREM NothingSkipped == Spec => []NoneSkipped
  <1>1. Inv => NoneSkipped
    <2> SUFFICES ASSUME Inv, whole, NEW i \in DOMAIN inwardPackets,
                        NEW n \in 1 .. inwardPackets[i].instance
                 PROVE  \E j \in 1 .. i : inwardPackets[j].instance = n
      BY DEF NoneSkipped
    <2>1. /\ inwardPackets \in Seq(Readable) /\ wire \in Seq(Packets)
          /\ Len(inwardPackets) <= Len(wire)
          /\ \A j \in 1 .. Len(inwardPackets) : inwardPackets[j] = wire[j]
      BY DEF Inv, Types, WholeInv
    <2>2. /\ i \in 1 .. Len(inwardPackets) /\ i \in 1 .. Len(wire)
          /\ \A j \in 1 .. i : j \in 1 .. Len(inwardPackets)
      BY <2>1
    <2>3. n \in 1 .. wire[i].instance
      BY <2>1, <2>2, Zenon
    <2>4. PICK j \in 1 .. i : wire[j].instance = n
      BY <2>2, <2>3 DEF Inv, WireInv
    <2>5. inwardPackets[j].instance = n
      BY <2>1, <2>2, <2>4, Zenon
    <2>6. QED
      BY <2>5
  <1>2. QED
    BY <1>1, Invariance, PTL

\* A sequence that another begins with.
LEMMA PrefixIs ==
    ASSUME NEW S, NEW T, NEW s \in Seq(S), NEW t \in Seq(T), Len(s) <= Len(t),
           \A i \in 1 .. Len(s) : s[i] = t[i]
    PROVE  IsPrefix(s, t)
  <1>1. Len(s) \in Nat /\ Len(t) \in Nat
    OBVIOUS
  <1>2. SubSeq(s, 1, Len(s)) = [i \in 1 .. Len(s) |-> s[i]]
    BY <1>1
  <1>3. SubSeq(t, 1, Len(s)) = [i \in 1 .. Len(s) |-> t[i]]
    BY <1>1
  <1>4. [i \in 1 .. Len(s) |-> s[i]] = [i \in 1 .. Len(s) |-> t[i]]
    OBVIOUS
  <1>5. QED
    BY <1>2, <1>3, <1>4, Zenon DEF IsPrefix

\* A transport that never cuts a frame is enough for what the receiver has to
\* be a beginning of what was sent.
THEOREM WholeReceivedAsSent == Spec => [](whole => ReceivedAsSent)
  <1>1. Inv => (whole => ReceivedAsSent)
    <2> SUFFICES ASSUME Inv, whole
                 PROVE  IsPrefix(inwardPackets, wire)
      BY DEF ReceivedAsSent
    <2>1. /\ inwardPackets \in Seq(Readable) /\ wire \in Seq(Packets)
          /\ Len(inwardPackets) <= Len(wire)
          /\ \A j \in 1 .. Len(inwardPackets) : inwardPackets[j] = wire[j]
      BY DEF Inv, Types, WholeInv
    <2>2. QED
      BY <2>1, PrefixIs
  <1>2. QED
    BY <1>1, Invariance, PTL

-----------------------------------------------------------------------------
(* Framing implements PacketStream.                                        *)

\* start_write only adds to what was sent.
LEMMA StartWriteRefines ==
    ASSUME Types, BytesInv, StartWrite
    PROVE  Stream!Send
  <1>1. whole' = whole /\ inwardPackets' = inwardPackets /\ wire' = wire \o Writes(queue) /\ queue # <<>>
    BY DEF StartWrite
  <1>2. /\ queue \in Seq(Packets) /\ wire \in Seq(Packets) /\ wire' \in Seq(Packets)
        /\ Len(wire) \in Nat /\ Len(queue) \in Nat
    <2>1. wire' \in Seq(Packets)
      BY StartWriteBytes
    <2>2. QED
      BY <2>1 DEF Types
  <1> DEFINE w == Writes(queue)
  <1>3. w \in Seq(Packets) /\ Repeats(w, queue, Len(queue))
    BY <1>2, WritesRepeat
  <1> HIDE DEF w
  <1>4. Len(w) \in Nat /\ Len(w) # 0
    <2>1. 1 \in 1 .. Len(queue)
      BY <1>1, <1>2
    <2>2. \E i \in 1 .. Len(w) : w[i] = queue[1]
      BY <1>3, <2>1, Zenon DEF Repeats
    <2>3. QED
      BY <1>3, <2>2
  <1>5. /\ Len(wire') = Len(wire) + Len(w)
        /\ \A i \in 1 .. Len(wire) + Len(w) :
              wire'[i] = IF i <= Len(wire) THEN wire[i] ELSE w[i - Len(wire)]
    <2>1. /\ Len(wire \o w) = Len(wire) + Len(w)
          /\ \A i \in 1 .. Len(wire) + Len(w) :
                (wire \o w)[i] = IF i <= Len(wire) THEN wire[i] ELSE w[i - Len(wire)]
      BY <1>2, <1>3, ConcatProperties
    <2>2. wire' = wire \o w
      BY <1>1 DEF w
    <2>3. QED
      BY <2>1, <2>2, Zenon
  <1>6. wire # wire'
    BY <1>2, <1>4, <1>5
  <1>7. IsPrefix(wire, wire')
    <2>1. Len(wire) <= Len(wire')
      BY <1>2, <1>4, <1>5
    <2>2. \A i \in 1 .. Len(wire) : wire'[i] = wire[i]
      BY StartWriteBytes
    <2>3. QED
      BY <1>2, <2>1, <2>2, PrefixIs
  <1>8. QED
    BY <1>1, <1>6, <1>7 DEF Stream!Send, Stream!IsStrictPrefix, Stream!IsPrefix, IsPrefix

\* Every step is one of PacketStream, or changes nothing it sees.
LEMMA NextRefines ==
    Inv /\ [Next]_vars => [Stream!Next]_<<whole, wire, inwardPackets>>
  <1> SUFFICES ASSUME Inv, [Next]_vars
               PROVE  [Stream!Next]_<<whole, wire, inwardPackets>>
    OBVIOUS
  <1>0. Types /\ BytesInv /\ WholeInv
    BY DEF Inv
  <1>1. ASSUME NEW class \in Classes, Write(class)
        PROVE  UNCHANGED <<whole, wire, inwardPackets>>
    BY <1>1 DEF Write
  <1>2. CASE StartWrite
    <2>1. Stream!Send
      BY <1>0, <1>2, StartWriteRefines
    <2>2. QED
      BY <2>1 DEF Stream!Next
  <1>3. CASE ReadWhole
    <2>1. PICK n \in WholeReads : Receive(n)
      BY <1>3 DEF ReadWhole
    <2>2. QED
      BY <2>1 DEF Receive, clientVars
  <1>4. CASE ReadCut
    <2>1. PICK n \in 1 .. ReadLimit \ WholeReads : Receive(n)
      BY <1>4 DEF ReadCut
    <2>2. QED
      BY <2>1 DEF Receive, clientVars
  <1>5. CASE SerializeIn
    <2>1. whole' = whole /\ wire' = wire
      BY <1>5 DEF SerializeIn, clientVars
    <2>2. CASE ~whole
      BY <2>1, <2>2 DEF Stream!Next, Stream!Garble
    <2>3. CASE inwardPackets' = inwardPackets
      BY <2>1, <2>3
    <2>4. CASE whole /\ inwardPackets' # inwardPackets
      <3>1. /\ Len(inwardPackets) + 1 \in 1 .. Len(wire)
            /\ inwardPackets' = Append(inwardPackets, wire[Len(inwardPackets) + 1])
        BY <1>0, <1>5, <2>4, SerializeInWhole
      <3>2. Len(inwardPackets) < Len(wire)
        <4>1. inwardPackets \in Seq(Readable) /\ wire \in Seq(Packets)
          BY <1>0 DEF Types
        <4>2. Len(inwardPackets) \in Nat /\ Len(wire) \in Nat
          BY <4>1
        <4>3. QED
          BY <3>1, <4>2
      <3>3. Stream!Deliver
        BY <2>1, <3>1, <3>2, Zenon DEF Stream!Deliver
      <3>4. QED
        BY <3>3 DEF Stream!Next
    <2>5. QED
      BY <2>2, <2>3, <2>4
  <1>6. CASE ReadAgain
    BY <1>6 DEF ReadAgain, clientVars
  <1>7. CASE UNCHANGED vars
    BY <1>7 DEF vars, clientVars
  <1>8. QED
    BY <1>1, <1>2, <1>3, <1>4, <1>5, <1>6, <1>7 DEF Next, ServerStep

\* start_write, the transport and the read loop keep what PacketStream
\* promises: without cuts each packet sent is received once, unchanged and in
\* its place.
THEOREM Refinement == Spec => IsPacketStream
  <1>1. Init => Stream!Init
    BY DEF Init, Stream!Init
  <1>2. QED
    BY <1>1, Invariance, NextRefines, PTL DEF Spec, IsPacketStream, Stream!Spec
=============================================================================
