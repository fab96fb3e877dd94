------------------------ MODULE PacketFactoryProofs ------------------------
(***************************************************************************)
(* For every set of programs, every number of packet classes, pools and    *)
(* network threads, PacketMethodFactory never has a packet in two places,  *)
(* although nothing locks its maps; and while a program that registers its *)
(* classes first serves, no registered class lacks its pool.               *)
(***************************************************************************)
EXTENDS PacketFactory, FiniteSetTheorems, FunctionTheorems, SequenceTheorems, TLAPS

-----------------------------------------------------------------------------
(* The inductive invariant.                                                *)

Instances == [packet : Packets, written : BOOLEAN]

HandlerStates == {Idle} \cup [doing : {"get"}, pool : PoolIds]
                        \cup [doing : {"put"}, pool : PoolIds, packet : Packets]

\* Variables have types, whatever they say of each other.
Types ==
    /\ program \in Programs /\ at \in 1 .. Len(program) + 1
    /\ remaining \subseteq Classes /\ remaining # {}
    /\ packs \in Seq(Instances)
    /\ typeRegistered \in [Classes -> BOOLEAN]
    /\ methods \subseteq Classes /\ allocationMethods \subseteq Classes
    /\ creationPool \in [Classes -> PoolIds \cup {NoPool}]
    /\ pools \in [PoolIds -> Seq(Packets)]
    /\ \A p \in PoolIds : Len(pools[p]) <= PoolSize
    /\ freed \subseteq PoolIds
    /\ inits \in 0 .. MaxInits
    /\ started \in BOOLEAN
    /\ handler \in [Networks -> HandlerStates]
    /\ inward \in [Networks -> Seq(Packets)]
    /\ faults \subseteq {"unknown", "assert", "null", "dangling"}

\* Only a loop over the classes has classes left.
Loops == {"register", "init", "init_copy", "shutdown", "shutdown_copy"}
LoopInv == remaining # Classes => at <= Len(program) /\ program[at].op \in Loops

\* What the sequences of a family hold, and that they hold it once.
Members(f, K) == {x \in Packets : \E k \in K : \E i \in 1 .. Len(f[k]) : f[k][i] = x}
Distinct(f, K) == \A k, l \in K : \A i \in 1 .. Len(f[k]), j \in 1 .. Len(f[l]) :
                     f[k][i] = f[l][j] => k = l /\ i = j

\* What a sequence holds, and that it holds it once.
Elements(s) == {s[i] : i \in 1 .. Len(s)}
Injective(s) == \A i, j \in 1 .. Len(s) : s[i] = s[j] => i = j

\* The packets in a pool, whether it is in use, deleted or lost; in the hands
\* of main; in an inwardPackets; and on the way back into a pool.
Pooled == Members(pools, PoolIds)
Unwritten(x) == [packet |-> x, written |-> FALSE]
Hands(ps) == {x \in Packets : \E i \in 1 .. Len(ps) : ps[i] = Unwritten(x)}
InHands == Hands(packs)
Arrived == Members(inward, Networks)
Returning == {x \in Packets : \E n \in Networks : handler[n].doing = "put" /\ handler[n].packet = x}

\* No two places of one kind, and no two kinds of places, share a packet.
Once(ps) == \A i, j \in 1 .. Len(ps) :
    ~ps[i].written /\ ~ps[j].written /\ ps[i].packet = ps[j].packet => i = j
OnceReturning == \A n, m \in Networks :
    handler[n].doing = "put" /\ handler[m].doing = "put" /\ handler[n].packet = handler[m].packet => n = m
OnceInv == Distinct(pools, PoolIds) /\ Distinct(inward, Networks) /\ Once(packs) /\ OnceReturning
KindInv == /\ \A x \in Pooled : x \notin InHands /\ x \notin Arrived /\ x \notin Returning
           /\ \A x \in InHands : x \notin Arrived /\ x \notin Returning
           /\ \A x \in Arrived : x \notin Returning

\* Packets were made by an InitFactory that has been called; the one that is
\* running has not made those of the classes it has left.
Made(x) == x[1][2]
Making == /\ remaining # Classes /\ at <= Len(program)
          /\ program[at].op \in {"init", "init_copy"}
Present == Pooled \cup InHands \cup Arrived \cup Returning
FreshInv == /\ Making => inits # 0
            /\ \A x \in Present : /\ Made(x) <= inits
                                  /\ Making /\ Made(x) = inits => ClassOf(x) \notin remaining

Inv == Types /\ LoopInv /\ OnceInv /\ KindInv /\ FreshInv

\* Until the first Shutdown begins to delete pools, a program that registers
\* first has all classes registered and then a pool for each of them.
Before == /\ ~Reached("shutdown")
          /\ at <= Len(program) /\ program[at].op = "shutdown" => remaining = Classes
RegisteredInv ==
    /\ \A c \in Classes : typeRegistered[c] => c \in allocationMethods
    /\ Reached("register") => allocationMethods = Classes
    /\ at <= Len(program) /\ program[at].op = "register" => Classes \ remaining \subseteq allocationMethods
PooledInv ==
    /\ freed = {}
    /\ Reached("init") => \A c \in Classes : creationPool[c] # NoPool
    /\ at <= Len(program) /\ program[at].op = "init" =>
          \A c \in Classes \ remaining : creationPool[c] # NoPool

\* An assertion fails only where the pointer is null, which ends the process.
FaultInv == faults \cap {"unknown", "assert"} # {} => "null" \in faults
StartedInv == started => Starts(program)

PreparedInv == InOrder(program) /\ Before => RegisteredInv /\ PooledInv
ServedInv == RegistersFirst(program) => ServiceIsSafe

ServiceInv == FaultInv /\ StartedInv /\ PreparedInv /\ ServedInv

-----------------------------------------------------------------------------
(* Sequences and families of sequences.                                    *)

\* What an element of a sequence without its first one was.
LEMMA TailElements ==
    ASSUME NEW S, NEW s \in Seq(S), s # <<>>
    PROVE  /\ Tail(s) \in Seq(S) /\ Len(Tail(s)) = Len(s) - 1 /\ Len(s) >= 1 /\ Head(s) = s[1] /\ s[1] \in S
           /\ \A i \in 1 .. Len(Tail(s)) : Tail(s)[i] = s[i + 1] /\ i + 1 \in 1 .. Len(s)
  OBVIOUS

\* What the elements of a sequence with one more are.
LEMMA AppendElements ==
    ASSUME NEW S, NEW s \in Seq(S), NEW x \in S
    PROVE  /\ Append(s, x) \in Seq(S) /\ Len(Append(s, x)) = Len(s) + 1
           /\ \A i \in 1 .. Len(s) : Append(s, x)[i] = s[i]
           /\ Append(s, x)[Len(s) + 1] = x
  OBVIOUS

\* What the elements of a sequence without the i-th one were.
LEMMA RemoveAtElements ==
    ASSUME NEW S, NEW s \in Seq(S), NEW i \in 1 .. Len(s)
    PROVE  /\ RemoveAt(s, i) \in Seq(S) /\ Len(RemoveAt(s, i)) = Len(s) - 1
           /\ \A j \in 1 .. Len(RemoveAt(s, i)) :
                 RemoveAt(s, i)[j] = s[IF j < i THEN j ELSE j + 1]
  <1> DEFINE a == SubSeq(s, 1, i - 1)
             b == SubSeq(s, i + 1, Len(s))
  <1>1. a \in Seq(S) /\ Len(a) = i - 1 /\ \A j \in 1 .. i - 1 : a[j] = s[j]
    OBVIOUS
  <1>2. b \in Seq(S) /\ Len(b) = Len(s) - i /\ \A j \in 1 .. Len(s) - i : b[j] = s[j + i]
    OBVIOUS
  <1>3. RemoveAt(s, i) = a \o b
    BY DEF RemoveAt
  <1> HIDE DEF a, b
  <1>4. /\ a \o b \in Seq(S) /\ Len(a \o b) = Len(a) + Len(b)
        /\ \A j \in 1 .. Len(a) + Len(b) : (a \o b)[j] = IF j <= Len(a) THEN a[j] ELSE b[j - Len(a)]
    BY <1>1, <1>2, ConcatProperties
  <1>5. Len(a) + Len(b) = Len(s) - 1 /\ Len(s) \in Nat
    BY <1>1, <1>2
  <1>6. ASSUME NEW j \in 1 .. Len(s) - 1
        PROVE  (a \o b)[j] = s[IF j < i THEN j ELSE j + 1]
    <2>1. CASE j < i
      BY <1>1, <1>4, <1>5, <2>1
    <2>2. CASE ~(j < i)
      <3>1. j - (i - 1) \in 1 .. Len(s) - i /\ j - (i - 1) + i = j + 1
        BY <1>5, <2>2
      <3>2. (a \o b)[j] = b[j - (i - 1)] /\ b[j - (i - 1)] = s[j - (i - 1) + i]
        BY <1>1, <1>2, <1>4, <1>5, <2>2, <3>1, SMTT(40)
      <3>3. QED
        BY <2>2, <3>1, <3>2
    <2>3. QED
      BY <2>1, <2>2
  <1>7. QED
    BY <1>3, <1>4, <1>5, <1>6

\* One sequence of a family is replaced by one whose elements it had, or which
\* are new to the family.
Replaced(f, k, s) == [f EXCEPT ![k] = s]
OwnOrNew(s, f, k, K) == Elements(s) \cap Members(f, K) \subseteq Elements(f[k])

\* Then no sequence of the new family shares an element with another.
LEMMA FamilyReplaced ==
    ASSUME NEW K, NEW f \in [K -> Seq(Packets)], Distinct(f, K), NEW k \in K,
           NEW s \in Seq(Packets), Injective(s), OwnOrNew(s, f, k, K),
           NEW g, g = Replaced(f, k, s)
    PROVE  g \in [K -> Seq(Packets)] /\ Distinct(g, K) /\ Members(g, K) \subseteq Members(f, K) \cup Elements(s)
  <1>1. /\ g \in [K -> Seq(Packets)] /\ g[k] = s
        /\ \A l \in K : l # k => g[l] = f[l]
    BY DEF Replaced
  <1>2. ASSUME NEW l \in K, NEW j \in 1 .. Len(f[l])
        PROVE  f[l][j] \in Members(f, K)
    <2>1. f[l][j] \in Packets
      OBVIOUS
    <2>2. QED
      BY <2>1 DEF Members
  <1>3. ASSUME NEW l \in K, l # k, NEW i \in 1 .. Len(s), NEW j \in 1 .. Len(f[l])
        PROVE  s[i] # f[l][j]
    <2> SUFFICES ASSUME s[i] = f[l][j]
                 PROVE  FALSE
      OBVIOUS
    <2>1. PICK h \in 1 .. Len(f[k]) : f[k][h] = f[l][j]
      BY <1>2 DEF Elements, OwnOrNew
    <2>2. QED
      BY <1>3, <2>1 DEF Distinct
  <1>4. ASSUME NEW a \in K, NEW b \in K, NEW i \in 1 .. Len(g[a]), NEW j \in 1 .. Len(g[b]),
               g[a][i] = g[b][j]
        PROVE  a = b /\ i = j
    <2>1. CASE a = k /\ b = k
      BY <1>1, <1>4, <2>1 DEF Injective
    <2>2. CASE a = k /\ b # k
      BY <1>1, <1>3, <1>4, <2>2
    <2>3. CASE a # k /\ b = k
      BY <1>1, <1>3, <1>4, <2>3
    <2>4. CASE a # k /\ b # k
      BY <1>1, <1>4, <2>4 DEF Distinct
    <2>5. QED
      BY <2>1, <2>2, <2>3, <2>4
  <1>5. Distinct(g, K)
    BY <1>4 DEF Distinct
  <1>6. Members(g, K) \subseteq Members(f, K) \cup Elements(s)
    BY <1>1, ZenonT(40) DEF Members, Elements
  <1>7. QED
    BY <1>1, <1>5, <1>6

\* circular_buffer::get: the packet that leaves the pool is in none any more.
LEMMA FamilyTail ==
    ASSUME NEW K, NEW f \in [K -> Seq(Packets)], Distinct(f, K), NEW k \in K, f[k] # <<>>,
           NEW g, g = Replaced(f, k, Tail(f[k]))
    PROVE  /\ g \in [K -> Seq(Packets)] /\ Distinct(g, K)
           /\ Head(f[k]) \in Members(f, K)
           /\ \A x \in Members(g, K) : x \in Members(f, K) /\ x # Head(f[k])
           /\ Len(g[k]) = Len(f[k]) - 1
  <1> DEFINE s == Tail(f[k])
  <1>1. /\ s \in Seq(Packets) /\ Len(s) = Len(f[k]) - 1 /\ Len(f[k]) >= 1
        /\ Head(f[k]) = f[k][1] /\ f[k][1] \in Packets
        /\ \A i \in 1 .. Len(s) : s[i] = f[k][i + 1] /\ i + 1 \in 1 .. Len(f[k])
    <2>1. f[k] \in Seq(Packets)
      OBVIOUS
    <2>2. QED
      BY <2>1, TailElements
  <1> HIDE DEF s
  <1>2. Injective(s)
    BY <1>1, SMTT(40) DEF Distinct, Injective
  <1>3. Elements(s) \subseteq Elements(f[k])
    BY <1>1 DEF Elements
  <1>4. g = [f EXCEPT ![k] = s]
    BY DEF s, Replaced
  <1>5. g \in [K -> Seq(Packets)] /\ Distinct(g, K)
    <2>1. g = Replaced(f, k, s)
      BY <1>4 DEF Replaced
    <2>2. OwnOrNew(s, f, k, K)
      BY <1>3 DEF OwnOrNew
    <2>3. s \in Seq(Packets)
      BY <1>1
    <2>4. QED
      BY <1>2, <2>1, <2>2, <2>3, FamilyReplaced
  <1>6. 1 \in 1 .. Len(f[k])
    BY <1>1
  <1>7. Head(f[k]) \in Members(f, K)
    BY <1>1, <1>6 DEF Members
  <1>8. ASSUME NEW x \in Members(g, K)
        PROVE  x \in Members(f, K) /\ x # Head(f[k])
    <2>1. PICK l \in K : \E i \in 1 .. Len(g[l]) : g[l][i] = x
      BY DEF Members
    <2>a. PICK i \in 1 .. Len(g[l]) : g[l][i] = x
      BY <2>1
    <2>2. CASE l = k
      <3>1. i \in 1 .. Len(s) /\ x = f[k][i + 1] /\ i + 1 \in 1 .. Len(f[k]) /\ i + 1 # 1
        BY <1>1, <1>4, <2>a, <2>2
      <3>2. x # f[k][1]
        BY <1>6, <3>1 DEF Distinct
      <3>3. QED
        BY <1>1, <3>1, <3>2 DEF Members
    <2>3. CASE l # k
      <3>1. i \in 1 .. Len(f[l]) /\ x = f[l][i]
        BY <1>4, <2>a, <2>3
      <3>2. x # f[k][1]
        BY <1>6, <2>3, <3>1 DEF Distinct
      <3>3. QED
        BY <1>1, <3>1, <3>2 DEF Members
    <2>4. QED
      BY <2>2, <2>3
  <1>9. QED
    BY <1>1, <1>4, <1>5, <1>7, <1>8

\* A packet that no sequence of the family holds is appended to one.
LEMMA FamilyAppend ==
    ASSUME NEW K, NEW f \in [K -> Seq(Packets)], Distinct(f, K), NEW k \in K,
           NEW x \in Packets, x \notin Members(f, K),
           NEW g, g = Replaced(f, k, Append(f[k], x))
    PROVE  /\ g \in [K -> Seq(Packets)] /\ Distinct(g, K)
           /\ \A y \in Members(g, K) : y \in Members(f, K) \/ y = x
           /\ Len(g[k]) = Len(f[k]) + 1
  <1> DEFINE s == Append(f[k], x)
             n == Len(f[k])
  <1>1. /\ s \in Seq(Packets) /\ Len(s) = n + 1 /\ n \in Nat
        /\ \A i \in 1 .. n : s[i] = f[k][i]
        /\ s[n + 1] = x
    <2>1. f[k] \in Seq(Packets)
      OBVIOUS
    <2>2. QED
      BY <2>1, AppendElements
  <1>2. \A i \in 1 .. n : f[k][i] \in Members(f, K)
    BY DEF Members
  <1>3. \A i \in 1 .. n : f[k][i] # x
    BY <1>2
  <1> HIDE DEF s
  <1>4. \A i \in 1 .. n : \A j \in 1 .. n : s[i] = s[j] => i = j
    BY <1>1 DEF Distinct
  <1>5. \A i \in 1 .. Len(s) : i \in 1 .. n \/ i = n + 1
    BY <1>1
  <1>6. Injective(s)
    BY <1>1, <1>3, <1>4, <1>5 DEF Injective
  <1>7. Elements(s) \subseteq Elements(f[k]) \cup {x}
    <2>1. \A i \in 1 .. Len(s) : s[i] \in Elements(f[k]) \/ s[i] = x
      BY <1>1, <1>5 DEF Elements
    <2>2. QED
      BY <2>1 DEF Elements
  <1>a. Elements(f[k]) \subseteq Members(f, K)
    BY <1>2 DEF Elements
  <1>8. g = [f EXCEPT ![k] = s]
    BY DEF s, Replaced
  <1>9. g \in [K -> Seq(Packets)] /\ Distinct(g, K) /\ Members(g, K) \subseteq Members(f, K) \cup Elements(s)
    <2>1. g = Replaced(f, k, s)
      BY <1>8 DEF Replaced
    <2>2. OwnOrNew(s, f, k, K)
      BY <1>7 DEF OwnOrNew
    <2>3. s \in Seq(Packets)
      BY <1>1
    <2>4. QED
      BY <1>6, <2>1, <2>2, <2>3, FamilyReplaced
  <1>10. QED
    BY <1>1, <1>7, <1>8, <1>9, <1>a

-----------------------------------------------------------------------------
(* The pools and the hands of main.                                        *)

\* circular_buffer::put of a packet that is in no pool.
LEMMA PutEffect ==
    ASSUME Types, Distinct(pools, PoolIds), NEW p \in PoolIds, NEW x \in Packets, x \notin Pooled,
           NEW g, g = PutIn(p, x)
    PROVE  /\ g \in [PoolIds -> Seq(Packets)] /\ Distinct(g, PoolIds)
           /\ \A q \in PoolIds : Len(g[q]) <= PoolSize
           /\ \A y \in Members(g, PoolIds) : y \in Pooled \/ y = x
  <1>1. /\ pools \in [PoolIds -> Seq(Packets)] /\ PoolSize \in Nat \ {0}
        /\ \A q \in PoolIds : Len(pools[q]) \in Nat /\ Len(pools[q]) <= PoolSize
    BY SizeAssumption DEF Types
  <1>2. CASE Len(pools[p]) # PoolSize
    <2>1. g = [pools EXCEPT ![p] = Append(pools[p], x)]
      BY <1>2 DEF PutIn
    <2>2. /\ g \in [PoolIds -> Seq(Packets)] /\ Distinct(g, PoolIds)
          /\ \A y \in Members(g, PoolIds) : y \in Members(pools, PoolIds) \/ y = x
          /\ Len(g[p]) = Len(pools[p]) + 1
      <3>1. g = Replaced(pools, p, Append(pools[p], x)) /\ x \notin Members(pools, PoolIds)
        BY <2>1 DEF Replaced, Pooled
      <3>2. pools \in [PoolIds -> Seq(Packets)]
        BY <1>1
      <3>3. QED
        BY <3>1, <3>2, FamilyAppend
    <2>3. \A q \in PoolIds : q # p => g[q] = pools[q]
      BY <1>1, <2>1
    <2>4. \A q \in PoolIds : Len(g[q]) <= PoolSize
      <3>1. Len(g[p]) <= PoolSize
        BY <1>1, <1>2, <2>2
      <3>2. QED
        BY <1>1, <2>3, <3>1
    <2>5. QED
      BY <2>2, <2>4 DEF Pooled
  <1>3. CASE Len(pools[p]) = PoolSize
    <2> DEFINE h == [pools EXCEPT ![p] = Tail(pools[p])]
    <2>1. pools[p] # <<>>
      BY <1>1, <1>3
    <2>2. /\ h \in [PoolIds -> Seq(Packets)] /\ Distinct(h, PoolIds)
          /\ \A y \in Members(h, PoolIds) : y \in Members(pools, PoolIds) /\ y # Head(pools[p])
          /\ Len(h[p]) = Len(pools[p]) - 1
      <3>1. h = Replaced(pools, p, Tail(pools[p]))
        BY DEF Replaced
      <3>2. pools \in [PoolIds -> Seq(Packets)]
        BY <1>1
      <3> HIDE DEF h
      <3>3. QED
        BY <2>1, <3>1, <3>2, FamilyTail
    <2>3. h[p] = Tail(pools[p]) /\ \A q \in PoolIds : q # p => h[q] = pools[q]
      BY <1>1
    <2>4. g = [h EXCEPT ![p] = Append(h[p], x)]
      <3>1. g = [pools EXCEPT ![p] = Append(Tail(pools[p]), x)]
        BY <1>3 DEF PutIn
      <3>2. QED
        BY <1>1, <3>1
    <2> HIDE DEF h
    <2>5. x \notin Members(h, PoolIds)
      BY <2>2 DEF Pooled
    <2>6. /\ g \in [PoolIds -> Seq(Packets)] /\ Distinct(g, PoolIds)
          /\ \A y \in Members(g, PoolIds) : y \in Members(h, PoolIds) \/ y = x
          /\ Len(g[p]) = Len(h[p]) + 1
      <3>1. g = Replaced(h, p, Append(h[p], x))
        BY <2>4 DEF Replaced
      <3>2. h \in [PoolIds -> Seq(Packets)] /\ Distinct(h, PoolIds)
        BY <2>2
      <3>3. QED
        BY <2>5, <3>1, <3>2, FamilyAppend
    <2>7. \A q \in PoolIds : q # p => g[q] = pools[q]
      BY <2>2, <2>3, <2>4
    <2>8. \A q \in PoolIds : Len(g[q]) <= PoolSize
      <3>1. Len(g[p]) <= PoolSize
        BY <1>1, <1>3, <2>2, <2>6
      <3>2. QED
        BY <1>1, <2>7, <3>1
    <2>9. QED
      BY <2>2, <2>6, <2>8 DEF Pooled
  <1>4. QED
    BY <1>2, <1>3

\* PacketMethodFactory::Release puts the packet in the pool of its class.
LEMMA ReleaseEffect ==
    ASSUME Types, Distinct(pools, PoolIds), NEW x \in Packets, x \notin Pooled,
           NEW g, g = ReleaseOf(x)
    PROVE  /\ g \in [PoolIds -> Seq(Packets)] /\ Distinct(g, PoolIds)
           /\ \A q \in PoolIds : Len(g[q]) <= PoolSize
           /\ \A y \in Members(g, PoolIds) : y \in Pooled \/ y = x
           /\ creationPool[ClassOf(x)] = NoPool => g = pools
  <1>1. CASE creationPool[ClassOf(x)] = NoPool
    BY <1>1 DEF ReleaseOf, Types, Pooled
  <1>2. CASE creationPool[ClassOf(x)] # NoPool
    <2>1. ClassOf(x) \in Classes
      BY DEF ClassOf, Packets, PoolIds
    <2>2. creationPool[ClassOf(x)] \in PoolIds
      BY <1>2, <2>1 DEF Types
    <2>3. g = PutIn(creationPool[ClassOf(x)], x)
      BY <1>2 DEF ReleaseOf
    <2>4. QED
      BY <1>2, <2>2, <2>3, PutEffect
  <1>3. QED
    BY <1>1, <1>2

\* circular_buffer::get.
LEMMA GetEffect ==
    ASSUME Types, Distinct(pools, PoolIds), NEW p \in PoolIds, pools[p] # <<>>,
           NEW g, g = Replaced(pools, p, Tail(pools[p]))
    PROVE  /\ g \in [PoolIds -> Seq(Packets)] /\ Distinct(g, PoolIds)
           /\ \A q \in PoolIds : Len(g[q]) <= PoolSize
           /\ Head(pools[p]) \in Pooled
           /\ \A y \in Members(g, PoolIds) : y \in Pooled /\ y # Head(pools[p])
  <1>1. /\ pools \in [PoolIds -> Seq(Packets)] /\ PoolSize \in Nat
        /\ \A q \in PoolIds : Len(pools[q]) \in Nat /\ Len(pools[q]) <= PoolSize
    BY SizeAssumption DEF Types
  <1>2. /\ g \in [PoolIds -> Seq(Packets)] /\ Distinct(g, PoolIds)
        /\ Head(pools[p]) \in Members(pools, PoolIds)
        /\ \A y \in Members(g, PoolIds) : y \in Members(pools, PoolIds) /\ y # Head(pools[p])
        /\ Len(g[p]) = Len(pools[p]) - 1
    BY <1>1, FamilyTail
  <1>3. \A q \in PoolIds : q # p => g[q] = pools[q]
    BY <1>1 DEF Replaced
  <1>4. \A q \in PoolIds : Len(g[q]) <= PoolSize
    BY <1>1, <1>2, <1>3
  <1>5. QED
    BY <1>2, <1>4 DEF Pooled

\* Main gets a packet that it does not hold yet.
LEMMA HandsAppend ==
    ASSUME NEW ps \in Seq(Instances), Once(ps), NEW x \in Packets, x \notin Hands(ps),
           NEW qs, qs = Append(ps, Unwritten(x))
    PROVE  qs \in Seq(Instances) /\ Once(qs) /\ \A y \in Hands(qs) : y \in Hands(ps) \/ y = x
  <1>1. Unwritten(x) \in Instances /\ Unwritten(x).packet = x /\ ~Unwritten(x).written
    BY DEF Unwritten, Instances
  <1>2. /\ qs \in Seq(Instances) /\ Len(qs) = Len(ps) + 1 /\ Len(ps) \in Nat
        /\ \A i \in 1 .. Len(ps) : qs[i] = ps[i]
        /\ qs[Len(ps) + 1] = Unwritten(x)
    BY <1>1, AppendElements
  <1>3. \A i \in 1 .. Len(qs) : i \in 1 .. Len(ps) \/ i = Len(ps) + 1
    BY <1>2
  <1>4. ASSUME NEW i \in 1 .. Len(ps), ~ps[i].written
        PROVE  ps[i].packet # x
    <2>1. ps[i] \in Instances
      OBVIOUS
    <2>2. ps[i] = Unwritten(ps[i].packet)
      BY <1>4, <2>1 DEF Instances, Unwritten
    <2>3. QED
      BY <2>2 DEF Hands
  <1>5. Once(qs)
    <2> SUFFICES ASSUME NEW i \in 1 .. Len(qs), NEW j \in 1 .. Len(qs),
                        ~qs[i].written, ~qs[j].written, qs[i].packet = qs[j].packet
                 PROVE  i = j
      BY DEF Once
    <2>1. CASE i \in 1 .. Len(ps) /\ j \in 1 .. Len(ps)
      BY <1>2, <2>1 DEF Once
    <2>2. CASE i \in 1 .. Len(ps) /\ j = Len(ps) + 1
      BY <1>1, <1>2, <1>4, <2>2
    <2>3. CASE i = Len(ps) + 1 /\ j \in 1 .. Len(ps)
      BY <1>1, <1>2, <1>4, <2>3
    <2>4. QED
      BY <1>3, <2>1, <2>2, <2>3
  <1>6. ASSUME NEW y \in Hands(qs)
        PROVE  y \in Hands(ps) \/ y = x
    <2>1. PICK i \in 1 .. Len(qs) : qs[i] = Unwritten(y)
      BY DEF Hands
    <2>2. y \in Packets
      BY DEF Hands
    <2>3. CASE i \in 1 .. Len(ps)
      BY <1>2, <2>1, <2>2, <2>3 DEF Hands
    <2>4. CASE i = Len(ps) + 1
      BY <1>2, <2>1, <2>4 DEF Unwritten
    <2>5. QED
      BY <1>3, <2>3, <2>4
  <1>7. QED
    BY <1>2, <1>5, <1>6

\* Main gives a packet away, or a copy of its reference.
LEMMA HandsGiven ==
    ASSUME NEW ps \in Seq(Instances), Once(ps), NEW k \in 1 .. Len(ps), ~ps[k].written,
           NEW qs, \/ qs = RemoveAt(ps, k)
                   \/ qs = [ps EXCEPT ![k].written = TRUE]
    PROVE  /\ qs \in Seq(Instances) /\ Once(qs) /\ ps[k].packet \in Hands(ps)
           /\ \A y \in Hands(qs) : y \in Hands(ps) /\ y # ps[k].packet
  <1>a. ps[k] \in Instances
    OBVIOUS
  <1>b. ps[k].packet \in Packets /\ ps[k] = Unwritten(ps[k].packet)
    BY <1>a DEF Instances, Unwritten
  <1>c. ps[k].packet \in Hands(ps)
    BY <1>b DEF Hands
  <1>1. CASE qs = RemoveAt(ps, k)
    <2>1. /\ qs \in Seq(Instances) /\ Len(qs) = Len(ps) - 1 /\ Len(ps) \in Nat
          /\ \A j \in 1 .. Len(qs) : qs[j] = ps[IF j < k THEN j ELSE j + 1]
      BY <1>1, RemoveAtElements
    <2>2. ASSUME NEW i \in 1 .. Len(qs), NEW j \in 1 .. Len(qs),
                 ~qs[i].written, ~qs[j].written, qs[i].packet = qs[j].packet
          PROVE  i = j
      <3>1. PICK a \in 1 .. Len(ps) : a = IF i < k THEN i ELSE i + 1
        BY <2>1
      <3>2. PICK b \in 1 .. Len(ps) : b = IF j < k THEN j ELSE j + 1
        BY <2>1
      <3>3. a = b
        BY <2>1, <2>2, <3>1, <3>2 DEF Once
      <3>4. QED
        BY <2>1, <3>1, <3>2, <3>3
    <2>3. ASSUME NEW y \in Hands(qs)
          PROVE  y \in Hands(ps) /\ y # ps[k].packet
      <3>1. y \in Packets
        BY DEF Hands
      <3>2. PICK j \in 1 .. Len(qs) : qs[j] = Unwritten(y)
        BY DEF Hands
      <3>3. PICK b \in 1 .. Len(ps) : b = IF j < k THEN j ELSE j + 1
        BY <2>1
      <3>4. ps[b] = Unwritten(y) /\ b # k
        BY <2>1, <3>2, <3>3
      <3>5. ~ps[b].written /\ ps[b].packet = y
        BY <3>4 DEF Unwritten
      <3>6. QED
        BY <3>1, <3>4, <3>5 DEF Hands, Once
    <2>4. QED
      BY <1>c, <2>1, <2>2, <2>3 DEF Once
  <1>2. CASE qs = [ps EXCEPT ![k].written = TRUE]
    <2>1. /\ qs \in Seq(Instances) /\ Len(qs) = Len(ps) /\ qs[k].written
          /\ \A j \in 1 .. Len(ps) : j # k => qs[j] = ps[j]
      <3>1. qs = [ps EXCEPT ![k] = [ps[k] EXCEPT !.written = TRUE]]
        BY <1>2
      <3>2. [ps[k] EXCEPT !.written = TRUE] \in Instances /\ [ps[k] EXCEPT !.written = TRUE].written
        BY <1>a DEF Instances
      <3>3. QED
        BY <3>1, <3>2
    <2>2. Once(qs)
      BY <2>1 DEF Once
    <2>3. ASSUME NEW y \in Hands(qs)
          PROVE  y \in Hands(ps) /\ y # ps[k].packet
      <3>1. y \in Packets
        BY DEF Hands
      <3>2. PICK j \in 1 .. Len(qs) : qs[j] = Unwritten(y)
        BY DEF Hands
      <3>3. ~qs[j].written
        BY <3>2 DEF Unwritten
      <3>4. j # k /\ j \in 1 .. Len(ps) /\ ps[j] = Unwritten(y)
        BY <2>1, <3>2, <3>3
      <3>5. ~ps[j].written /\ ps[j].packet = y
        BY <3>4 DEF Unwritten
      <3>6. QED
        BY <3>1, <3>4, <3>5 DEF Hands, Once
    <2>4. QED
      BY <1>c, <2>1, <2>2, <2>3
  <1>3. QED
    BY <1>1, <1>2

-----------------------------------------------------------------------------
(* What the steps have in common.                                          *)

\* The places of packets in the next state.
LEMMA NextPlaces ==
    /\ Pooled' = Members(pools', PoolIds) /\ InHands' = Hands(packs') /\ Arrived' = Members(inward', Networks)
    /\ OnceInv' <=> /\ Distinct(pools', PoolIds) /\ Distinct(inward', Networks)
                    /\ Once(packs') /\ OnceReturning'
    /\ packs' = packs => InHands' = InHands
    /\ inward' = inward => Arrived' = Arrived
    /\ handler' = handler => Returning' = Returning /\ (OnceReturning => OnceReturning')
  BY DEF Pooled, InHands, Arrived, Returning, Members, Hands, OnceInv, Distinct, Once, OnceReturning

\* The constants and the program.
LEMMA Numbers ==
    ASSUME Types
    PROVE  /\ Len(program) \in Nat /\ at \in Nat /\ at \in 1 .. Len(program) + 1 /\ inits \in Nat
           /\ MaxInits \in Nat /\ PoolSize \in Nat /\ Classes # {}
           /\ \A i \in 1 .. Len(program) : program[i] \in Instructions
  <1>1. program \in Seq(Instructions)
    BY ProgramAssumption DEF Types
  <1>2. 1 \in Classes
    BY SizeAssumption DEF Classes
  <1>3. at \in 1 .. Len(program) + 1 /\ inits \in 0 .. MaxInits
    BY DEF Types
  <1>4. QED
    BY <1>1, <1>2, <1>3, SizeAssumption

\* An operation that is no loop.
LEMMA AdvanceEffect ==
    ASSUME Types, LoopInv, NEW op, op \notin Loops, AtOperation(op), Advance, program' = program
    PROVE  /\ at \in 1 .. Len(program) /\ at' = at + 1 /\ at' \in 1 .. Len(program') + 1
           /\ remaining = Classes /\ remaining' = Classes
           /\ LoopInv' /\ ~Making'
  BY Numbers DEF Advance, AtOperation, LoopInv, Making

\* One turn of a loop.
LEMMA LoopTurnEffect ==
    ASSUME Types, LoopInv, NEW op \in Loops, AtOperation(op), NEW c, NextClass(c), LoopTurn(c),
           program' = program
    PROVE  /\ at \in 1 .. Len(program) /\ at' \in 1 .. Len(program') + 1 /\ c \in Classes
           /\ remaining' \subseteq Classes /\ remaining' # {}
           /\ remaining' = Classes \/ (remaining' = remaining \ {c} /\ at' = at)
           /\ LoopInv'
           /\ Making' => op \in {"init", "init_copy"} /\ remaining' = remaining \ {c}
  <1>1. at \in 1 .. Len(program) /\ program[at].op = op /\ c \in remaining /\ remaining \subseteq Classes
    BY Numbers DEF AtOperation, NextClass, Types
  <1>2. CASE remaining = {c}
    BY <1>1, <1>2, Numbers DEF LoopTurn, LoopInv, Making
  <1>3. CASE remaining # {c}
    <2>1. remaining' = remaining \ {c} /\ at' = at
      BY <1>3 DEF LoopTurn
    <2>2. remaining' # {} /\ remaining' \subseteq Classes
      BY <1>1, <1>3, <2>1
    <2>3. at' \in 1 .. Len(program') + 1
      BY <1>1, <2>1, Numbers
    <2>4. LoopInv'
      BY <1>1, <2>1, Numbers DEF LoopInv
    <2>5. Making' => op \in {"init", "init_copy"}
      BY <1>1, <2>1 DEF Making
    <2>6. QED
      BY <1>1, <2>1, <2>2, <2>3, <2>4, <2>5
  <1>4. QED
    BY <1>2, <1>3

\* A step that makes no pool.
LEMMA FreshKept ==
    ASSUME FreshInv, inits' = inits, Making' => Making /\ remaining' = remaining,
           Pooled' \cup InHands' \cup Arrived' \cup Returning' \subseteq Pooled \cup InHands \cup Arrived \cup Returning
    PROVE  FreshInv'
  <1>1. Present' \subseteq Present
    BY DEF Present
  <1>2. QED
    BY <1>1 DEF FreshInv

\* A step that moves no packet.
LEMMA PacketsStay ==
    ASSUME OnceInv, KindInv, FreshInv, UNCHANGED <<pools, packs, handler, inward, inits>>,
           Making' => Making /\ remaining' = remaining
    PROVE  OnceInv' /\ KindInv' /\ FreshInv'
  <1>1. Pooled' = Pooled /\ InHands' = InHands /\ Arrived' = Arrived /\ Returning' = Returning
    BY NextPlaces DEF Pooled
  <1>2. OnceInv'
    BY NextPlaces DEF OnceInv
  <1>3. KindInv'
    BY <1>1 DEF KindInv
  <1>4. FreshInv'
    BY <1>1, FreshKept
  <1>5. QED
    BY <1>2, <1>3, <1>4

\* What the handler of a connection does next; a packet that it puts back is
\* put back by no other, and one that it has put back is not put back again.
LEMMA HandlerEffect ==
    ASSUME Types, OnceReturning, NEW n \in Networks, NEW h \in HandlerStates,
           handler' = [handler EXCEPT ![n] = h],
           h.doing = "put" => h.packet \notin Returning
    PROVE  /\ handler' \in [Networks -> HandlerStates] /\ OnceReturning'
           /\ \A x \in Returning' : x \in Returning \/ (h.doing = "put" /\ x = h.packet)
           /\ h.doing # "put" /\ handler[n].doing = "put" => handler[n].packet \notin Returning'
  <1>1. /\ handler' \in [Networks -> HandlerStates] /\ handler'[n] = h
        /\ \A m \in Networks : m # n => handler'[m] = handler[m]
    BY DEF Types
  <1>2. ASSUME NEW m \in Networks, handler[m].doing = "put"
        PROVE  handler[m].packet \in Returning
    <2>1. handler[m] \in HandlerStates
      BY DEF Types
    <2>2. handler[m].packet \in Packets
      BY <1>2, <2>1 DEF HandlerStates, Idle
    <2>3. QED
      BY <1>2, <2>2 DEF Returning
  <1>3. OnceReturning'
    <2> SUFFICES ASSUME NEW l \in Networks, NEW m \in Networks,
                        handler'[l].doing = "put", handler'[m].doing = "put",
                        handler'[l].packet = handler'[m].packet
                 PROVE  l = m
      BY DEF OnceReturning
    <2>1. CASE l # n /\ m # n
      BY <1>1, <2>1 DEF OnceReturning
    <2>2. CASE l = n /\ m # n
      BY <1>1, <1>2, <2>2
    <2>3. CASE l # n /\ m = n
      BY <1>1, <1>2, <2>3
    <2>4. QED
      BY <2>1, <2>2, <2>3
  <1>4. ASSUME NEW x \in Returning'
        PROVE  x \in Returning \/ (h.doing = "put" /\ x = h.packet)
    <2>1. PICK m \in Networks : handler'[m].doing = "put" /\ handler'[m].packet = x
      BY DEF Returning
    <2>2. QED
      BY <1>1, <1>2, <2>1
  <1>5. ASSUME h.doing # "put", handler[n].doing = "put", handler[n].packet \in Returning'
        PROVE  FALSE
    <2>1. PICK m \in Networks : handler'[m].doing = "put" /\ handler'[m].packet = handler[n].packet
      BY <1>5 DEF Returning
    <2>2. m # n /\ handler[m].doing = "put" /\ handler[m].packet = handler[n].packet
      BY <1>1, <1>5, <2>1
    <2>3. QED
      BY <1>5, <2>2 DEF OnceReturning
  <1>6. QED
    BY <1>1, <1>3, <1>4, <1>5

-----------------------------------------------------------------------------
(* The invariant is inductive, action by action.                           *)

\* Register
LEMMA RegisterKeepsInv == ASSUME Inv, NEW c \in Classes, Register(c) PROVE Inv'
  <1>1. /\ AtOperation("register") /\ NextClass(c) /\ LoopTurn(c)
        /\ UNCHANGED <<program, packs, poolVars, networkVars, faults>>
    BY DEF Register
  <1>2. /\ at' \in 1 .. Len(program') + 1 /\ remaining' \subseteq Classes /\ remaining' # {}
        /\ LoopInv' /\ ~Making'
    BY <1>1, LoopTurnEffect DEF Inv, Loops
  <1>3. /\ typeRegistered' \in [Classes -> BOOLEAN]
        /\ methods' \subseteq Classes /\ allocationMethods' \subseteq Classes
    <2>1. CASE typeRegistered[c]
      BY <2>1 DEF Register, registryVars, Inv, Types
    <2>2. CASE ~typeRegistered[c]
      <3>1. /\ allocationMethods' = allocationMethods \cup {c} /\ methods' = methods \cup {c}
            /\ typeRegistered' = [typeRegistered EXCEPT ![c] = c \notin allocationMethods \/ c \notin methods]
        BY <2>2 DEF Register
      <3>2. (c \notin allocationMethods \/ c \notin methods) \in BOOLEAN
        OBVIOUS
      <3>3. QED
        BY <3>1, <3>2 DEF Inv, Types
    <2>3. QED
      BY <2>1, <2>2
  <1>4. Types'
    BY <1>1, <1>2, <1>3 DEF Inv, Types, poolVars, networkVars
  <1>5. OnceInv' /\ KindInv' /\ FreshInv'
    BY <1>1, <1>2, PacketsStay DEF Inv, poolVars, networkVars
  <1>6. QED
    BY <1>2, <1>4, <1>5 DEF Inv

\* FactoryMock's destructor, at the end of a test.
LEMMA ClearFlagsKeepsInv == ASSUME Inv, ClearFlags PROVE Inv'
  <1>1. /\ AtOperation("clear_flags") /\ Advance /\ program' = program
        /\ typeRegistered' = [c \in Classes |-> FALSE] /\ packs' = <<>>
        /\ UNCHANGED <<methods, allocationMethods, poolVars, networkVars, faults>>
    BY DEF ClearFlags
  <1>2. at' \in 1 .. Len(program') + 1 /\ remaining' = Classes /\ LoopInv' /\ ~Making'
    BY <1>1, AdvanceEffect DEF Inv, Loops
  <1>3. Types'
    BY <1>1, <1>2, Numbers DEF Inv, Types, poolVars, networkVars
  <1>4. Hands(packs') = {} /\ Once(packs')
    BY <1>1 DEF Hands, Once
  <1>5. Pooled' = Pooled /\ InHands' = {} /\ Arrived' = Arrived /\ Returning' = Returning
    BY <1>1, <1>4, NextPlaces DEF poolVars, networkVars, Pooled
  <1>6. OnceInv'
    BY <1>1, <1>4, NextPlaces DEF Inv, OnceInv, poolVars, networkVars
  <1>7. KindInv'
    BY <1>5 DEF Inv, KindInv
  <1>8. FreshInv'
    BY <1>1, <1>2, <1>5, FreshKept DEF Inv, poolVars
  <1>9. QED
    BY <1>2, <1>3, <1>6, <1>7, <1>8 DEF Inv

\* The server starts its threads.
LEMMA StartNetworkKeepsInv == ASSUME Inv, StartNetwork PROVE Inv'
  <1>1. /\ AtOperation("start") /\ Advance /\ started' = TRUE
        /\ UNCHANGED <<program, packs, registryVars, poolVars, handler, inward, faults>>
    BY DEF StartNetwork
  <1>2. at' \in 1 .. Len(program') + 1 /\ remaining' = Classes /\ LoopInv' /\ ~Making'
    BY <1>1, AdvanceEffect DEF Inv, Loops
  <1>3. Types'
    BY <1>1, <1>2, Numbers DEF Inv, Types, registryVars, poolVars
  <1>4. OnceInv' /\ KindInv' /\ FreshInv'
    BY <1>1, <1>2, PacketsStay DEF Inv, poolVars
  <1>5. QED
    BY <1>2, <1>3, <1>4 DEF Inv

\* Shutdown, of the factory and of its older copy.
LEMMA DeletePoolKeepsInv ==
    ASSUME Inv, NEW c \in Classes, NEW op \in {"shutdown", "shutdown_copy"}, NEW cleared \in BOOLEAN,
           DeletePool(c, op, cleared)
    PROVE  Inv'
  <1>1. /\ AtOperation(op) /\ NextClass(c) /\ LoopTurn(c)
        /\ UNCHANGED <<program, packs, typeRegistered, pools, inits, networkVars, faults>>
    BY DEF DeletePool
  <1>2. /\ at' \in 1 .. Len(program') + 1 /\ remaining' \subseteq Classes /\ remaining' # {}
        /\ LoopInv' /\ ~Making'
    BY <1>1, LoopTurnEffect DEF Inv, Loops
  <1>3. /\ freed' \subseteq PoolIds
        /\ creationPool' \in [Classes -> PoolIds \cup {NoPool}]
        /\ methods' \subseteq Classes /\ allocationMethods' \subseteq Classes
    <2>1. freed' \subseteq PoolIds
      BY DEF DeletePool, Inv, Types
    <2>2. /\ creationPool' = creationPool \/ creationPool' = [d \in Classes |-> NoPool]
          /\ methods' = methods \/ methods' = {}
          /\ allocationMethods' = allocationMethods \/ allocationMethods' = {}
      BY DEF DeletePool
    <2>3. creationPool' \in [Classes -> PoolIds \cup {NoPool}]
      BY <2>2 DEF Inv, Types
    <2>4. QED
      BY <2>1, <2>2, <2>3 DEF Inv, Types
  <1>4. Types'
    BY <1>1, <1>2, <1>3 DEF Inv, Types, networkVars
  <1>5. OnceInv' /\ KindInv' /\ FreshInv'
    BY <1>1, <1>2, PacketsStay DEF Inv, networkVars
  <1>6. QED
    BY <1>2, <1>4, <1>5 DEF Inv

\* A new pool is full, and holds each of its packets once.
LEMMA FilledPool ==
    ASSUME NEW p \in PoolIds
    PROVE  /\ Filled(p) \in Seq(Packets) /\ Len(Filled(p)) = PoolSize /\ Injective(Filled(p))
           /\ \A x \in Elements(Filled(p)) : x[1] = p
  <1>1. PoolSize \in Nat
    BY SizeAssumption
  <1>2. \A i \in 1 .. PoolSize : <<p, i>> \in Packets
    BY DEF Packets
  <1>3. Filled(p) \in [1 .. PoolSize -> Packets]
    BY <1>2 DEF Filled
  <1>4. Filled(p) \in Seq(Packets) /\ Len(Filled(p)) = PoolSize
    BY <1>1, <1>3
  <1>5. \A i \in 1 .. PoolSize : Filled(p)[i] = <<p, i>>
    BY DEF Filled
  <1>6. QED
    BY <1>4, <1>5 DEF Injective, Elements

\* InitFactory, of the factory and of its older copy.
LEMMA MakePoolKeepsInv ==
    ASSUME Inv, NEW c \in Classes, NEW op \in {"init", "init_copy"}, NEW wanted \in BOOLEAN,
           MakePool(c, op, wanted)
    PROVE  Inv'
  <1> DEFINE g == IF remaining = Classes THEN inits + 1 ELSE inits
             p == <<c, g>>
  <1>a. Types /\ LoopInv /\ OnceInv /\ KindInv /\ FreshInv
    BY DEF Inv
  <1>1. /\ AtOperation(op) /\ NextClass(c) /\ LoopTurn(c) /\ program' = program
        /\ g <= MaxInits /\ inits' = g
        /\ UNCHANGED <<packs, registryVars, freed, networkVars, faults>>
    BY DEF MakePool
  <1>2. /\ at \in 1 .. Len(program) /\ at' \in 1 .. Len(program') + 1
        /\ remaining' \subseteq Classes /\ remaining' # {}
        /\ LoopInv' /\ (Making' => remaining' = remaining \ {c})
    BY <1>1, <1>a, LoopTurnEffect DEF Loops
  <1>3. c \in remaining /\ program[at].op = op
    BY <1>1 DEF NextClass, AtOperation
  \* No packet of this class was made by this InitFactory yet.
  <1>4. ASSUME NEW x \in Present
        PROVE  Made(x) <= g /\ (Made(x) = g => ClassOf(x) \notin remaining) /\ x[1] # p
    <2>1. x \in Packets
      BY DEF Present, Pooled, InHands, Arrived, Returning, Members, Hands
    <2>2. Made(x) \in Nat /\ inits \in Nat
      BY <1>a, <2>1, Numbers DEF Made, Packets, PoolIds
    <2>3. Made(x) <= inits /\ (remaining # Classes /\ Made(x) = inits => ClassOf(x) \notin remaining)
      BY <1>2, <1>3, <1>a DEF FreshInv, Making
    <2>4. Made(x) <= g /\ (Made(x) = g => ClassOf(x) \notin remaining)
      BY <2>2, <2>3
    <2>5. QED
      BY <1>3, <2>4 DEF Made, ClassOf
  <1>5. p \in PoolIds /\ g \in 1 .. MaxInits
    <2>1. g \in Nat /\ g <= MaxInits
      BY <1>1, <1>a, Numbers
    <2>2. g >= 1
      <3>1. CASE remaining = Classes
        BY <1>a, <3>1, Numbers
      <3>2. CASE remaining # Classes
        BY <1>2, <1>3, <1>a, <3>2, Numbers DEF FreshInv, Making
      <3>3. QED
        BY <3>1, <3>2
    <2>3. QED
      BY <2>1, <2>2, Numbers, <1>a DEF PoolIds
  <1> HIDE DEF g, p
  <1>6. ASSUME NEW x, x[1] = p
        PROVE  x \notin Present /\ Made(x) = g /\ ClassOf(x) = c
    BY <1>4, <1>6 DEF p, Made, ClassOf
  <1>7. /\ pools' \in [PoolIds -> Seq(Packets)] /\ Distinct(pools', PoolIds)
        /\ \A q \in PoolIds : Len(pools'[q]) <= PoolSize
        /\ creationPool' \in [Classes -> PoolIds \cup {NoPool}]
        /\ \A x \in Pooled' : x \in Pooled \/ x[1] = p
    <2>1. CASE c \in allocationMethods /\ wanted
      <3>1. pools' = [pools EXCEPT ![p] = Filled(p)] /\ creationPool' = [creationPool EXCEPT ![c] = p]
        BY <2>1 DEF MakePool, g, p
      <3>2. pools \in [PoolIds -> Seq(Packets)] /\ Distinct(pools, PoolIds)
        BY <1>a DEF Types, OnceInv
      <3>3. /\ Filled(p) \in Seq(Packets) /\ Len(Filled(p)) = PoolSize /\ Injective(Filled(p))
            /\ \A x \in Elements(Filled(p)) : x[1] = p
        BY <1>5, FilledPool
      <3>4. OwnOrNew(Filled(p), pools, p, PoolIds)
        BY <1>6, <3>3 DEF OwnOrNew, Present, Pooled
      <3>5. pools' = Replaced(pools, p, Filled(p))
        BY <3>1 DEF Replaced
      <3>6. /\ pools' \in [PoolIds -> Seq(Packets)] /\ Distinct(pools', PoolIds)
            /\ Members(pools', PoolIds) \subseteq Members(pools, PoolIds) \cup Elements(Filled(p))
        BY <1>5, <3>2, <3>3, <3>4, <3>5, FamilyReplaced
      <3>7. \A q \in PoolIds : Len(pools'[q]) <= PoolSize
        BY <1>5, <1>a, <3>1, <3>3, Numbers DEF Types
      <3>8. creationPool' \in [Classes -> PoolIds \cup {NoPool}]
        BY <1>5, <1>a, <3>1 DEF Types
      <3>9. \A x \in Pooled' : x \in Pooled \/ x[1] = p
        BY <3>3, <3>6, NextPlaces DEF Pooled
      <3>10. QED
        BY <3>6, <3>7, <3>8, <3>9
    <2>2. CASE ~(c \in allocationMethods /\ wanted)
      <3>1. UNCHANGED <<pools, creationPool>>
        BY <2>2 DEF MakePool
      <3>2. QED
        BY <1>a, <3>1, NextPlaces DEF Types, OnceInv, Pooled
    <2>3. QED
      BY <2>1, <2>2
  <1>8. InHands' = InHands /\ Arrived' = Arrived /\ Returning' = Returning
    BY <1>1, NextPlaces DEF networkVars
  <1>9. Types'
    BY <1>1, <1>2, <1>5, <1>7, <1>a DEF Types, registryVars, networkVars
  <1>10. OnceInv'
    BY <1>1, <1>7, <1>a, NextPlaces DEF OnceInv, networkVars
  <1>11. KindInv'
    BY <1>6, <1>7, <1>8, <1>a DEF KindInv, Present
  <1>12. FreshInv'
    <2>1. g # 0 /\ g \in Nat
      BY <1>5
    <2>2. ASSUME NEW x \in Present'
          PROVE  Made(x) <= g /\ (Making' /\ Made(x) = g => ClassOf(x) \notin remaining')
      <3>1. CASE x \in Present
        BY <1>2, <1>4, <3>1 DEF g, p
      <3>2. CASE x[1] = p
        BY <1>2, <1>6, <2>1, <3>2
      <3>3. x \in Present \/ x[1] = p
        BY <1>7, <1>8 DEF Present
      <3>4. QED
        BY <3>1, <3>2, <3>3
    <2>3. QED
      BY <1>1, <2>1, <2>2 DEF FreshInv, g
  <1>13. QED
    BY <1>2, <1>9, <1>10, <1>11, <1>12 DEF Inv

\* Create, by main: the packet goes from its pool into main's hands.
LEMMA MainCreateKeepsInv ==
    ASSUME Inv, NEW c \in Classes, NEW byName \in BOOLEAN, MainCreate(c, byName)
    PROVE  Inv'
  <1> DEFINE p == creationPool[c]
             x == Head(pools[p])
  <1>a. Types /\ LoopInv /\ OnceInv /\ KindInv /\ FreshInv
    BY DEF Inv
  <1>1. /\ AtOperation("create") /\ Advance
        /\ UNCHANGED <<program, registryVars, creationPool, freed, inits, networkVars>>
        /\ faults' = faults \/ faults' = faults \cup {"null"} \/ faults' = faults \cup {"assert", "null"}
    BY DEF MainCreate, Fails
  <1>2. at' \in 1 .. Len(program') + 1 /\ remaining' = Classes /\ LoopInv' /\ ~Making'
    BY <1>1, <1>a, AdvanceEffect DEF Loops
  <1>3. CASE UNCHANGED <<packs, pools>>
    <2>1. Types'
      BY <1>1, <1>2, <1>3, <1>a, Numbers DEF Types, registryVars, networkVars
    <2>2. OnceInv' /\ KindInv' /\ FreshInv'
      BY <1>1, <1>2, <1>3, <1>a, PacketsStay DEF networkVars
    <2>3. QED
      BY <1>2, <2>1, <2>2 DEF Inv
  <1>4. CASE /\ p # NoPool /\ pools[p] # <<>>
             /\ packs' = Append(packs, [packet |-> x, written |-> FALSE])
             /\ pools' = [pools EXCEPT ![p] = Tail(@)]
    <2>1. p \in PoolIds
      BY <1>4, <1>a DEF Types
    <2>2. pools' = Replaced(pools, p, Tail(pools[p])) /\ packs' = Append(packs, Unwritten(x))
      BY <1>4 DEF Replaced, Unwritten
    <2>3. pools[p] # <<>> /\ Distinct(pools, PoolIds)
      BY <1>4, <1>a DEF OnceInv
    <2> HIDE DEF p
    <2>4. /\ pools' \in [PoolIds -> Seq(Packets)] /\ Distinct(pools', PoolIds)
          /\ \A q \in PoolIds : Len(pools'[q]) <= PoolSize
          /\ x \in Pooled
          /\ \A y \in Members(pools', PoolIds) : y \in Pooled /\ y # x
      BY <1>a, <2>1, <2>2, <2>3, GetEffect
    <2> HIDE DEF x
    <2>5. x \in Packets /\ x \notin InHands /\ x \notin Arrived /\ x \notin Returning
      BY <1>a, <2>4 DEF KindInv, Pooled, Members
    <2>6. packs' \in Seq(Instances) /\ Once(packs') /\ \A y \in Hands(packs') : y \in Hands(packs) \/ y = x
      BY <1>a, <2>2, <2>5, HandsAppend, ZenonT(40) DEF Types, OnceInv, InHands
    <2>7. /\ \A y \in Pooled' : y \in Pooled /\ y # x
          /\ \A y \in InHands' : y \in InHands \/ y = x
          /\ Arrived' = Arrived /\ Returning' = Returning
      BY <1>1, <2>4, <2>6, NextPlaces DEF InHands, networkVars
    <2>8. Types'
      BY <1>1, <1>2, <1>a, <2>4, <2>6, Numbers DEF Types, registryVars, networkVars
    <2>9. OnceInv'
      BY <1>1, <1>a, <2>4, <2>6, NextPlaces DEF OnceInv, networkVars
    <2>10. KindInv'
      BY <1>a, <2>5, <2>7 DEF KindInv
    <2>11. FreshInv'
      BY <1>1, <1>2, <1>a, <2>4, <2>7, FreshKept
    <2>12. QED
      BY <1>2, <2>8, <2>9, <2>10, <2>11 DEF Inv
  <1>5. QED
    BY <1>3, <1>4 DEF MainCreate

\* Release, by main, of its reference or of a copy: main has given it away.
LEMMA GivenKeepsInv ==
    ASSUME Inv, NEW i \in Held, NEW op \in {"release", "flush"}, AtOperation(op), Advance,
           pools' = ReleaseOf(packs[i].packet),
           \/ packs' = RemoveAt(packs, i)
           \/ packs' = [packs EXCEPT ![i].written = TRUE]
           \/ packs' = packs /\ creationPool[ClassOf(packs[i].packet)] = NoPool,
           UNCHANGED <<program, registryVars, creationPool, freed, inits, networkVars, faults>>
    PROVE  Inv'
  <1> DEFINE x == packs[i].packet
  <1>a. Types /\ LoopInv /\ OnceInv /\ KindInv /\ FreshInv
    BY DEF Inv
  <1>1. packs \in Seq(Instances) /\ i \in 1 .. Len(packs) /\ ~packs[i].written
    BY <1>a DEF Types, Held
  <1>2. at' \in 1 .. Len(program') + 1 /\ remaining' = Classes /\ LoopInv' /\ ~Making'
    BY <1>a, AdvanceEffect DEF Loops
  <1>3. x \in Packets /\ packs[i] = Unwritten(x)
    <2>1. packs[i] \in Instances
      BY <1>1
    <2>2. QED
      BY <1>1, <2>1 DEF Instances, Unwritten
  <1>4. x \in InHands
    BY <1>1, <1>3 DEF InHands, Hands
  <1>5. x \notin Pooled /\ x \notin Arrived /\ x \notin Returning
    BY <1>4, <1>a DEF KindInv
  <1>6. /\ pools' \in [PoolIds -> Seq(Packets)] /\ Distinct(pools', PoolIds)
        /\ \A q \in PoolIds : Len(pools'[q]) <= PoolSize
        /\ \A y \in Members(pools', PoolIds) : y \in Pooled \/ y = x
        /\ creationPool[ClassOf(x)] = NoPool => pools' = pools
    <2>1. pools' = ReleaseOf(x) /\ Distinct(pools, PoolIds)
      BY <1>a DEF OnceInv
    <2> HIDE DEF x
    <2>2. QED
      BY <1>3, <1>5, <1>a, <2>1, ReleaseEffect
  <1>7. CASE packs' = packs /\ creationPool[ClassOf(x)] = NoPool
    <2>1. pools' = pools
      BY <1>6, <1>7
    <2>2. Types'
      BY <1>2, <1>7, <1>a, <2>1, Numbers DEF Types, registryVars, networkVars
    <2>3. OnceInv' /\ KindInv' /\ FreshInv'
      BY <1>2, <1>7, <1>a, <2>1, PacketsStay DEF networkVars
    <2>4. QED
      BY <1>2, <2>2, <2>3 DEF Inv
  <1>8. CASE packs' = RemoveAt(packs, i) \/ packs' = [packs EXCEPT ![i].written = TRUE]
    <2>1. /\ packs' \in Seq(Instances) /\ Once(packs')
          /\ \A y \in Hands(packs') : y \in Hands(packs) /\ y # x
      <3>1. Once(packs)
        BY <1>a DEF OnceInv
      <3>2. QED
        BY <1>1, <1>8, <3>1, HandsGiven
    <2> HIDE DEF x
    <2>2. /\ \A y \in Pooled' : y \in Pooled \/ y = x
          /\ \A y \in InHands' : y \in InHands /\ y # x
          /\ Arrived' = Arrived /\ Returning' = Returning
      BY <1>6, <2>1, NextPlaces DEF InHands, networkVars
    <2>3. Types'
      BY <1>2, <1>6, <1>a, <2>1, Numbers DEF Types, registryVars, networkVars
    <2>4. OnceInv'
      BY <1>6, <1>a, <2>1, NextPlaces DEF OnceInv, networkVars
    <2>5. KindInv'
      BY <1>5, <1>a, <2>2 DEF KindInv
    <2>6. FreshInv'
      BY <1>2, <1>4, <1>a, <2>2, FreshKept
    <2>7. QED
      BY <1>2, <2>3, <2>4, <2>5, <2>6 DEF Inv
  <1>9. QED
    BY <1>7, <1>8

\* What main does.
LEMMA MainKeepsInv == ASSUME Inv, MainStep PROVE Inv'
  <1>1. ASSUME NEW c \in Classes, InitFactory(c) \/ InitCopy(c)
        PROVE  Inv'
    <2>1. (creationPool[c] = NoPool) \in BOOLEAN /\ TRUE \in BOOLEAN
      OBVIOUS
    <2>2. QED
      BY <1>1, <2>1, MakePoolKeepsInv DEF InitFactory, InitCopy
  <1>2. ASSUME NEW c \in Classes, Shutdown(c) \/ ShutdownCopy(c)
        PROVE  Inv'
    BY <1>2, DeletePoolKeepsInv DEF Shutdown, ShutdownCopy
  <1>3. ASSUME NEW i \in Held, MainRelease(i)
        PROVE  Inv'
    <2>1. \/ packs' = RemoveAt(packs, i)
          \/ packs' = packs /\ creationPool[ClassOf(packs[i].packet)] = NoPool
      BY <1>3 DEF MainRelease, HandleAfterRelease
    <2>2. QED
      BY <1>3, <2>1, GivenKeepsInv DEF MainRelease
  <1>4. ASSUME NEW i \in Held, Flush(i)
        PROVE  Inv'
    BY <1>4, GivenKeepsInv DEF Flush
  <1>5. QED
    BY <1>1, <1>2, <1>3, <1>4, RegisterKeepsInv, ClearFlagsKeepsInv, StartNetworkKeepsInv,
       MainCreateKeepsInv DEF MainStep

\* What a handler that is not idle works on.
LEMMA HandlerState ==
    ASSUME Types, NEW n \in Networks
    PROVE  /\ Idle \in HandlerStates /\ Idle.doing = "idle" /\ handler[n] \in HandlerStates
           /\ handler[n] = Idle => handler[n].doing = "idle"
           /\ handler[n].doing \in {"get", "put"} => handler[n].pool \in PoolIds
           /\ handler[n].doing = "put" => handler[n].packet \in Packets /\ handler[n].packet \in Returning
  <1>1. handler[n] \in HandlerStates
    BY DEF Types
  <1>2. Idle \in HandlerStates /\ Idle.doing = "idle"
    BY DEF HandlerStates, Idle
  <1>3. /\ handler[n].doing \in {"get", "put"} => handler[n].pool \in PoolIds
        /\ handler[n].doing = "put" => handler[n].packet \in Packets
    BY <1>1 DEF HandlerStates, Idle
  <1>4. handler[n].doing = "put" => handler[n].packet \in Returning
    BY <1>3 DEF Returning
  <1>5. QED
    BY <1>1, <1>2, <1>3, <1>4

\* What a step of the network leaves to main.
LEMMA MainWaits ==
    ASSUME Inv, UNCHANGED mainVars
    PROVE  LoopInv' /\ (Making' => Making /\ remaining' = remaining)
  BY DEF Inv, LoopInv, Making, mainVars

\* Create(type, subtype), up to the look-up of the pool.
LEMMA FindPoolKeepsInv ==
    ASSUME Inv, NEW n \in Networks, NEW c \in OnTheWire, FindPool(n, c)
    PROVE  Inv'
  <1>a. Types /\ LoopInv /\ OnceInv /\ KindInv /\ FreshInv
    BY DEF Inv
  <1>1. UNCHANGED <<mainVars, registryVars, poolVars, started, inward>>
    BY DEF FindPool
  <1>2. LoopInv' /\ (Making' => Making /\ remaining' = remaining)
    BY <1>1, MainWaits
  <1>3. CASE ~HasPool(c)
    <2>1. handler' = handler /\ faults' \subseteq faults \cup {"unknown", "assert", "null"}
      BY <1>3 DEF FindPool, Fails
    <2>2. Types'
      BY <1>1, <1>a, <2>1 DEF Types, mainVars, registryVars, poolVars
    <2>3. OnceInv' /\ KindInv' /\ FreshInv'
      BY <1>1, <1>2, <1>a, <2>1, PacketsStay DEF mainVars, poolVars
    <2>4. QED
      BY <1>2, <2>2, <2>3 DEF Inv
  <1>4. CASE HasPool(c)
    <2> DEFINE h == [doing |-> "get", pool |-> creationPool[c]]
    <2>1. handler' = [handler EXCEPT ![n] = h] /\ faults' = faults
      BY <1>4 DEF FindPool
    <2>2. creationPool[c] \in PoolIds
      BY <1>4, <1>a DEF Types, HasPool
    <2>3. h \in HandlerStates /\ h.doing = "get"
      BY <2>2 DEF HandlerStates
    <2> HIDE DEF h
    <2>4. /\ handler' \in [Networks -> HandlerStates] /\ OnceReturning'
          /\ \A x \in Returning' : x \in Returning
      BY <1>a, <2>1, <2>3, HandlerEffect DEF OnceInv
    <2>5. Types'
      BY <1>1, <1>a, <2>1, <2>4 DEF Types, mainVars, registryVars, poolVars
    <2>6. Pooled' = Pooled /\ InHands' = InHands /\ Arrived' = Arrived
      BY <1>1, NextPlaces DEF poolVars, mainVars, Pooled
    <2>7. OnceInv'
      BY <1>1, <1>a, <2>4, NextPlaces DEF OnceInv, mainVars, poolVars
    <2>8. KindInv'
      BY <1>a, <2>4, <2>6 DEF KindInv
    <2>9. FreshInv'
      BY <1>1, <1>2, <1>a, <2>4, <2>6, FreshKept DEF poolVars
    <2>10. QED
      BY <1>2, <2>5, <2>7, <2>8, <2>9 DEF Inv
  <1>5. QED
    BY <1>3, <1>4

\* The packet goes from the pool into inwardPackets, if the pool still exists.
LEMMA GetFromPoolKeepsInv ==
    ASSUME Inv, NEW n \in Networks, GetFromPool(n)
    PROVE  Inv'
  <1> DEFINE p == handler[n].pool
             x == Head(pools[p])
  <1>a. Types /\ LoopInv /\ OnceInv /\ KindInv /\ FreshInv
    BY DEF Inv
  <1>1. /\ handler' = [handler EXCEPT ![n] = Idle] /\ handler[n].doing = "get"
        /\ UNCHANGED <<mainVars, registryVars, creationPool, freed, inits, started>>
        /\ faults' = faults \/ faults' = faults \cup {"dangling"} \/ faults' = faults \cup {"null"}
    BY DEF GetFromPool, Fails
  <1>2. LoopInv' /\ (Making' => Making /\ remaining' = remaining)
    BY <1>1, MainWaits
  <1>3. p \in PoolIds
    BY <1>1, <1>a, HandlerState
  <1>4. /\ handler' \in [Networks -> HandlerStates] /\ OnceReturning'
        /\ \A y \in Returning' : y \in Returning
    BY <1>1, <1>a, HandlerState, HandlerEffect DEF OnceInv
  <1>5. InHands' = InHands /\ packs' = packs
    BY <1>1, NextPlaces DEF mainVars
  <1>6. CASE UNCHANGED <<pools, inward>>
    <2>1. Types'
      BY <1>1, <1>4, <1>6, <1>a DEF Types, mainVars, registryVars
    <2>2. Pooled' = Pooled /\ Arrived' = Arrived
      BY <1>6, NextPlaces DEF Pooled
    <2>3. OnceInv'
      BY <1>4, <1>5, <1>6, <1>a, NextPlaces DEF OnceInv
    <2>4. KindInv'
      BY <1>4, <1>5, <1>a, <2>2 DEF KindInv
    <2>5. FreshInv'
      BY <1>1, <1>2, <1>4, <1>5, <1>a, <2>2, FreshKept
    <2>6. QED
      BY <1>2, <2>1, <2>3, <2>4, <2>5 DEF Inv
  <1>7. CASE /\ pools[p] # <<>>
             /\ inward' = [inward EXCEPT ![n] = Append(@, x)]
             /\ pools' = [pools EXCEPT ![p] = Tail(@)]
    <2>1. /\ pools' = Replaced(pools, p, Tail(pools[p])) /\ pools[p] # <<>>
          /\ inward' = Replaced(inward, n, Append(inward[n], x))
          /\ Distinct(pools, PoolIds) /\ Distinct(inward, Networks)
      BY <1>7, <1>a DEF Replaced, OnceInv
    <2> HIDE DEF p
    <2>2. /\ pools' \in [PoolIds -> Seq(Packets)] /\ Distinct(pools', PoolIds)
          /\ \A q \in PoolIds : Len(pools'[q]) <= PoolSize
          /\ x \in Pooled
          /\ \A y \in Members(pools', PoolIds) : y \in Pooled /\ y # x
      BY <1>3, <1>a, <2>1, GetEffect
    <2> HIDE DEF x
    <2>3. x \in Packets /\ x \notin InHands /\ x \notin Arrived /\ x \notin Returning
      BY <1>a, <2>2 DEF KindInv, Pooled, Members
    <2>4. inward \in [Networks -> Seq(Packets)] /\ x \notin Members(inward, Networks)
      BY <1>a, <2>3 DEF Types, Arrived
    <2>5. /\ inward' \in [Networks -> Seq(Packets)] /\ Distinct(inward', Networks)
          /\ \A y \in Members(inward', Networks) : y \in Members(inward, Networks) \/ y = x
      BY <2>1, <2>3, <2>4, FamilyAppend
    <2>6. /\ \A y \in Pooled' : y \in Pooled /\ y # x
          /\ \A y \in Arrived' : y \in Arrived \/ y = x
      BY <2>2, <2>5, NextPlaces DEF Arrived
    <2>7. Types'
      BY <1>1, <1>4, <1>a, <2>2, <2>5 DEF Types, mainVars, registryVars
    <2>8. OnceInv'
      BY <1>4, <1>5, <1>a, <2>2, <2>5, NextPlaces DEF OnceInv
    <2>9. KindInv'
      BY <1>4, <1>5, <1>a, <2>3, <2>6 DEF KindInv
    <2>10. FreshInv'
      BY <1>1, <1>2, <1>4, <1>5, <1>a, <2>2, <2>6, FreshKept
    <2>11. QED
      BY <1>2, <2>7, <2>8, <2>9, <2>10 DEF Inv
  <1>8. QED
    BY <1>6, <1>7 DEF GetFromPool

\* DequeMessage: the packet goes from inwardPackets into the hands of Release.
LEMMA DequeKeepsInv ==
    ASSUME Inv, NEW n \in Networks, DequeMessage(n)
    PROVE  Inv'
  <1> DEFINE x == Head(inward[n])
             p == creationPool[ClassOf(x)]
             h == IF p = NoPool THEN Idle ELSE [doing |-> "put", pool |-> p, packet |-> x]
  <1>a. Types /\ LoopInv /\ OnceInv /\ KindInv /\ FreshInv
    BY DEF Inv
  <1>1. /\ inward[n] # <<>> /\ inward' = [inward EXCEPT ![n] = Tail(@)]
        /\ handler' = [handler EXCEPT ![n] = h]
        /\ UNCHANGED <<mainVars, registryVars, poolVars, started, faults>>
    BY DEF DequeMessage
  <1>2. LoopInv' /\ (Making' => Making /\ remaining' = remaining)
    BY <1>1, MainWaits
  <1>3. inward' = Replaced(inward, n, Tail(inward[n]))
    BY <1>1 DEF Replaced
  <1>4. inward \in [Networks -> Seq(Packets)] /\ Distinct(inward, Networks)
    BY <1>a DEF Types, OnceInv
  <1>5. /\ inward' \in [Networks -> Seq(Packets)] /\ Distinct(inward', Networks)
        /\ x \in Members(inward, Networks)
        /\ \A y \in Members(inward', Networks) : y \in Members(inward, Networks) /\ y # x
    <2>1. inward[n] # <<>>
      BY <1>1
    <2> HIDE DEF h, p
    <2>2. QED
      BY <1>3, <1>4, <2>1, FamilyTail
  <1>6. x \in Packets /\ x \in Arrived
    BY <1>5 DEF Members, Arrived
  <1>7. x \notin Pooled /\ x \notin InHands /\ x \notin Returning
    BY <1>6, <1>a DEF KindInv
  <1>8. h \in HandlerStates /\ (h.doing = "put" => h.packet = x)
    <2>1. CASE p = NoPool
      BY <2>1 DEF HandlerStates, Idle
    <2>2. CASE p # NoPool
      <3>1. ClassOf(x) \in Classes
        BY <1>6 DEF ClassOf, Packets, PoolIds
      <3>2. p \in PoolIds
        BY <1>a, <2>2, <3>1 DEF Types
      <3>3. QED
        BY <1>6, <2>2, <3>2 DEF HandlerStates
    <2>3. QED
      BY <2>1, <2>2
  <1> HIDE DEF h, p, x
  <1>9. /\ handler' \in [Networks -> HandlerStates] /\ OnceReturning'
        /\ \A y \in Returning' : y \in Returning \/ y = x
    <2>1. h.doing = "put" => h.packet \notin Returning
      BY <1>7, <1>8
    <2>2. OnceReturning /\ handler' = [handler EXCEPT ![n] = h]
      BY <1>1, <1>a DEF OnceInv
    <2>3. QED
      BY <1>8, <1>a, <2>1, <2>2, HandlerEffect
  <1>10. /\ Pooled' = Pooled /\ InHands' = InHands
         /\ \A y \in Arrived' : y \in Arrived /\ y # x
    BY <1>1, <1>5, NextPlaces DEF mainVars, poolVars, Pooled, Arrived
  <1>11. Types'
    BY <1>1, <1>5, <1>9, <1>a DEF Types, mainVars, registryVars, poolVars
  <1>12. OnceInv'
    BY <1>1, <1>5, <1>9, <1>a, NextPlaces DEF OnceInv, mainVars, poolVars
  <1>13. KindInv'
    BY <1>7, <1>9, <1>10, <1>a DEF KindInv
  <1>14. FreshInv'
    BY <1>1, <1>2, <1>6, <1>9, <1>10, <1>a, FreshKept DEF poolVars
  <1>15. QED
    BY <1>2, <1>11, <1>12, <1>13, <1>14 DEF Inv

\* Release puts it into the pool, if the pool still exists.
LEMMA PutIntoPoolKeepsInv ==
    ASSUME Inv, NEW n \in Networks, PutIntoPool(n)
    PROVE  Inv'
  <1> DEFINE p == handler[n].pool
             x == handler[n].packet
  <1>a. Types /\ LoopInv /\ OnceInv /\ KindInv /\ FreshInv
    BY DEF Inv
  <1>1. /\ handler' = [handler EXCEPT ![n] = Idle] /\ handler[n].doing = "put"
        /\ UNCHANGED <<mainVars, registryVars, creationPool, freed, inits, started, inward>>
        /\ \/ faults' = faults \cup {"dangling"} /\ pools' = pools
           \/ faults' = faults /\ pools' = PutIn(p, x)
    BY DEF PutIntoPool, Fails
  <1>2. LoopInv' /\ (Making' => Making /\ remaining' = remaining)
    BY <1>1, MainWaits
  <1>3. p \in PoolIds /\ x \in Packets /\ x \in Returning
    BY <1>1, <1>a, HandlerState
  <1>4. x \notin Pooled /\ x \notin InHands /\ x \notin Arrived
    BY <1>3, <1>a DEF KindInv
  <1>5. /\ handler' \in [Networks -> HandlerStates] /\ OnceReturning'
        /\ \A y \in Returning' : y \in Returning /\ y # x
    BY <1>1, <1>a, HandlerState, HandlerEffect DEF OnceInv
  <1>6. /\ pools' \in [PoolIds -> Seq(Packets)] /\ Distinct(pools', PoolIds)
        /\ \A q \in PoolIds : Len(pools'[q]) <= PoolSize
        /\ \A y \in Pooled' : y \in Pooled \/ y = x
    <2>1. CASE pools' = pools
      BY <1>a, <2>1, NextPlaces DEF Types, OnceInv, Pooled
    <2>2. CASE pools' = PutIn(p, x)
      <3> HIDE DEF p, x
      <3>1. Distinct(pools, PoolIds)
        BY <1>a DEF OnceInv
      <3>2. /\ pools' \in [PoolIds -> Seq(Packets)] /\ Distinct(pools', PoolIds)
            /\ \A q \in PoolIds : Len(pools'[q]) <= PoolSize
            /\ \A y \in Members(pools', PoolIds) : y \in Pooled \/ y = x
        BY <1>3, <1>4, <1>a, <2>2, <3>1, PutEffect
      <3>3. QED
        BY <3>2, NextPlaces
    <2>3. QED
      BY <1>1, <2>1, <2>2
  <1> HIDE DEF p, x
  <1>7. InHands' = InHands /\ Arrived' = Arrived
    BY <1>1, NextPlaces DEF mainVars
  <1>8. Types'
    BY <1>1, <1>5, <1>6, <1>a DEF Types, mainVars, registryVars
  <1>9. OnceInv'
    BY <1>1, <1>5, <1>6, <1>a, NextPlaces DEF OnceInv, mainVars
  <1>10. KindInv'
    BY <1>4, <1>5, <1>6, <1>7, <1>a DEF KindInv
  <1>11. FreshInv'
    BY <1>1, <1>2, <1>3, <1>5, <1>6, <1>7, <1>a, FreshKept
  <1>12. QED
    BY <1>2, <1>8, <1>9, <1>10, <1>11 DEF Inv

\* The packets of a closed connection are destroyed with it.
LEMMA DisconnectKeepsInv ==
    ASSUME Inv, NEW n \in Networks, Disconnect(n)
    PROVE  Inv'
  <1>a. Types /\ LoopInv /\ OnceInv /\ KindInv /\ FreshInv
    BY DEF Inv
  <1>1. /\ inward' = [inward EXCEPT ![n] = <<>>]
        /\ UNCHANGED <<mainVars, registryVars, poolVars, started, handler, faults>>
    BY DEF Disconnect
  <1>2. LoopInv' /\ (Making' => Making /\ remaining' = remaining)
    BY <1>1, MainWaits
  <1>3. /\ <<>> \in Seq(Packets) /\ Injective(<<>>) /\ Elements(<<>>) = {}
        /\ OwnOrNew(<<>>, inward, n, Networks)
    BY DEF Injective, Elements, OwnOrNew
  <1>4. inward' = Replaced(inward, n, <<>>)
    BY <1>1 DEF Replaced
  <1>5. /\ inward' \in [Networks -> Seq(Packets)] /\ Distinct(inward', Networks)
        /\ Members(inward', Networks) \subseteq Members(inward, Networks)
    <2>1. inward \in [Networks -> Seq(Packets)] /\ Distinct(inward, Networks)
      BY <1>a DEF Types, OnceInv
    <2>2. /\ inward' \in [Networks -> Seq(Packets)] /\ Distinct(inward', Networks)
          /\ Members(inward', Networks) \subseteq Members(inward, Networks) \cup Elements(<<>>)
      BY <1>3, <1>4, <2>1, FamilyReplaced
    <2>3. QED
      BY <1>3, <2>2
  <1>6. /\ Pooled' = Pooled /\ InHands' = InHands /\ Returning' = Returning
        /\ \A y \in Arrived' : y \in Arrived
    BY <1>1, <1>5, NextPlaces DEF mainVars, poolVars, Pooled, Arrived
  <1>7. Types'
    BY <1>1, <1>5, <1>a DEF Types, mainVars, registryVars, poolVars
  <1>8. OnceInv'
    BY <1>1, <1>5, <1>a, NextPlaces DEF OnceInv, mainVars, poolVars
  <1>9. KindInv'
    BY <1>6, <1>a DEF KindInv
  <1>10. FreshInv'
    BY <1>1, <1>2, <1>6, <1>a, FreshKept DEF poolVars
  <1>11. QED
    BY <1>2, <1>7, <1>8, <1>9, <1>10 DEF Inv

\* Before main runs nothing is in a place, and no loop has begun.
LEMMA InitInv == Init => Inv
  <1> SUFFICES ASSUME Init
               PROVE  Inv
    OBVIOUS
  <1> USE DEF Init
  <1>1. program \in Seq(Instructions) /\ 1 \in Classes /\ PoolSize \in Nat
    BY ProgramAssumption, SizeAssumption DEF Classes
  <1>2. /\ pools = [p \in PoolIds |-> <<>>] /\ inward = [n \in Networks |-> <<>>]
        /\ handler = [n \in Networks |-> Idle] /\ packs = <<>> /\ <<>> \in Seq(Packets)
    OBVIOUS
  <1>3. Types
    <2>1. Len(program) \in Nat /\ at \in 1 .. Len(program) + 1
      BY <1>1
    <2>2. pools \in [PoolIds -> Seq(Packets)] /\ \A p \in PoolIds : Len(pools[p]) <= PoolSize
      BY <1>1, <1>2
    <2>3. handler \in [Networks -> HandlerStates] /\ inward \in [Networks -> Seq(Packets)]
      BY <1>2 DEF HandlerStates
    <2>4. creationPool \in [Classes -> PoolIds \cup {NoPool}] /\ inits \in 0 .. MaxInits
      BY SizeAssumption
    <2>5. /\ typeRegistered \in [Classes -> BOOLEAN] /\ packs \in Seq(Instances)
          /\ remaining \subseteq Classes /\ remaining # {}
      BY <1>1
    <2>6. QED
      BY <2>1, <2>2, <2>3, <2>4, <2>5 DEF Types
  <1>4. Pooled = {} /\ InHands = {} /\ Arrived = {}
    BY <1>2 DEF Pooled, InHands, Arrived, Members, Hands
  <1>5. Returning = {}
    BY <1>2 DEF Returning, Idle
  <1>6. Distinct(pools, PoolIds) /\ Distinct(inward, Networks) /\ Once(packs)
    BY <1>2 DEF Distinct, Once
  <1>7. OnceReturning
    BY <1>2 DEF OnceReturning, Idle
  <1>8. LoopInv /\ KindInv /\ FreshInv
    BY <1>4, <1>5 DEF LoopInv, KindInv, FreshInv, Present, Making
  <1>9. QED
    BY <1>3, <1>6, <1>7, <1>8 DEF Inv, OnceInv

\* The invariant holds for ever.
LEMMA Invariance == Spec => []Inv
  <1>1. Inv /\ [Next]_vars => Inv'
    <2> SUFFICES ASSUME Inv, [Next]_vars
                 PROVE  Inv'
      OBVIOUS
    <2>1. CASE MainStep
      BY <2>1, MainKeepsInv
    <2>2. ASSUME NEW n \in Networks, NetworkStep(n)
          PROVE  Inv'
      BY <2>2, FindPoolKeepsInv, GetFromPoolKeepsInv, DequeKeepsInv, PutIntoPoolKeepsInv,
         DisconnectKeepsInv DEF NetworkStep
    <2>3. CASE UNCHANGED vars
      <3> USE <2>3 DEF vars, mainVars, registryVars, poolVars, networkVars
      <3>1. Types'
        BY DEF Inv, Types
      <3>2. LoopInv' /\ (Making' => Making /\ remaining' = remaining)
        BY MainWaits
      <3>3. OnceInv' /\ KindInv' /\ FreshInv'
        BY <3>2, PacketsStay DEF Inv
      <3>4. QED
        BY <3>1, <3>2, <3>3 DEF Inv
    <2>4. QED
      BY <2>1, <2>2, <2>3 DEF Next
  <1>2. QED
    BY <1>1, InitInv, PTL DEF Spec

-----------------------------------------------------------------------------
(* The factory's properties.                                               *)

\* The registry, the pools and the holders of packets have their types,
\* whatever programs main may run.
THEOREM TypeCorrect == Spec => []TypeOK
  <1>1. Inv => TypeOK
    <2> SUFFICES ASSUME Inv
                 PROVE  TypeOK
      OBVIOUS
    <2>1. Types
      BY DEF Inv
    <2>2. \A n \in Networks : handler[n].doing \in {"idle", "get", "put"}
      BY <2>1 DEF Types, HandlerStates, Idle
    <2>3. QED
      BY <2>1, <2>2 DEF Types, TypeOK, Instances
  <1>2. QED
    BY <1>1, Invariance, PTL

\* The places that OnePlacePerPacket counts are places of one of the kinds.
LEMMA PlacesOnce ==
    ASSUME Inv, NEW x \in Packets, NEW a \in Places(x), NEW b \in Places(x)
    PROVE  a = b
  <1>a. Types /\ OnceInv /\ KindInv
    BY DEF Inv
  <1> DEFINE InPools(u) == \E p \in PoolIds : \E i \in 1 .. Len(pools[p]) : pools[p][i] = x /\ u = <<p, i>>
             WithMain(u) == \E i \in 1 .. Len(packs) : packs[i] = Unwritten(x) /\ u = <<"main", i>>
             In(u) == \E n \in Networks : \E i \in 1 .. Len(inward[n]) : inward[n][i] = x /\ u = <<n, i>>
             Put(u) == \E n \in Networks : handler[n].doing = "put" /\ handler[n].packet = x /\ u = <<n, "put">>
  <1>1. ASSUME NEW u \in Places(x)
        PROVE  InPools(u) \/ WithMain(u) \/ In(u) \/ Put(u)
    <2> DEFINE A == {v \in LivePools \X (1 .. PoolSize) : v[2] <= Len(pools[v[1]]) /\ pools[v[1]][v[2]] = x}
               B == {<<"main", i>> : i \in {j \in DOMAIN packs : packs[j] = [packet |-> x, written |-> FALSE]}}
               C == UNION {{<<n, i>> : i \in {j \in DOMAIN inward[n] : inward[n][j] = x}} : n \in Networks}
               D == {<<n, "put">> : n \in {m \in Networks : handler[m].doing = "put" /\ handler[m].packet = x}}
    <2>1. CASE u \in A
      <3>1. PICK p \in LivePools, i \in 1 .. PoolSize : u = <<p, i>> /\ i <= Len(pools[p]) /\ pools[p][i] = x
        BY <2>1
      <3>2. p \in PoolIds /\ Len(pools[p]) \in Nat
        BY <1>a DEF LivePools, Types
      <3>3. i \in 1 .. Len(pools[p])
        BY <3>1, <3>2, <1>a, Numbers
      <3>4. QED
        BY <3>1, <3>2, <3>3
    <2>2. CASE u \in B
      <3>1. DOMAIN packs = 1 .. Len(packs)
        BY <1>a DEF Types
      <3>2. PICK i \in DOMAIN packs : packs[i] = Unwritten(x) /\ u = <<"main", i>>
        BY <2>2 DEF Unwritten
      <3>3. QED
        BY <3>1, <3>2
    <2>3. CASE u \in C
      <3>1. PICK n \in Networks : u \in {<<n, i>> : i \in {j \in DOMAIN inward[n] : inward[n][j] = x}}
        BY <2>3
      <3>2. DOMAIN inward[n] = 1 .. Len(inward[n])
        BY <1>a DEF Types
      <3>3. QED
        BY <3>1, <3>2
    <2>4. CASE u \in D
      BY <2>4
    <2>5. Places(x) = A \cup B \cup C \cup D
      BY DEF Places
    <2> HIDE DEF A, B, C, D
    <2>6. QED
      BY <2>1, <2>2, <2>3, <2>4, <2>5
  <1>2. \A u : /\ InPools(u) => x \in Pooled
               /\ WithMain(u) => x \in InHands
               /\ In(u) => x \in Arrived
               /\ Put(u) => x \in Returning
    BY DEF Pooled, InHands, Arrived, Returning, Members, Hands
  <1>3. CASE InPools(a) /\ InPools(b)
    BY <1>3, <1>a DEF OnceInv, Distinct
  <1>4. CASE WithMain(a) /\ WithMain(b)
    BY <1>4, <1>a DEF OnceInv, Once, Unwritten
  <1>5. CASE In(a) /\ In(b)
    BY <1>5, <1>a DEF OnceInv, Distinct
  <1>6. CASE Put(a) /\ Put(b)
    BY <1>6, <1>a DEF OnceInv, OnceReturning
  <1> HIDE DEF InPools, WithMain, In, Put
  <1>7. QED
    BY <1>1, <1>2, <1>3, <1>4, <1>5, <1>6, <1>a DEF KindInv

\* A packet is in one place: no two callers of Create get the same one, and
\* one in use is in no pool, although nothing locks the maps of the factory.
THEOREM PacketsInOnePlace == Spec => []OnePlacePerPacket
  <1>1. Inv => OnePlacePerPacket
    <2> SUFFICES ASSUME Inv, NEW x \in Packets
                 PROVE  Cardinality(Places(x)) <= 1
      BY DEF OnePlacePerPacket
    <2>1. CASE Places(x) = {}
      BY <2>1, FS_EmptySet
    <2>2. CASE Places(x) # {}
      <3>1. PICK a : a \in Places(x)
        BY <2>2
      <3>2. Places(x) = {a}
        BY <3>1, PlacesOnce
      <3>3. Cardinality({a}) = 1
        BY FS_Singleton
      <3>4. QED
        BY <3>2, <3>3
    <2>3. QED
      BY <2>1, <2>2
  <1>2. QED
    BY <1>1, Invariance, PTL

-----------------------------------------------------------------------------
(* While the server serves.                                                *)

\* As long as the process runs, nothing has gone wrong.
LEMMA Healthy == ASSUME Inv, ServiceInv, Running PROVE faults = {}
  <1>1. faults \subseteq {"unknown", "assert", "null", "dangling"} /\ "null" \notin faults /\ "dangling" \notin faults
    BY DEF Inv, Types, Running
  <1>2. "unknown" \notin faults /\ "assert" \notin faults
    BY <1>1 DEF ServiceInv, FaultInv
  <1>3. QED
    BY <1>1, <1>2

\* A step without a fault.
LEMMA NoFault ==
    ASSUME Inv, ServiceInv, Running, faults' = faults
    PROVE  FaultInv' /\ ServedInv'
  BY Healthy DEF FaultInv, ServedInv, ServiceIsSafe

\* Main goes on to another operation, or stays with one it has not finished.
LEMMA Progress ==
    ASSUME Inv, NEW op, AtOperation(op), program' = program, LoopInv',
           NEW c \in Classes,
           (op \notin Loops /\ Advance) \/ (op \in Loops /\ NextClass(c) /\ LoopTurn(c))
    PROVE  /\ Running /\ at \in 1 .. Len(program) /\ program[at].op = op
           /\ at' = at + 1 \/ (at' = at /\ op \in Loops)
           /\ at' = at + 1 => remaining' = Classes
           /\ at' = at => remaining' = remaining \ {c}
           /\ op \in Loops /\ at' = at + 1 => remaining = {c}
           /\ \A o \in Operations : Reached(o)' <=> Reached(o) \/ (at' = at + 1 /\ o = op)
           /\ Before' => Before /\ op # "shutdown"
  <1>a. Types /\ LoopInv
    BY DEF Inv
  <1>1. Running /\ at \in 1 .. Len(program) /\ program[at].op = op
    BY <1>a, Numbers DEF AtOperation
  <1>2. \/ at' = at + 1 /\ remaining' = Classes /\ (op \in Loops => remaining = {c})
        \/ at' = at /\ op \in Loops /\ remaining' = remaining \ {c}
    <2>1. CASE op \notin Loops /\ Advance
      BY <1>a, <2>1, AdvanceEffect
    <2>2. CASE op \in Loops /\ NextClass(c) /\ LoopTurn(c)
      BY <2>2 DEF LoopTurn
    <2>3. QED
      BY <2>1, <2>2
  <1>3. at' # at \/ at' # at + 1
    BY <1>1
  <1>4. ASSUME NEW o \in Operations
        PROVE  Reached(o)' <=> Reached(o) \/ (at' = at + 1 /\ o = op)
    <2>1. CASE at' = at
      BY <1>3, <2>1 DEF Reached
    <2>2. CASE at' = at + 1
      <3>1. \A i : i \in 1 .. at' - 1 <=> i \in 1 .. at - 1 \/ i = at
        BY <1>1, <2>2
      <3>2. QED
        BY <1>1, <2>2, <3>1 DEF Reached
    <2>3. QED
      BY <1>2, <2>1, <2>2
  <1>5. Before' => Before /\ op # "shutdown"
    <2> SUFFICES ASSUME Before'
                 PROVE  Before /\ op # "shutdown"
      OBVIOUS
    <2>1. "shutdown" \in Operations
      BY DEF Operations
    <2>2. ~Reached("shutdown")' /\ ~Reached("shutdown")
      BY <1>4, <2>1 DEF Before
    <2>3. op # "shutdown"
      <3> SUFFICES ASSUME op = "shutdown"
                   PROVE  FALSE
        OBVIOUS
      <3>1. at' = at /\ remaining' = remaining \ {c}
        BY <1>2, <1>4, <2>1, <2>2
      <3>2. remaining' = Classes
        BY <1>1, <3>1 DEF Before
      <3>3. QED
        BY <3>1, <3>2
    <2>4. QED
      BY <1>1, <2>2, <2>3 DEF Before
  <1>6. QED
    BY <1>1, <1>2, <1>3, <1>4, <1>5

\* Network threads and the operations that are no loops change no pointer.
LEMMA Prepared ==
    ASSUME Inv, ServiceInv, NEW op \in Operations \ Loops, AtOperation(op), Advance,
           UNCHANGED <<program, allocationMethods, creationPool, freed>>,
           \A c \in Classes : typeRegistered'[c] => typeRegistered[c]
    PROVE  PreparedInv' /\ (Before' => Before)
  <1>a. Types /\ LoopInv
    BY DEF Inv
  <1>1. PICK c : c \in Classes
    BY <1>a, Numbers
  <1>2. LoopInv'
    BY <1>a, AdvanceEffect
  <1>3. /\ at' = at + 1 /\ remaining' = Classes
        /\ \A o \in Operations : Reached(o)' <=> Reached(o) \/ o = op
        /\ Before' => Before
    BY <1>1, <1>2, Progress
  <1>4. "register" \in Operations /\ "init" \in Operations /\ op # "register" /\ op # "init"
    BY DEF Operations, Loops
  <1>5. (Reached("register")' <=> Reached("register")) /\ (Reached("init")' <=> Reached("init"))
    BY <1>3, <1>4
  <1> SUFFICES ASSUME InOrder(program), Before'
               PROVE  RegisteredInv' /\ PooledInv'
    BY <1>3 DEF PreparedInv
  <1>6. RegisteredInv /\ PooledInv
    BY <1>3 DEF ServiceInv, PreparedInv
  <1>7. RegisteredInv'
    BY <1>3, <1>5, <1>6 DEF RegisteredInv
  <1>8. PooledInv'
    BY <1>3, <1>5, <1>6 DEF PooledInv
  <1>9. QED
    BY <1>7, <1>8

\* Register, while nothing is shut down.
LEMMA RegisterServes ==
    ASSUME Inv, ServiceInv, NEW c \in Classes, Register(c), LoopInv'
    PROVE  ServiceInv'
  <1>a. /\ AtOperation("register") /\ NextClass(c) /\ LoopTurn(c) /\ "register" \in Loops
        /\ UNCHANGED <<program, creationPool, freed, started, faults>>
    BY DEF Register, Loops, poolVars, networkVars
  <1>b. Types
    BY DEF Inv
  <1>1. /\ Running /\ at \in 1 .. Len(program) /\ program[at].op = "register"
        /\ at' = at + 1 \/ at' = at
        /\ at' = at + 1 => remaining' = Classes /\ remaining = {c}
        /\ at' = at => remaining' = remaining \ {c}
        /\ Before' => Before
    BY <1>a, Progress
  <1>2. /\ Reached("register")' <=> Reached("register") \/ at' = at + 1
        /\ Reached("init")' <=> Reached("init")
    <2>1. "register" \in Operations /\ "init" \in Operations
      BY DEF Operations
    <2>2. \A o \in Operations : Reached(o)' <=> Reached(o) \/ (at' = at + 1 /\ o = "register")
      BY <1>a, Progress
    <2>3. QED
      BY <2>1, <2>2
  <1>3. FaultInv' /\ ServedInv'
    BY <1>a, <1>1, NoFault
  <1>4. StartedInv'
    BY <1>a DEF ServiceInv, StartedInv
  <1>5. ASSUME InOrder(program), Before'
        PROVE  RegisteredInv' /\ PooledInv'
    <2>1. RegisteredInv /\ PooledInv
      BY <1>1, <1>5 DEF ServiceInv, PreparedInv
    <2>2. /\ allocationMethods \subseteq allocationMethods' /\ c \in allocationMethods'
          /\ allocationMethods' \subseteq Classes
          /\ \A d \in Classes : typeRegistered'[d] => d \in allocationMethods'
      <3>1. CASE typeRegistered[c]
        BY <1>b, <2>1, <3>1 DEF Register, registryVars, RegisteredInv, Types
      <3>2. CASE ~typeRegistered[c]
        <4>1. /\ allocationMethods' = allocationMethods \cup {c}
              /\ typeRegistered' = [typeRegistered EXCEPT ![c] = c \notin allocationMethods \/ c \notin methods]
          BY <3>2 DEF Register
        <4>2. \A d \in Classes : d # c => typeRegistered'[d] = typeRegistered[d]
          BY <1>b, <4>1 DEF Types
        <4>3. QED
          BY <1>b, <2>1, <4>1, <4>2 DEF RegisteredInv, Types
      <3>3. QED
        BY <3>1, <3>2
    <2>3. Classes \ remaining \subseteq allocationMethods
      BY <1>1, <2>1 DEF RegisteredInv
    <2>4. Reached("register")' => allocationMethods' = Classes
      <3>1. CASE at' = at + 1
        BY <1>1, <2>2, <2>3, <3>1
      <3>2. CASE Reached("register")
        BY <2>1, <2>2, <3>2 DEF RegisteredInv
      <3>3. QED
        BY <1>2, <3>1, <3>2
    <2>5. at' <= Len(program') /\ program'[at'].op = "register" => Classes \ remaining' \subseteq allocationMethods'
      BY <1>1, <2>2, <2>3
    <2>6. RegisteredInv'
      BY <2>2, <2>4, <2>5 DEF RegisteredInv
    <2>7. at' <= Len(program') /\ program'[at'].op = "init" => \A d \in Classes \ remaining' : creationPool'[d] # NoPool
      BY <1>a, <1>1
    <2>8. PooledInv'
      BY <1>a, <1>2, <2>1, <2>7 DEF PooledInv
    <2>9. QED
      BY <2>6, <2>8
  <1>6. QED
    BY <1>a, <1>3, <1>4, <1>5 DEF ServiceInv, PreparedInv

\* InitFactory: registration is done, so that every class gets a pool.
LEMMA InitFactoryServes ==
    ASSUME Inv, ServiceInv, NEW c \in Classes, InitFactory(c), LoopInv'
    PROVE  ServiceInv'
  <1>a. /\ AtOperation("init") /\ NextClass(c) /\ LoopTurn(c) /\ "init" \in Loops
        /\ UNCHANGED <<program, registryVars, freed, started, faults>>
    BY DEF InitFactory, MakePool, Loops, networkVars
  <1>b. Types
    BY DEF Inv
  <1>1. /\ Running /\ at \in 1 .. Len(program) /\ program[at].op = "init"
        /\ at' = at + 1 \/ at' = at
        /\ at' = at + 1 => remaining' = Classes /\ remaining = {c}
        /\ at' = at => remaining' = remaining \ {c}
        /\ Before' => Before
    BY <1>a, Progress
  <1>2. /\ Reached("register")' <=> Reached("register")
        /\ Reached("init")' <=> Reached("init") \/ at' = at + 1
    <2>1. "register" \in Operations /\ "init" \in Operations
      BY DEF Operations
    <2>2. \A o \in Operations : Reached(o)' <=> Reached(o) \/ (at' = at + 1 /\ o = "init")
      BY <1>a, Progress
    <2>3. QED
      BY <2>1, <2>2
  <1>3. FaultInv' /\ ServedInv'
    BY <1>a, <1>1, NoFault
  <1>4. StartedInv'
    BY <1>a DEF ServiceInv, StartedInv
  <1>5. ASSUME InOrder(program), Before'
        PROVE  RegisteredInv' /\ PooledInv'
    <2>1. RegisteredInv /\ PooledInv
      BY <1>1, <1>5 DEF ServiceInv, PreparedInv
    <2>2. Reached("register")
      BY <1>1, <1>5 DEF InOrder, Reached
    <2>3. allocationMethods = Classes
      BY <2>1, <2>2 DEF RegisteredInv
    <2>4. RegisteredInv'
      BY <1>a, <1>2, <2>1, <2>3 DEF RegisteredInv, registryVars
    <2>5. /\ creationPool'[c] # NoPool
          /\ \A d \in Classes : creationPool[d] # NoPool => creationPool'[d] # NoPool
      <3>1. CASE creationPool[c] # NoPool
        BY <3>1 DEF InitFactory, MakePool
      <3>2. CASE creationPool[c] = NoPool
        <4>1. PICK g : creationPool' = [creationPool EXCEPT ![c] = <<c, g>>]
          BY <2>3, <3>2 DEF InitFactory, MakePool
        <4>2. <<c, g>> # NoPool
          BY DEF NoPool
        <4>3. QED
          BY <1>b, <4>1, <4>2 DEF Types
      <3>3. QED
        BY <3>1, <3>2
    <2>6. \A d \in Classes \ remaining : creationPool[d] # NoPool
      BY <1>1, <2>1 DEF PooledInv
    <2>7. Reached("init")' => \A d \in Classes : creationPool'[d] # NoPool
      <3>1. CASE at' = at + 1
        BY <1>1, <2>5, <2>6, <3>1
      <3>2. CASE Reached("init")
        BY <2>1, <2>5, <3>2 DEF PooledInv
      <3>3. QED
        BY <1>2, <3>1, <3>2
    <2>8. at' <= Len(program') /\ program'[at'].op = "init" => \A d \in Classes \ remaining' : creationPool'[d] # NoPool
      BY <1>1, <2>5, <2>6
    <2>9. PooledInv'
      BY <1>a, <2>1, <2>7, <2>8 DEF PooledInv
    <2>10. QED
      BY <2>4, <2>9
  <1>6. QED
    BY <1>a, <1>3, <1>4, <1>5 DEF ServiceInv, PreparedInv

\* Shutdown ends the service; the copies of these operations begin none.
LEMMA ServiceOver ==
    ASSUME Inv, ServiceInv, NEW op \in {"shutdown", "shutdown_copy", "init_copy"}, AtOperation(op),
           NEW c \in Classes, NextClass(c), LoopTurn(c), UNCHANGED <<program, started, faults>>, LoopInv'
    PROVE  ServiceInv'
  <1>1. op \in Loops
    BY DEF Loops
  <1>2. Running /\ at \in 1 .. Len(program) /\ program[at].op = op /\ (Before' => op # "shutdown")
    BY <1>1, Progress
  <1>3. FaultInv' /\ ServedInv' /\ StartedInv'
    BY <1>2, NoFault DEF ServiceInv, StartedInv
  <1>4. ~(InOrder(program) /\ Before')
    BY <1>2 DEF InOrder
  <1>5. QED
    BY <1>3, <1>4 DEF ServiceInv, PreparedInv

\* Where the server serves, no class lacks its pool and no pool is deleted.
LEMMA WhileServing ==
    ASSUME ServiceInv, RegistersFirst(program), started, Serving
    PROVE  freed = {} /\ \A c \in Classes : creationPool[c] # NoPool
  <1>1. InOrder(program)
    BY DEF ServiceInv, StartedInv, RegistersFirst
  <1>2. Before
    BY DEF Serving, Before
  <1>3. QED
    BY <1>1, <1>2 DEF ServiceInv, PreparedInv, PooledInv, Serving

\* Create by main, which is no service of a server that has no pools.
LEMMA MainCreateServes ==
    ASSUME Inv, ServiceInv, NEW c \in Classes, NEW byName \in BOOLEAN, MainCreate(c, byName), LoopInv'
    PROVE  ServiceInv'
  <1>a. /\ AtOperation("create") /\ Advance /\ "create" \in Operations \ Loops
        /\ UNCHANGED <<program, typeRegistered, allocationMethods, creationPool, freed, started>>
    BY DEF MainCreate, Operations, Loops, registryVars, networkVars
  <1>1. PreparedInv' /\ (Before' => Before)
    BY <1>a, Prepared
  <1>2. StartedInv'
    BY <1>a DEF ServiceInv, StartedInv
  <1>3. Running /\ faults = {}
    BY <1>a, Healthy DEF AtOperation
  <1>4. FaultInv'
    BY <1>3 DEF MainCreate, Fails, FaultInv
  <1>5. ServedInv'
    <2> SUFFICES ASSUME RegistersFirst(program), started, Serving'
                 PROVE  "dangling" \notin faults' /\ ("assert" \in faults' => "unknown" \in faults')
      BY <1>a DEF ServedInv, ServiceIsSafe
    <2>1. \A o \in Operations : Reached(o)' <=> Reached(o) \/ (at' = at + 1 /\ o = "create")
      BY <1>a, Progress
    <2>2. "init" \in Operations /\ "init" # "create"
      BY DEF Operations
    <2>3. Reached("init")' <=> Reached("init")
      BY <2>1, <2>2
    <2>4. Before'
      BY DEF Serving, Before
    <2>5. Serving
      BY <1>1, <2>3, <2>4 DEF Serving, Before
    <2>6. creationPool[c] # NoPool
      BY <2>5, WhileServing
    <2>7. faults' \subseteq {"null"}
      BY <1>3, <2>6 DEF MainCreate, Fails
    <2>8. QED
      BY <2>7
  <1>6. QED
    BY <1>1, <1>2, <1>4, <1>5 DEF ServiceInv

\* The other operations of main that are no loops.
LEMMA OthersServe ==
    ASSUME Inv, ServiceInv, LoopInv',
           ClearFlags \/ StartNetwork \/ (\E i \in Held : MainRelease(i) \/ Flush(i))
    PROVE  ServiceInv'
  <1>1. PICK op \in Operations \ Loops :
            /\ AtOperation(op) /\ Advance /\ (started' = started \/ (op = "start" /\ started'))
            /\ UNCHANGED <<program, allocationMethods, creationPool, freed, faults>>
            /\ \A c \in Classes : typeRegistered'[c] => typeRegistered[c]
    <2>1. {"clear_flags", "start", "release", "flush"} \subseteq Operations \ Loops
      BY DEF Operations, Loops
    <2>2. CASE ClearFlags
      BY <2>1, <2>2 DEF ClearFlags, poolVars, networkVars
    <2>3. CASE StartNetwork
      BY <2>1, <2>3 DEF StartNetwork, registryVars, poolVars
    <2>4. CASE \E i \in Held : MainRelease(i) \/ Flush(i)
      BY <2>1, <2>4 DEF MainRelease, Flush, registryVars, networkVars
    <2>5. QED
      BY <2>2, <2>3, <2>4
  <1>2. PreparedInv'
    BY <1>1, Prepared
  <1>3. FaultInv' /\ ServedInv'
    BY <1>1, NoFault DEF AtOperation
  <1>4. StartedInv'
    <2>1. CASE op = "start"
      <3>1. at \in 1 .. Len(program) /\ program[at].op = "start"
        BY <1>1, <2>1, Numbers DEF AtOperation, Inv
      <3>2. QED
        BY <1>1, <3>1 DEF StartedInv, Starts
    <2>2. CASE started' = started
      BY <1>1, <2>2 DEF ServiceInv, StartedInv
    <2>3. QED
      BY <1>1, <2>1, <2>2
  <1>5. QED
    BY <1>2, <1>3, <1>4 DEF ServiceInv

\* The network threads.
LEMMA NetworkServes ==
    ASSUME Inv, ServiceInv, NEW n \in Networks, NetworkStep(n)
    PROVE  ServiceInv'
  <1>1. /\ Running /\ UNCHANGED <<mainVars, registryVars, creationPool, freed, started>>
    BY DEF NetworkStep, FindPool, GetFromPool, DequeMessage, PutIntoPool, Disconnect, poolVars
  <1>2. faults = {}
    BY <1>1, Healthy
  <1>3. StartedInv' /\ PreparedInv'
    BY <1>1 DEF ServiceInv, StartedInv, PreparedInv, Before, Reached, RegisteredInv, PooledInv,
                mainVars, registryVars
  <1>4. \/ faults' = {}
        \/ faults' = {"assert", "null"} /\ \E c \in Classes : creationPool[c] = NoPool
        \/ faults' = {"unknown", "assert", "null"}
        \/ faults' = {"null"}
        \/ faults' = {"dangling"} /\ freed # {}
    <2>1. ASSUME NEW c \in OnTheWire, FindPool(n, c)
          PROVE  \/ faults' = {}
                 \/ faults' = {"assert", "null"} /\ c \in Classes /\ creationPool[c] = NoPool
                 \/ faults' = {"unknown", "assert", "null"}
      BY <1>2, <2>1 DEF FindPool, Fails, HasPool, OnTheWire
    <2>2. CASE GetFromPool(n)
      BY <1>2, <2>2 DEF GetFromPool, Fails
    <2>3. CASE PutIntoPool(n)
      BY <1>2, <2>3 DEF PutIntoPool, Fails
    <2>4. CASE DequeMessage(n) \/ Disconnect(n)
      BY <1>2, <2>4 DEF DequeMessage, Disconnect
    <2>5. QED
      BY <2>1, <2>2, <2>3, <2>4 DEF NetworkStep
  <1>5. FaultInv'
    BY <1>4 DEF FaultInv
  <1>6. ServedInv'
    <2> SUFFICES ASSUME RegistersFirst(program), started, Serving
                 PROVE  "dangling" \notin faults' /\ ("assert" \in faults' => "unknown" \in faults')
      BY <1>1 DEF ServedInv, ServiceIsSafe, Serving, Reached, mainVars
    <2>1. faults' \subseteq {"null"} \/ faults' = {"unknown", "assert", "null"}
      BY <1>4, WhileServing
    <2>2. QED
      BY <2>1
  <1>7. QED
    BY <1>3, <1>5, <1>6 DEF ServiceInv

\* What main does keeps the server safe.
LEMMA MainServes == ASSUME Inv, ServiceInv, MainStep, LoopInv' PROVE ServiceInv'
  <1>1. ASSUME NEW c \in Classes, InitCopy(c)
        PROVE  ServiceInv'
    BY <1>1, ServiceOver DEF InitCopy, MakePool, networkVars
  <1>2. ASSUME NEW c \in Classes, Shutdown(c) \/ ShutdownCopy(c)
        PROVE  ServiceInv'
    BY <1>2, ServiceOver DEF Shutdown, ShutdownCopy, DeletePool, networkVars
  <1>3. QED
    BY <1>1, <1>2, RegisterServes, InitFactoryServes, MainCreateServes, OthersServe DEF MainStep

\* What keeps the server safe holds for ever.
LEMMA ServiceInvariance == Spec => []ServiceInv
  <1>1. Init => ServiceInv
    <2> SUFFICES ASSUME Init
                 PROVE  ServiceInv
      OBVIOUS
    <2>1. Inv
      BY InitInv
    <2>2. faults = {} /\ started = FALSE /\ freed = {} /\ at = 1 /\ remaining = Classes
      BY DEF Init
    <2>3. ~Reached("register") /\ ~Reached("init")
      BY <2>2 DEF Reached
    <2>4. \A c \in Classes : ~typeRegistered[c]
      BY DEF Init
    <2>5. Classes \ remaining = {}
      BY <2>2
    <2>6. RegisteredInv /\ PooledInv
      BY <2>2, <2>3, <2>4, <2>5 DEF RegisteredInv, PooledInv
    <2>7. QED
      BY <2>2, <2>6 DEF ServiceInv, FaultInv, StartedInv, PreparedInv, ServedInv, ServiceIsSafe
  <1>2. Inv /\ Inv' /\ ServiceInv /\ [Next]_vars => ServiceInv'
    <2> SUFFICES ASSUME Inv, Inv', ServiceInv, [Next]_vars
                 PROVE  ServiceInv'
      OBVIOUS
    <2>1. CASE MainStep
      BY <2>1, MainServes DEF Inv
    <2>2. ASSUME NEW n \in Networks, NetworkStep(n)
          PROVE  ServiceInv'
      BY <2>2, NetworkServes
    <2>3. CASE UNCHANGED vars
      BY <2>3 DEF vars, mainVars, registryVars, poolVars, networkVars, ServiceInv, FaultInv, StartedInv,
                  PreparedInv, ServedInv, ServiceIsSafe, Serving, Before, Reached, RegisteredInv, PooledInv
    <2>4. QED
      BY <2>1, <2>2, <2>3 DEF Next
  <1>3. QED
    BY <1>1, <1>2, Invariance, PTL DEF Spec

\* From the end of the first InitFactory to the beginning of the first
\* Shutdown no network thread meets a registered class without a pool or a
\* deleted pool, whatever is on the wire, for every program that registers its
\* classes before it calls InitFactory: the assertion of Create fails for a type
\* that no class has, and for no other.
\* The hypothesis is about the programs only; those of the repository meet it.
THEOREM ServiceSafe ==
    ASSUME \A p \in Programs : RegistersFirst(p)
    PROVE  Spec => []ServiceIsSafe
  <1>1. Inv /\ ServiceInv => ServiceIsSafe
    BY DEF Inv, Types, ServiceInv, ServedInv
  <1>2. QED
    BY <1>1, Invariance, ServiceInvariance, PTL

-----------------------------------------------------------------------------
(* While a program runs one factory at a time, every packet belongs to the *)
(* pool that its class has, and a pool that gets a packet back lacks it.   *)

\* An InitFactory has been run; there are no network threads before the
\* server starts, and one InitFactory at most where it ever does.
Initialized == Reached("init") \/ Reached("init_copy")
CountInv == /\ ~Initialized => inits = IF Making THEN 1 ELSE 0
            /\ Starts(program) => inits <= 1
            /\ started => Starts(program)
            /\ ~started => \A n \in Networks : handler[n] = Idle /\ inward[n] = <<>>

\* What main holds was created since the flags were cleared last.
CreatedInv == InHands # {} => \E i \in 1 .. at - 1 :
    program[i].op = "create" /\ \A k \in i .. at - 1 : program[k].op # "clear_flags"

\* The pool of a class was made for it by an InitFactory that Shutdown has
\* not followed; Shutdown deletes pool after pool.
CurrentInv ==
    /\ \A c \in Classes : creationPool[c] # NoPool =>
          /\ creationPool[c][1] = c /\ creationPool[c][2] <= inits
          /\ \/ Making /\ c \notin remaining
             \/ \E j \in 1 .. at - 1 : /\ Initializes(program, j)
                                      /\ \A k \in j .. at - 1 : program[k].op # "shutdown"
    /\ at <= Len(program) /\ program[at].op = "shutdown" =>
          \A c \in Classes \ remaining : creationPool[c] \in freed \cup {NoPool}

\* A packet is in its own pool, or in the hands of main, where its class has
\* no other, or on its way to its own.
OwnInv == /\ \A p \in PoolIds : \A i \in 1 .. Len(pools[p]) : pools[p][i][1] = p
          /\ \A x \in InHands : creationPool[ClassOf(x)] \in {NoPool, x[1]}
          /\ \A n \in Networks : handler[n].doing = "put" => handler[n].pool = handler[n].packet[1]

TidyInv == CountInv /\ CreatedInv /\ CurrentInv /\ OwnInv

\* What a step does with the packets of a pool that is in use.
Stay == \A p \in LivePools, x \in Packets : InPool(p, x) /\ p \notin freed' => Places(x)' # {}

\* Where a pool gets a packet of its own back, it lacks that packet: there is
\* room for it, and the others keep their places.
LEMMA PutOwn ==
    ASSUME Types, Distinct(pools, PoolIds), OwnInv, NEW x \in Packets, x \notin Pooled,
           NEW g, g = PutIn(x[1], x)
    PROVE  /\ x[1] \in PoolIds
           /\ g = [pools EXCEPT ![x[1]] = Append(pools[x[1]], x)]
           /\ Len(pools[x[1]]) < PoolSize
  <1> DEFINE p == x[1]
             s == pools[p]
             n == Len(s)
             D == (1 .. PoolSize) \ {x[2]}
             f == [i \in 1 .. n |-> s[i][2]]
  <1>1. /\ p \in PoolIds /\ x[2] \in 1 .. PoolSize /\ PoolSize \in Nat
        /\ x = <<p, x[2]>>
    BY Numbers DEF Packets
  <1>2. s \in Seq(Packets) /\ n \in Nat /\ n <= PoolSize
    BY <1>1 DEF Types
  <1>3. ASSUME NEW i \in 1 .. n
        PROVE  s[i] \in Packets /\ s[i][1] = p /\ s[i] = <<p, s[i][2]>> /\ s[i][2] \in 1 .. PoolSize
               /\ s[i] # x
    <2>1. s[i] \in Packets
      BY <1>2
    <2>2. s[i][1] = p
      BY <1>1 DEF OwnInv
    <2>3. s[i] # x
      BY <1>1 DEF Pooled, Members
    <2>4. QED
      BY <2>1, <2>2, <2>3 DEF Packets
  <1>4. n < PoolSize
    <2>1. IsFiniteSet(1 .. PoolSize) /\ Cardinality(1 .. PoolSize) = PoolSize
      BY <1>1, FS_Interval
    <2>2. IsFiniteSet(D) /\ Cardinality(D) = PoolSize - 1
      BY <1>1, <2>1, FS_RemoveElement
    <2>3. Cardinality(1 .. n) = n /\ IsFiniteSet(1 .. n)
      BY <1>2, FS_Interval, SMTT(40)
    <2>4. f \in [1 .. n -> D]
      <3>1. \A i \in 1 .. n : s[i][2] \in D
        <4> SUFFICES ASSUME NEW i \in 1 .. n
                     PROVE  s[i][2] \in D
          OBVIOUS
        <4>1. s[i][2] # x[2]
          BY <1>1, <1>3
        <4>2. QED
          BY <1>3, <4>1
      <3>2. QED
        BY <3>1
    <2>5. \A i, j \in 1 .. n : f[i] = f[j] => i = j
      <3> SUFFICES ASSUME NEW i \in 1 .. n, NEW j \in 1 .. n, s[i][2] = s[j][2]
                   PROVE  i = j
        OBVIOUS
      <3>1. s[i] = s[j]
        BY <1>3
      <3>2. QED
        BY <1>1, <3>1 DEF Distinct
    <2>6. f \in Injection(1 .. n, D)
      BY <2>4, <2>5, Fun_IsInj
    <2>7. Cardinality(1 .. n) <= Cardinality(D)
      BY <2>2, <2>6, FS_Injection
    <2>8. QED
      BY <1>1, <1>2, <2>2, <2>3, <2>7
  <1>5. Len(s) # PoolSize
    BY <1>1, <1>2, <1>4
  <1>6. QED
    BY <1>1, <1>4, <1>5, Zenon DEF PutIn

\* The packets of all pools stay where they are, and the new one is the last of
\* its pool.
LEMMA PutStays ==
    ASSUME Types, Distinct(pools, PoolIds), OwnInv, NEW x \in Packets, x \notin Pooled,
           NEW g, g = PutIn(x[1], x)
    PROVE  /\ \A q \in PoolIds : \A i \in 1 .. Len(pools[q]) : i \in 1 .. Len(g[q]) /\ g[q][i] = pools[q][i]
           /\ \A q \in PoolIds : \A i \in 1 .. Len(g[q]) :
                 (i \in 1 .. Len(pools[q]) /\ g[q][i] = pools[q][i]) \/ (q = x[1] /\ g[q][i] = x)
           /\ \E i \in 1 .. Len(g[x[1]]) : g[x[1]][i] = x
  <1> DEFINE p == x[1]
             s == pools[p]
  <1>1. p \in PoolIds /\ g = [pools EXCEPT ![p] = Append(s, x)] /\ pools \in [PoolIds -> Seq(Packets)]
    BY PutOwn DEF Types
  <1>2. g[p] = Append(s, x) /\ \A q \in PoolIds : q # p => g[q] = pools[q]
    BY <1>1
  <1>3. /\ Len(g[p]) = Len(s) + 1 /\ Len(s) \in Nat
        /\ \A i \in 1 .. Len(s) : g[p][i] = s[i]
        /\ g[p][Len(s) + 1] = x
    <2>1. s \in Seq(Packets)
      BY <1>1
    <2>2. QED
      BY <1>2, <2>1, AppendElements
  <1> HIDE DEF p
  <1>4. \A i \in 1 .. Len(pools[p]) : i \in 1 .. Len(g[p]) /\ g[p][i] = pools[p][i]
    BY <1>3
  <1>5. \A i \in 1 .. Len(g[p]) : (i \in 1 .. Len(pools[p]) /\ g[p][i] = pools[p][i]) \/ g[p][i] = x
    BY <1>3
  <1>6. Len(s) + 1 \in 1 .. Len(g[p])
    BY <1>3
  <1>7. QED
    <2>1. \A q \in PoolIds : \A i \in 1 .. Len(pools[q]) : i \in 1 .. Len(g[q]) /\ g[q][i] = pools[q][i]
      BY <1>2, <1>4, Zenon
    <2>2. \A q \in PoolIds : \A i \in 1 .. Len(g[q]) :
             (i \in 1 .. Len(pools[q]) /\ g[q][i] = pools[q][i]) \/ (q = p /\ g[q][i] = x)
      BY <1>2, <1>5, Zenon
    <2>3. \E i \in 1 .. Len(g[p]) : g[p][i] = x
      BY <1>3, <1>6
    <2>4. QED
      BY <2>1, <2>2, <2>3 DEF p

\* Places of packets in the next state.
LEMMA StillThere ==
    ASSUME Types', NEW x \in Packets,
           \/ \E p \in LivePools' : \E i \in 1 .. Len(pools'[p]) : pools'[p][i] = x
           \/ x \in InHands'
           \/ x \in Arrived'
    PROVE  Places(x)' # {}
  <1>1. CASE \E p \in LivePools' : \E i \in 1 .. Len(pools'[p]) : pools'[p][i] = x
    <2>1. PICK p \in LivePools' : \E i \in 1 .. Len(pools'[p]) : pools'[p][i] = x
      BY <1>1
    <2>2. PICK i \in 1 .. Len(pools'[p]) : pools'[p][i] = x
      BY <2>1
    <2>3. p \in PoolIds
      BY <2>1 DEF LivePools, Types
    <2>4. Len(pools'[p]) \in Nat /\ Len(pools'[p]) <= PoolSize /\ PoolSize \in Nat
      BY <2>3, SizeAssumption DEF Types
    <2>5. i \in 1 .. PoolSize /\ i <= Len(pools'[p])
      BY <2>2, <2>4
    <2>6. <<p, i>> \in Places(x)'
      BY <2>1, <2>2, <2>5 DEF Places
    <2>7. QED
      BY <2>6
  <1>2. CASE x \in InHands'
    <2>1. PICK i \in 1 .. Len(packs') : packs'[i] = Unwritten(x)
      BY <1>2 DEF InHands, Hands
    <2>2. DOMAIN packs' = 1 .. Len(packs')
      BY DEF Types
    <2>3. <<"main", i>> \in Places(x)'
      BY <2>1, <2>2 DEF Places, Unwritten
    <2>4. QED
      BY <2>3
  <1>3. CASE x \in Arrived'
    <2>1. PICK n \in Networks : \E i \in 1 .. Len(inward'[n]) : inward'[n][i] = x
      BY <1>3 DEF Arrived, Members
    <2>2. PICK i \in 1 .. Len(inward'[n]) : inward'[n][i] = x
      BY <2>1
    <2>3. DOMAIN inward'[n] = 1 .. Len(inward'[n])
      BY DEF Types
    <2>4. <<n, i>> \in Places(x)'
      BY <2>2, <2>3 DEF Places
    <2>5. QED
      BY <2>4
  <1>4. QED
    BY <1>1, <1>2, <1>3

\* An operation of main other than InitFactory makes no pools.
LEMMA OperationCounts ==
    ASSUME Inv, CountInv, NEW op \in Operations \ {"init", "init_copy"}, AtOperation(op), program' = program,
           LoopInv', NEW c \in Classes,
           (op \notin Loops /\ Advance) \/ (op \in Loops /\ NextClass(c) /\ LoopTurn(c)),
           inits' = inits, UNCHANGED <<handler, inward>>, started' = started \/ (op = "start" /\ started')
    PROVE  CountInv' /\ ~Making
  <1>1. /\ at \in 1 .. Len(program) /\ program[at].op = op
        /\ at' = at + 1 \/ (at' = at /\ op \in Loops)
        /\ at' = at + 1 => remaining' = Classes
        /\ \A o \in Operations : Reached(o)' <=> Reached(o) \/ (at' = at + 1 /\ o = op)
    BY Progress
  <1>2. "init" \in Operations /\ "init_copy" \in Operations
    BY DEF Operations
  <1>3. Initialized' <=> Initialized
    BY <1>1, <1>2 DEF Initialized
  <1>4. ~Making /\ ~Making'
    BY <1>1 DEF Making
  <1>5. started' => Starts(program)
    BY <1>1 DEF CountInv, Starts
  <1>6. ~started' => \A n \in Networks : handler'[n] = Idle /\ inward'[n] = <<>>
    BY DEF CountInv
  <1>7. QED
    BY <1>3, <1>4, <1>5, <1>6 DEF CountInv, Starts

\* What main holds is no older than before, unless the flags are cleared, when
\* it gives everything up.
LEMMA CreatedKept ==
    ASSUME Inv, CreatedInv, program' = program, at \in 1 .. Len(program), at' = at \/ at' = at + 1,
           \/ program[at].op # "clear_flags" /\ InHands' \subseteq InHands
           \/ program[at].op = "create" /\ at' = at + 1
           \/ InHands' = {}
    PROVE  CreatedInv'
  <1> SUFFICES ASSUME InHands' # {}
               PROVE  \E i \in 1 .. at' - 1 : program[i].op = "create" /\ \A k \in i .. at' - 1 : program[k].op # "clear_flags"
    BY DEF CreatedInv
  <1>1. CASE program[at].op = "create" /\ at' = at + 1
    <2>1. at \in 1 .. at' - 1 /\ \A k \in at .. at' - 1 : k = at
      BY <1>1
    <2>2. QED
      BY <1>1, <2>1
  <1>2. CASE program[at].op # "clear_flags" /\ InHands' \subseteq InHands
    <2>1. PICK i \in 1 .. at - 1 : program[i].op = "create" /\ \A k \in i .. at - 1 : program[k].op # "clear_flags"
      BY <1>2 DEF CreatedInv
    <2>2. i \in 1 .. at' - 1 /\ \A k \in i .. at' - 1 : k \in i .. at - 1 \/ k = at
      BY <2>1
    <2>3. QED
      BY <1>2, <2>1, <2>2
  <1>3. QED
    BY <1>1, <1>2

\* An operation that neither makes nor deletes a pool leaves each class its own.
LEMMA CurrentKept ==
    ASSUME Inv, CurrentInv, ~Making, program' = program, at \in 1 .. Len(program),
           at' = at \/ (at' = at + 1 /\ remaining' = Classes), program[at].op # "shutdown",
           UNCHANGED <<creationPool, inits>>
    PROVE  CurrentInv'
  <1>1. ASSUME NEW c \in Classes, creationPool'[c] # NoPool
        PROVE  /\ creationPool'[c][1] = c /\ creationPool'[c][2] <= inits'
               /\ \E j \in 1 .. at' - 1 : /\ Initializes(program', j)
                                         /\ \A k \in j .. at' - 1 : program'[k].op # "shutdown"
    <2>1. PICK j \in 1 .. at - 1 : Initializes(program, j) /\ \A k \in j .. at - 1 : program[k].op # "shutdown"
      BY <1>1 DEF CurrentInv
    <2>2. j \in 1 .. at' - 1 /\ \A k \in j .. at' - 1 : k \in j .. at - 1 \/ k = at
      BY <2>1
    <2>3. QED
      BY <1>1, <2>1, <2>2 DEF CurrentInv
  <1>2. at' <= Len(program') /\ program'[at'].op = "shutdown" => Classes \ remaining' = {}
    OBVIOUS
  <1>3. QED
    BY <1>1, <1>2 DEF CurrentInv

\* A network thread exists only once the server has started, and changes
\* nothing that main does.
LEMMA NetworkTidies ==
    ASSUME Inv, TidyInv, NEW n \in Networks, NetworkStep(n)
    PROVE  CountInv' /\ CreatedInv' /\ CurrentInv' /\ started /\ inits <= 1
  <1>1. /\ UNCHANGED <<mainVars, creationPool, freed, inits, started>>
        /\ started \/ handler[n].doing # "idle" \/ inward[n] # <<>>
    BY DEF NetworkStep, FindPool, GetFromPool, DequeMessage, PutIntoPool, Disconnect, poolVars
  <1>2. handler[n] = Idle => handler[n].doing = "idle"
    BY DEF Idle
  <1>3. started
    BY <1>1, <1>2 DEF TidyInv, CountInv
  <1>4. inits <= 1
    BY <1>3 DEF TidyInv, CountInv
  <1>5. CountInv'
    BY <1>1, <1>3 DEF TidyInv, CountInv, mainVars, Initialized, Reached, Making, Starts
  <1>6. CreatedInv'
    BY <1>1 DEF TidyInv, CreatedInv, mainVars, InHands, Hands
  <1>7. CurrentInv'
    BY <1>1 DEF TidyInv, CurrentInv, mainVars, Making, Initializes
  <1>8. QED
    BY <1>3, <1>4, <1>5, <1>6, <1>7

\* Where there was one InitFactory only, a class has the pool of its packets or
\* none.
LEMMA OnlyPool ==
    ASSUME Inv, CurrentInv, inits <= 1, NEW x \in Present
    PROVE  x \in Packets /\ x[1] \in PoolIds /\ creationPool[ClassOf(x)] \in {NoPool, x[1]}
  <1>1. x \in Packets
    BY DEF Present, Pooled, InHands, Arrived, Returning, Members, Hands
  <1>2. x[1] \in PoolIds /\ x[1] = <<ClassOf(x), Made(x)>> /\ ClassOf(x) \in Classes /\ Made(x) \in Nat /\ Made(x) >= 1
    BY <1>1, Numbers DEF Inv, Packets, PoolIds, ClassOf, Made
  <1>3. inits \in Nat /\ Made(x) <= inits
    BY Numbers DEF Inv, FreshInv
  <1>4. Made(x) = 1
    BY <1>2, <1>3
  <1>5. CASE creationPool[ClassOf(x)] # NoPool
    <2> DEFINE p == creationPool[ClassOf(x)]
    <2>1. p \in PoolIds
      BY <1>2, <1>5 DEF Inv, Types
    <2>2. p[1] = ClassOf(x) /\ p[2] <= inits
      BY <1>2, <1>5 DEF CurrentInv
    <2>3. p = <<p[1], p[2]>> /\ p[2] \in 1 .. MaxInits /\ MaxInits \in Nat
      BY <2>1, Numbers DEF PoolIds, Inv
    <2>4. p[2] = 1
      BY <1>3, <2>2, <2>3
    <2>5. p = x[1]
      BY <1>2, <1>4, <2>2, <2>3, <2>4, Zenon
    <2>6. QED
      BY <1>1, <1>2, <2>5
  <1>6. QED
    BY <1>1, <1>2, <1>5

\* A step after which each packet of a pool is in that pool, in the hands of
\* main or in an inwardPackets, leaves no pool but by Create.
LEMMA StayIf ==
    ASSUME Types, Types', creationPool' = creationPool,
           \A q \in PoolIds : \A i \in 1 .. Len(pools[q]) :
              \/ \E j \in 1 .. Len(pools'[q]) : pools'[q][j] = pools[q][i]
              \/ pools[q][i] \in InHands'
              \/ pools[q][i] \in Arrived'
    PROVE  Stay
  <1> SUFFICES ASSUME NEW p \in LivePools, NEW x \in Packets, InPool(p, x), p \notin freed'
               PROVE  Places(x)' # {}
    BY DEF Stay
  <1>1. p \in PoolIds /\ p \in LivePools'
    BY DEF LivePools, Types
  <1>2. PICK i \in 1 .. Len(pools[p]) : pools[p][i] = x
    BY DEF InPool
  <1>3. \/ \E j \in 1 .. Len(pools'[p]) : pools'[p][j] = x
        \/ x \in InHands'
        \/ x \in Arrived'
    BY <1>1, <1>2
  <1>4. QED
    BY <1>1, <1>3, StillThere

\* The pools and the hands of main as they were.
LEMMA OwnKept ==
    ASSUME OwnInv, UNCHANGED <<pools, packs, creationPool>>,
           \A n \in Networks : handler'[n].doing = "put" => handler'[n].pool = handler'[n].packet[1]
    PROVE  OwnInv'
  BY DEF OwnInv, InHands, Hands

\* Create(type, subtype), up to the look-up.
LEMMA FindPoolTidies ==
    ASSUME Inv, Inv', TidyInv, NEW n \in Networks, NEW c \in OnTheWire, FindPool(n, c)
    PROVE  OwnInv' /\ Stay
  <1>1. /\ UNCHANGED <<pools, packs, creationPool, inward>>
        /\ handler' = handler \/ handler' = [handler EXCEPT ![n] = [doing |-> "get", pool |-> creationPool[c]]]
    BY DEF FindPool, mainVars, poolVars
  <1>2. \A m \in Networks : handler'[m] = handler[m] \/ handler'[m] = [doing |-> "get", pool |-> creationPool[c]]
    BY <1>1 DEF Inv, Types
  <1>3. \A m \in Networks : handler'[m].doing = "put" => handler'[m] = handler[m]
    BY <1>2
  <1>4. OwnInv'
    BY <1>1, <1>3, OwnKept DEF TidyInv, OwnInv
  <1>5. Stay
    BY <1>1, StayIf DEF Inv
  <1>6. QED
    BY <1>4, <1>5

\* Create(type, subtype): the packet goes from the pool to inwardPackets.
LEMMA GetFromPoolTidies ==
    ASSUME Inv, Inv', TidyInv, NEW n \in Networks, GetFromPool(n)
    PROVE  OwnInv' /\ Stay
  <1> DEFINE p == handler[n].pool
  <1>1. handler' = [handler EXCEPT ![n] = Idle] /\ UNCHANGED <<packs, creationPool>>
    BY DEF GetFromPool, mainVars
  <1>2. \A m \in Networks : handler'[m] = handler[m] \/ handler'[m] = Idle
    BY <1>1 DEF Inv, Types
  <1>3. \A m \in Networks : handler'[m].doing = "put" => handler'[m] = handler[m]
    BY <1>2 DEF Idle
  <1>4. CASE UNCHANGED <<pools, inward>>
    <2>1. OwnInv'
      BY <1>1, <1>3, <1>4, OwnKept DEF TidyInv, OwnInv
    <2>2. Stay
      BY <1>1, <1>4, StayIf DEF Inv
    <2>3. QED
      BY <2>1, <2>2
  <1>5. CASE /\ pools[p] # <<>>
             /\ inward' = [inward EXCEPT ![n] = Append(@, Head(pools[p]))]
             /\ pools' = [pools EXCEPT ![p] = Tail(@)]
    <2>1. p \in PoolIds
      <3>1. handler[n].doing = "get"
        BY DEF GetFromPool
      <3>2. QED
        BY <3>1, HandlerState DEF Inv
    <2>2. pools \in [PoolIds -> Seq(Packets)] /\ inward \in [Networks -> Seq(Packets)]
      BY DEF Inv, Types
    <2>3. /\ pools'[p] = Tail(pools[p]) /\ \A q \in PoolIds : q # p => pools'[q] = pools[q]
          /\ inward'[n] = Append(inward[n], Head(pools[p]))
      BY <1>5, <2>1, <2>2
    <2>4. /\ Len(Tail(pools[p])) = Len(pools[p]) - 1 /\ Len(pools[p]) \in Nat
          /\ Head(pools[p]) = pools[p][1] /\ pools[p][1] \in Packets
          /\ \A i \in 1 .. Len(Tail(pools[p])) : Tail(pools[p])[i] = pools[p][i + 1] /\ i + 1 \in 1 .. Len(pools[p])
      <3>1. pools[p] \in Seq(Packets)
        BY <2>1, <2>2
      <3>2. QED
        BY <1>5, <3>1, TailElements
    <2>5. pools[p][1] \in Arrived'
      <3>1. inward[n] \in Seq(Packets)
        BY <2>2
      <3>2. /\ Len(inward'[n]) = Len(inward[n]) + 1 /\ Len(inward[n]) \in Nat
            /\ inward'[n][Len(inward[n]) + 1] = pools[p][1]
        BY <2>3, <2>4, <3>1, AppendElements
      <3>3. Len(inward[n]) + 1 \in 1 .. Len(inward'[n])
        BY <3>2
      <3>4. QED
        BY <2>4, <3>2, <3>3 DEF Arrived, Members
    <2> HIDE DEF p
    <2>6. ASSUME NEW i \in 1 .. Len(pools[p])
          PROVE  \/ \E j \in 1 .. Len(pools'[p]) : pools'[p][j] = pools[p][i]
                 \/ pools[p][i] \in Arrived'
      <3>1. CASE i = 1
        BY <2>5, <3>1
      <3>2. CASE i # 1
        <4>1. i - 1 \in 1 .. Len(pools'[p]) /\ i - 1 + 1 = i
          BY <2>3, <2>4, <3>2
        <4>2. pools'[p][i - 1] = pools[p][i]
          BY <2>3, <2>4, <4>1
        <4>3. QED
          BY <4>1, <4>2
      <3>3. QED
        BY <3>1, <3>2
    <2>7. \A q \in PoolIds : \A i \in 1 .. Len(pools[q]) :
             \/ \E j \in 1 .. Len(pools'[q]) : pools'[q][j] = pools[q][i]
             \/ pools[q][i] \in Arrived'
      BY <2>3, <2>6, Zenon
    <2>8. Stay
      BY <1>1, <2>7, StayIf DEF Inv
    <2>9. \A q \in PoolIds : \A i \in 1 .. Len(pools'[q]) : pools'[q][i][1] = q
      <3>1. \A q \in PoolIds : \A i \in 1 .. Len(pools[q]) : pools[q][i][1] = q
        BY DEF TidyInv, OwnInv
      <3>2. ASSUME NEW i \in 1 .. Len(pools'[p])
            PROVE  pools'[p][i][1] = p
        <4>1. pools'[p][i] = pools[p][i + 1] /\ i + 1 \in 1 .. Len(pools[p])
          BY <2>3, <2>4
        <4>2. QED
          BY <2>1, <3>1, <4>1
      <3>3. QED
        BY <2>3, <3>1, <3>2, Zenon
    <2>10. OwnInv'
      BY <1>1, <1>3, <2>9 DEF TidyInv, OwnInv, InHands, Hands
    <2>11. QED
      BY <2>8, <2>10
  <1>6. QED
    BY <1>4, <1>5 DEF GetFromPool

\* DequeMessage: the packet is on its way to its own pool.
LEMMA DequeTidies ==
    ASSUME Inv, Inv', TidyInv, inits <= 1, NEW n \in Networks, DequeMessage(n)
    PROVE  OwnInv' /\ Stay
  <1> DEFINE x == Head(inward[n])
             h == IF creationPool[ClassOf(x)] = NoPool THEN Idle
                  ELSE [doing |-> "put", pool |-> creationPool[ClassOf(x)], packet |-> x]
  <1>1. UNCHANGED <<pools, packs, creationPool>> /\ handler' = [handler EXCEPT ![n] = h] /\ inward[n] # <<>>
    BY DEF DequeMessage, mainVars, poolVars
  <1>2. \A m \in Networks : handler'[m] = handler[m] \/ handler'[m] = h
    BY <1>1 DEF Inv, Types
  <1>3. x \in Present
    <2>1. inward[n] \in Seq(Packets)
      BY DEF Inv, Types
    <2>2. x = inward[n][1] /\ x \in Packets /\ 1 \in 1 .. Len(inward[n])
      BY <1>1, <2>1
    <2>3. QED
      BY <2>2 DEF Present, Arrived, Members
  <1>4. creationPool[ClassOf(x)] \in {NoPool, x[1]}
    BY <1>3, OnlyPool DEF TidyInv
  <1> HIDE DEF x
  <1>5. h.doing = "put" => h.pool = h.packet[1]
    BY <1>4 DEF Idle
  <1> HIDE DEF h
  <1>6. OwnInv'
    BY <1>1, <1>2, <1>5, OwnKept DEF TidyInv, OwnInv
  <1>7. Stay
    BY <1>1, StayIf DEF Inv
  <1>8. QED
    BY <1>6, <1>7

\* The packet is back in its pool.
LEMMA PutIntoPoolTidies ==
    ASSUME Inv, Inv', TidyInv, NEW n \in Networks, PutIntoPool(n)
    PROVE  OwnInv' /\ Stay
  <1> DEFINE x == handler[n].packet
  <1>1. handler' = [handler EXCEPT ![n] = Idle] /\ UNCHANGED <<packs, creationPool>> /\ handler[n].doing = "put"
    BY DEF PutIntoPool, mainVars
  <1>2. \A m \in Networks : handler'[m] = handler[m] \/ handler'[m] = Idle
    BY <1>1 DEF Inv, Types
  <1>3. \A m \in Networks : handler'[m].doing = "put" => handler'[m] = handler[m]
    BY <1>2 DEF Idle
  <1>4. CASE UNCHANGED pools
    <2>1. OwnInv'
      BY <1>1, <1>3, <1>4, OwnKept DEF TidyInv, OwnInv
    <2>2. Stay
      BY <1>1, <1>4, StayIf DEF Inv
    <2>3. QED
      BY <2>1, <2>2
  <1>5. CASE pools' = PutIn(handler[n].pool, x)
    <2>1. pools' = PutIn(x[1], x)
      BY <1>1, <1>5 DEF TidyInv, OwnInv
    <2>2. x \in Packets /\ x \in Returning
      BY <1>1, HandlerState DEF Inv
    <2>3. x \notin Pooled /\ Distinct(pools, PoolIds) /\ Types
      BY <2>2 DEF Inv, KindInv, OnceInv
    <2> HIDE DEF x
    <2>4. /\ \A q \in PoolIds : \A i \in 1 .. Len(pools[q]) : i \in 1 .. Len(pools'[q]) /\ pools'[q][i] = pools[q][i]
          /\ \A q \in PoolIds : \A i \in 1 .. Len(pools'[q]) :
                (i \in 1 .. Len(pools[q]) /\ pools'[q][i] = pools[q][i]) \/ (q = x[1] /\ pools'[q][i] = x)
      BY <2>1, <2>2, <2>3, PutStays DEF TidyInv
    <2>5. Stay
      BY <1>1, <2>4, StayIf DEF Inv
    <2>6. \A q \in PoolIds : \A i \in 1 .. Len(pools'[q]) : pools'[q][i][1] = q
      BY <2>4 DEF TidyInv, OwnInv
    <2>7. OwnInv'
      BY <1>1, <1>3, <2>6 DEF TidyInv, OwnInv, InHands, Hands
    <2>8. QED
      BY <2>5, <2>7
  <1>6. QED
    BY <1>4, <1>5 DEF PutIntoPool

\* The network threads.
LEMMA NetworkKeepsTidy ==
    ASSUME Inv, Inv', TidyInv, NEW n \in Networks, NetworkStep(n)
    PROVE  TidyInv' /\ Stay
  <1>1. CountInv' /\ CreatedInv' /\ CurrentInv' /\ inits <= 1
    BY NetworkTidies
  <1>2. CASE Disconnect(n)
    <2>1. UNCHANGED <<pools, packs, creationPool, handler>>
      BY <1>2 DEF Disconnect, mainVars, poolVars
    <2>2. OwnInv'
      BY <2>1, OwnKept DEF TidyInv, OwnInv
    <2>3. Stay
      BY <2>1, StayIf DEF Inv
    <2>4. QED
      BY <2>2, <2>3, <1>1 DEF TidyInv
  <1>3. CASE (\E c \in OnTheWire : FindPool(n, c)) \/ GetFromPool(n) \/ DequeMessage(n) \/ PutIntoPool(n)
    <2>1. OwnInv' /\ Stay
      BY <1>1, <1>3, FindPoolTidies, GetFromPoolTidies, DequeTidies, PutIntoPoolTidies
    <2>2. QED
      BY <1>1, <2>1 DEF TidyInv
  <1>4. QED
    BY <1>2, <1>3 DEF NetworkStep

\* Register, the start of the server, and the end of a test that gives up what
\* main holds.
LEMMA PlainTidies ==
    ASSUME Inv, Inv', TidyInv, NEW op \in {"register", "start", "clear_flags"}, AtOperation(op),
           NEW c \in Classes, (op \notin Loops /\ Advance) \/ (op \in Loops /\ NextClass(c) /\ LoopTurn(c)),
           UNCHANGED <<program, poolVars, handler, inward>>, started' = started \/ (op = "start" /\ started'),
           (op # "clear_flags" /\ packs' = packs) \/ packs' = <<>>
    PROVE  TidyInv' /\ Stay
  <1>1. LoopInv' /\ op \in Operations \ {"init", "init_copy"} /\ op # "shutdown"
    BY DEF Inv, Operations
  <1>2. CountInv' /\ ~Making
    BY <1>1, OperationCounts DEF TidyInv, poolVars
  <1>3. /\ at \in 1 .. Len(program) /\ program[at].op = op
        /\ at' = at \/ (at' = at + 1 /\ remaining' = Classes)
    BY <1>1, Progress
  <1>4. (op # "clear_flags" /\ InHands' = InHands) \/ InHands' = {}
    BY DEF InHands, Hands
  <1>5. CreatedInv'
    BY <1>3, <1>4, CreatedKept DEF TidyInv
  <1>6. CurrentInv'
    BY <1>1, <1>2, <1>3, CurrentKept DEF TidyInv, poolVars
  <1>7. OwnInv'
    BY <1>4 DEF TidyInv, OwnInv, poolVars
  <1>8. Stay
    BY StayIf DEF Inv, poolVars
  <1>9. QED
    BY <1>2, <1>5, <1>6, <1>7, <1>8 DEF TidyInv

\* Shutdown, of the factory and of its older copy.
LEMMA DeletePoolTidies ==
    ASSUME Inv, Inv', TidyInv, NEW c \in Classes, NEW op \in {"shutdown", "shutdown_copy"},
           DeletePool(c, op, op = "shutdown")
    PROVE  TidyInv' /\ Stay
  <1>1. /\ AtOperation(op) /\ NextClass(c) /\ LoopTurn(c)
        /\ freed' = IF creationPool[c] = NoPool THEN freed ELSE freed \cup {creationPool[c]}
        /\ \/ creationPool' = creationPool /\ ~(remaining = {c} /\ op = "shutdown")
           \/ creationPool' = [d \in Classes |-> NoPool] /\ remaining = {c} /\ op = "shutdown"
        /\ UNCHANGED <<program, packs, pools, inits, networkVars>>
    BY DEF DeletePool
  <1>2. LoopInv' /\ op \in Operations \ {"init", "init_copy"} /\ op \in Loops /\ op \notin {"clear_flags", "create"}
    BY DEF Inv, Operations, Loops
  <1>3. CountInv' /\ ~Making
    BY <1>1, <1>2, OperationCounts DEF TidyInv, networkVars
  <1>4. /\ at \in 1 .. Len(program) /\ program[at].op = op
        /\ (at' = at /\ remaining' = remaining \ {c}) \/ (at' = at + 1 /\ remaining' = Classes /\ remaining = {c})
        /\ at # at + 1
    BY <1>1, <1>2, Progress
  <1>5. InHands' = InHands
    BY <1>1 DEF InHands, Hands
  <1>6. CreatedInv'
    BY <1>1, <1>2, <1>4, <1>5, CreatedKept DEF TidyInv
  \* Before the last turn all other pools are deleted.
  <1>7. op = "shutdown" => \A d \in Classes \ remaining : creationPool[d] \in freed \cup {NoPool}
    BY <1>4 DEF TidyInv, CurrentInv
  <1>8. CurrentInv'
    <2>1. CASE at' = at
      <3>1. creationPool' = creationPool
        BY <1>1, <1>4, <2>1 DEF LoopTurn
      <3>2. at' <= Len(program') /\ program'[at'].op = "shutdown" =>
               \A d \in Classes \ remaining' : creationPool'[d] \in freed' \cup {NoPool}
        BY <1>1, <1>4, <1>7, <2>1, <3>1
      <3>3. ~Making'
        BY <1>1, <1>4, <2>1 DEF Making
      <3>4. \A d \in Classes : creationPool'[d] # NoPool =>
               /\ creationPool'[d][1] = d /\ creationPool'[d][2] <= inits'
               /\ \E j \in 1 .. at' - 1 : /\ Initializes(program', j)
                                         /\ \A k \in j .. at' - 1 : program'[k].op # "shutdown"
        BY <1>1, <1>3, <2>1, <3>1 DEF TidyInv, CurrentInv
      <3>5. QED
        BY <3>2, <3>4 DEF CurrentInv
    <2>2. CASE at' = at + 1 /\ op = "shutdown"
      <3>1. creationPool' = [d \in Classes |-> NoPool] /\ remaining' = Classes
        BY <1>1, <1>4, <2>2
      <3>2. QED
        BY <3>1 DEF CurrentInv
    <2>3. CASE at' = at + 1 /\ op # "shutdown"
      BY <1>1, <1>3, <1>4, <2>3, CurrentKept DEF TidyInv
    <2>4. QED
      BY <1>4, <2>1, <2>2, <2>3
  <1>9. OwnInv'
    <2>1. \A d \in Classes : creationPool'[d] = creationPool[d] \/ creationPool'[d] = NoPool
      BY <1>1
    <2>2. \A x \in InHands : ClassOf(x) \in Classes
      BY DEF InHands, Hands, ClassOf, Packets, PoolIds
    <2>3. \A x \in InHands' : creationPool'[ClassOf(x)] \in {NoPool, x[1]}
      BY <1>5, <2>1, <2>2 DEF TidyInv, OwnInv
    <2>4. QED
      BY <1>1, <2>3 DEF TidyInv, OwnInv, networkVars
  <1>10. Stay
    <2>1. CASE creationPool' = creationPool
      BY <1>1, <2>1, StayIf DEF Inv
    <2>2. CASE remaining = {c} /\ op = "shutdown"
      <3>1. \A d \in Classes : creationPool[d] \in freed' \cup {NoPool}
        BY <1>1, <1>7, <2>2
      <3>2. \A p \in LivePools : p \in freed'
        BY <3>1 DEF LivePools
      <3>3. QED
        BY <3>2 DEF Stay
    <2>3. QED
      BY <1>1, <2>1, <2>2
  <1>11. QED
    BY <1>3, <1>6, <1>8, <1>9, <1>10 DEF TidyInv

\* Create, by main.
LEMMA MainCreateTidies ==
    ASSUME Inv, Inv', TidyInv, NEW c \in Classes, NEW byName \in BOOLEAN, MainCreate(c, byName)
    PROVE  TidyInv' /\ Stay
  <1> DEFINE p == creationPool[c]
             x == Head(pools[p])
  <1>1. /\ AtOperation("create") /\ Advance
        /\ UNCHANGED <<program, creationPool, freed, inits, handler, inward, started>>
    BY DEF MainCreate, networkVars
  <1>2. LoopInv' /\ "create" \in Operations \ {"init", "init_copy"} /\ "create" \notin Loops
    BY DEF Inv, Operations, Loops
  <1>3. CountInv' /\ ~Making
    BY <1>1, <1>2, OperationCounts DEF TidyInv
  <1>4. at \in 1 .. Len(program) /\ program[at].op = "create" /\ at' = at + 1 /\ remaining' = Classes
    BY <1>1, <1>2, Progress
  <1>5. CreatedInv'
    BY <1>1, <1>4, CreatedKept DEF TidyInv
  <1>6. CurrentInv'
    BY <1>1, <1>3, <1>4, CurrentKept DEF TidyInv
  <1>7. CASE UNCHANGED <<packs, pools>>
    <2>1. OwnInv'
      BY <1>1, <1>7, OwnKept DEF TidyInv, OwnInv
    <2>2. Stay
      BY <1>1, <1>7, StayIf DEF Inv
    <2>3. QED
      BY <1>3, <1>5, <1>6, <2>1, <2>2 DEF TidyInv
  <1>8. CASE /\ p # NoPool /\ pools[p] # <<>>
             /\ packs' = Append(packs, [packet |-> x, written |-> FALSE])
             /\ pools' = [pools EXCEPT ![p] = Tail(@)]
    <2>1. p \in PoolIds /\ p[1] = c
      BY <1>8 DEF Inv, Types, TidyInv, CurrentInv
    <2>2. pools \in [PoolIds -> Seq(Packets)] /\ packs \in Seq(Instances)
      BY DEF Inv, Types
    <2>3. pools'[p] = Tail(pools[p]) /\ \A q \in PoolIds : q # p => pools'[q] = pools[q]
      BY <1>8, <2>1, <2>2
    <2>4. /\ Len(Tail(pools[p])) = Len(pools[p]) - 1 /\ Len(pools[p]) \in Nat /\ 1 \in 1 .. Len(pools[p])
          /\ x = pools[p][1] /\ x \in Packets
          /\ \A i \in 1 .. Len(Tail(pools[p])) : Tail(pools[p])[i] = pools[p][i + 1] /\ i + 1 \in 1 .. Len(pools[p])
      <3>1. pools[p] \in Seq(Packets)
        BY <2>1, <2>2
      <3>2. QED
        BY <1>8, <3>1, TailElements
    <2>5. x[1] = p
      BY <2>1, <2>4 DEF TidyInv, OwnInv
    <2>6. x \in Pooled /\ x \notin InHands
      <3>1. x \in Pooled
        BY <2>1, <2>4 DEF Pooled, Members
      <3>2. QED
        BY <3>1 DEF Inv, KindInv
    <2>7. packs' = Append(packs, Unwritten(x))
      BY <1>8 DEF Unwritten
    <2> HIDE DEF x
    <2>8. \A y \in InHands' : y \in InHands \/ y = x
      <3>1. \A y \in Hands(packs') : y \in Hands(packs) \/ y = x
        BY <2>2, <2>4, <2>6, <2>7, HandsAppend, ZenonT(40) DEF Inv, OnceInv, InHands
      <3>2. QED
        BY <3>1, NextPlaces DEF InHands
    <2>9. x \in InHands'
      <3>1. Unwritten(x) \in Instances
        BY <2>4 DEF Unwritten, Instances
      <3>2. Len(packs') = Len(packs) + 1 /\ Len(packs) \in Nat /\ packs'[Len(packs) + 1] = Unwritten(x)
        BY <2>2, <2>7, <3>1, AppendElements
      <3>3. Len(packs) + 1 \in 1 .. Len(packs')
        BY <3>2
      <3>4. QED
        BY <2>4, <3>2, <3>3 DEF InHands, Hands
    <2>10. ASSUME NEW i \in 1 .. Len(pools[p])
           PROVE  \/ \E j \in 1 .. Len(pools'[p]) : pools'[p][j] = pools[p][i]
                  \/ pools[p][i] \in InHands'
      <3>1. CASE i = 1
        BY <2>4, <2>9, <3>1
      <3>2. CASE i # 1
        <4>1. i - 1 \in 1 .. Len(pools'[p]) /\ i - 1 + 1 = i
          BY <2>3, <2>4, <3>2
        <4>2. pools'[p][i - 1] = pools[p][i]
          BY <2>3, <2>4, <4>1
        <4>3. QED
          BY <4>1, <4>2
      <3>3. QED
        BY <3>1, <3>2
    <2> HIDE DEF p
    <2>11. \A q \in PoolIds : \A i \in 1 .. Len(pools[q]) :
              \/ \E j \in 1 .. Len(pools'[q]) : pools'[q][j] = pools[q][i]
              \/ pools[q][i] \in InHands'
      BY <2>3, <2>10, Zenon
    <2>12. Stay
      BY <1>1, <2>11, StayIf DEF Inv
    <2>13. \A q \in PoolIds : \A i \in 1 .. Len(pools'[q]) : pools'[q][i][1] = q
      <3>1. \A q \in PoolIds : \A i \in 1 .. Len(pools[q]) : pools[q][i][1] = q
        BY DEF TidyInv, OwnInv
      <3>2. ASSUME NEW i \in 1 .. Len(pools'[p])
            PROVE  pools'[p][i][1] = p
        <4>1. pools'[p][i] = pools[p][i + 1] /\ i + 1 \in 1 .. Len(pools[p])
          BY <2>3, <2>4
        <4>2. QED
          BY <2>1, <3>1, <4>1
      <3>3. QED
        BY <2>3, <3>1, <3>2, Zenon
    <2>14. \A y \in InHands' : creationPool'[ClassOf(y)] \in {NoPool, y[1]}
      <3>1. creationPool[ClassOf(x)] = x[1]
        BY <2>1, <2>5 DEF ClassOf, p
      <3>2. QED
        BY <1>1, <2>8, <3>1 DEF TidyInv, OwnInv
    <2>15. OwnInv'
      BY <1>1, <2>13, <2>14 DEF TidyInv, OwnInv
    <2>16. QED
      BY <1>3, <1>5, <1>6, <2>12, <2>15 DEF TidyInv
  <1>9. QED
    BY <1>7, <1>8 DEF MainCreate

\* What main holds and has in its hands.
LEMMA HeldPacket ==
    ASSUME Inv, NEW i \in Held
    PROVE  /\ i \in 1 .. Len(packs) /\ ~packs[i].written /\ packs[i].packet \in Packets
           /\ packs[i] = Unwritten(packs[i].packet)
           /\ packs[i].packet \in InHands /\ packs[i].packet \notin Pooled
           /\ packs[i].packet[1] \in PoolIds /\ ClassOf(packs[i].packet) \in Classes
  <1> DEFINE x == packs[i].packet
  <1>1. packs \in Seq(Instances) /\ i \in 1 .. Len(packs) /\ ~packs[i].written
    BY DEF Inv, Types, Held
  <1>2. packs[i] \in Instances
    BY <1>1
  <1>3. x \in Packets /\ packs[i] = Unwritten(x)
    BY <1>1, <1>2 DEF Instances, Unwritten
  <1>4. x \in InHands
    BY <1>1, <1>3 DEF InHands, Hands
  <1>5. x \notin Pooled
    BY <1>4 DEF Inv, KindInv
  <1>6. x[1] \in PoolIds /\ ClassOf(x) \in Classes
    BY <1>3 DEF Packets, PoolIds, ClassOf
  <1>7. QED
    BY <1>1, <1>3, <1>4, <1>5, <1>6

\* Release, by main, of its reference or of a copy.
LEMMA GivenTidies ==
    ASSUME Inv, Inv', TidyInv, NEW i \in Held, NEW op \in {"release", "flush"}, AtOperation(op), Advance,
           pools' = ReleaseOf(packs[i].packet),
           \/ packs' = RemoveAt(packs, i)
           \/ packs' = [packs EXCEPT ![i].written = TRUE]
           \/ packs' = packs /\ creationPool[ClassOf(packs[i].packet)] = NoPool,
           UNCHANGED <<program, creationPool, freed, inits, handler, inward, started>>
    PROVE  TidyInv' /\ Stay
  <1> DEFINE x == packs[i].packet
  <1>1. LoopInv' /\ op \in Operations \ {"init", "init_copy"} /\ op \notin Loops
        /\ op \notin {"clear_flags", "shutdown"}
    BY DEF Inv, Operations, Loops
  <1>2. PICK c : c \in Classes
    BY Numbers DEF Inv
  <1>3. CountInv' /\ ~Making
    BY <1>1, <1>2, OperationCounts DEF TidyInv
  <1>4. at \in 1 .. Len(program) /\ program[at].op = op /\ at' = at + 1 /\ remaining' = Classes
    BY <1>1, <1>2, Progress
  <1>5. CurrentInv'
    BY <1>1, <1>3, <1>4, CurrentKept DEF TidyInv
  <1>6. x \in Packets /\ x \in InHands /\ x \notin Pooled /\ x[1] \in PoolIds
    BY HeldPacket
  <1>7. InHands' \subseteq InHands
    <2>1. CASE packs' = packs
      BY <2>1, NextPlaces
    <2>2. CASE packs' = RemoveAt(packs, i) \/ packs' = [packs EXCEPT ![i].written = TRUE]
      <3>1. packs \in Seq(Instances) /\ Once(packs) /\ i \in 1 .. Len(packs) /\ ~packs[i].written
        BY HeldPacket DEF Inv, Types, OnceInv
      <3>2. \A y \in Hands(packs') : y \in Hands(packs)
        BY <2>2, <3>1, HandsGiven
      <3>3. QED
        BY <3>2, NextPlaces DEF InHands
    <2>3. QED
      BY <2>1, <2>2
  <1> HIDE DEF x
  <1>8. CreatedInv'
    BY <1>1, <1>4, <1>7, CreatedKept DEF TidyInv
  <1>9. /\ \A q \in PoolIds : \A k \in 1 .. Len(pools[q]) : \E l \in 1 .. Len(pools'[q]) : pools'[q][l] = pools[q][k]
        /\ \A q \in PoolIds : \A k \in 1 .. Len(pools'[q]) : pools'[q][k][1] = q
    <2>0. pools' = ReleaseOf(x)
      BY DEF x
    <2>1. creationPool[ClassOf(x)] \in {NoPool, x[1]}
      BY <1>6 DEF TidyInv, OwnInv
    <2>2. CASE creationPool[ClassOf(x)] = NoPool
      BY <2>0, <2>2 DEF ReleaseOf, TidyInv, OwnInv
    <2>3. CASE creationPool[ClassOf(x)] = x[1] /\ x[1] # NoPool
      <3>1. pools' = PutIn(x[1], x)
        BY <2>0, <2>3 DEF ReleaseOf
      <3>2. Types /\ Distinct(pools, PoolIds) /\ OwnInv
        BY DEF Inv, OnceInv, TidyInv
      <3>3. /\ \A q \in PoolIds : \A k \in 1 .. Len(pools[q]) : k \in 1 .. Len(pools'[q]) /\ pools'[q][k] = pools[q][k]
            /\ \A q \in PoolIds : \A k \in 1 .. Len(pools'[q]) :
                  (k \in 1 .. Len(pools[q]) /\ pools'[q][k] = pools[q][k]) \/ (q = x[1] /\ pools'[q][k] = x)
        BY <1>6, <3>1, <3>2, PutStays
      <3>4. QED
        BY <3>2, <3>3 DEF OwnInv
    <2>4. QED
      BY <2>1, <2>2, <2>3
  <1>10. OwnInv'
    BY <1>7, <1>9 DEF TidyInv, OwnInv
  <1>11. Stay
    BY <1>9, StayIf DEF Inv
  <1>12. QED
    BY <1>3, <1>5, <1>8, <1>10, <1>11 DEF TidyInv

\* InitFactory, of the factory and of its older copy: no class has a pool yet,
\* and main holds nothing.
LEMMA BeforeMaking ==
    ASSUME Inv, TidyInv, OneFactoryAtATime(program), NEW op \in {"init", "init_copy"}, AtOperation(op)
    PROVE  /\ InHands = {} /\ \A c \in remaining : creationPool[c] = NoPool
           /\ Initialized => ~Starts(program)
           /\ ~Making => remaining = Classes
  <1>1. at \in 1 .. Len(program) /\ program[at].op = op /\ Initializes(program, at)
    BY Numbers DEF AtOperation, Inv, Initializes
  <1>2. \A i \in 1 .. at - 1 :
           /\ i \in 1 .. Len(program) /\ i < at
           /\ program[i].op = "create" => \E k \in i .. at : program[k].op = "clear_flags"
           /\ Initializes(program, i) => ~Starts(program) /\ \E k \in i .. at : program[k].op = "shutdown"
    BY <1>1 DEF OneFactoryAtATime
  <1>3. \A i \in 1 .. at - 1 : \A k \in i .. at : k \in i .. at - 1 \/ k = at
    BY <1>1
  <1>4. InHands = {}
    <2> SUFFICES ASSUME InHands # {}
                 PROVE  FALSE
      OBVIOUS
    <2>1. PICK i \in 1 .. at - 1 : program[i].op = "create" /\ \A k \in i .. at - 1 : program[k].op # "clear_flags"
      BY DEF TidyInv, CreatedInv
    <2>2. PICK k \in i .. at : program[k].op = "clear_flags"
      BY <1>2, <2>1
    <2>3. QED
      BY <1>1, <1>3, <2>1, <2>2
  <1>5. ASSUME NEW c \in remaining, creationPool[c] # NoPool
        PROVE  FALSE
    <2>1. c \in Classes
      BY DEF Inv, Types
    <2>2. PICK j \in 1 .. at - 1 : Initializes(program, j) /\ \A k \in j .. at - 1 : program[k].op # "shutdown"
      BY <1>5, <2>1 DEF TidyInv, CurrentInv
    <2>3. PICK k \in j .. at : program[k].op = "shutdown"
      BY <1>2, <2>2
    <2>4. QED
      BY <1>1, <1>3, <2>2, <2>3
  <1>6. Initialized => ~Starts(program)
    BY <1>2 DEF Initialized, Reached, Initializes
  <1>7. ~Making => remaining = Classes
    BY <1>1 DEF Making
  <1>8. QED
    BY <1>4, <1>5, <1>6, <1>7

\* InitFactory
LEMMA MakePoolTidies ==
    ASSUME Inv, Inv', TidyInv, OneFactoryAtATime(program), NEW c \in Classes, NEW op \in {"init", "init_copy"},
           NEW wanted \in BOOLEAN, MakePool(c, op, wanted)
    PROVE  TidyInv' /\ Stay
  <1> DEFINE g == IF remaining = Classes THEN inits + 1 ELSE inits
             p == <<c, g>>
  <1>1. /\ AtOperation(op) /\ NextClass(c) /\ LoopTurn(c) /\ program' = program
        /\ g <= MaxInits /\ inits' = g
        /\ UNCHANGED <<packs, freed, handler, inward, started>>
    BY DEF MakePool, networkVars
  <1>2. LoopInv' /\ op \in Operations /\ op \in Loops /\ op \notin {"clear_flags", "create", "shutdown"}
    BY DEF Inv, Operations, Loops
  <1>3. /\ at \in 1 .. Len(program) /\ program[at].op = op
        /\ (at' = at /\ remaining' = remaining \ {c}) \/ (at' = at + 1 /\ remaining' = Classes /\ remaining = {c})
        /\ \A o \in Operations : Reached(o)' <=> Reached(o) \/ (at' = at + 1 /\ o = op)
        /\ at # at + 1
    BY <1>1, <1>2, Progress
  <1>4. /\ InHands = {} /\ \A d \in remaining : creationPool[d] = NoPool
        /\ Initialized => ~Starts(program)
        /\ ~Making => remaining = Classes
    BY <1>1, BeforeMaking
  <1>5. c \in remaining /\ remaining \subseteq Classes
    BY <1>1 DEF NextClass, Inv, Types
  <1>6. inits \in Nat
    BY Numbers DEF Inv
  <1>7. Making <=> remaining # Classes
    BY <1>3 DEF Making
  <1>8. ~Initialized => g = 1
    BY <1>6, <1>7 DEF TidyInv, CountInv
  <1>9. inits <= g
    BY <1>6
  <1>10. p \in PoolIds /\ p # NoPool
    <2>1. g \in Nat /\ g >= 1
      <3>1. CASE remaining = Classes
        BY <1>6, <3>1
      <3>2. CASE remaining # Classes
        BY <1>6, <1>7, <3>2 DEF Inv, FreshInv
      <3>3. QED
        BY <3>1, <3>2
    <2>2. g \in 1 .. MaxInits
      BY <1>1, <2>1, Numbers DEF Inv
    <2>3. QED
      BY <2>2 DEF PoolIds, NoPool
  <1>11. c \notin remaining' \/ at' = at + 1
    BY <1>3
  <1>12. Making' => at' = at /\ remaining' = remaining \ {c}
    BY <1>3 DEF Making
  <1> HIDE DEF g, p
  <1>13. CountInv'
    <2>1. Initialized' <=> Initialized \/ at' = at + 1
      <3>1. "init" \in Operations /\ "init_copy" \in Operations
        BY DEF Operations
      <3>2. QED
        BY <1>3, <3>1 DEF Initialized
    <2>2. ~Initialized' => Making' /\ g = 1
      <3> SUFFICES ASSUME ~Initialized'
                   PROVE  Making' /\ g = 1
        OBVIOUS
      <3>1. ~Initialized /\ at' = at /\ remaining' = remaining \ {c}
        BY <1>3, <2>1
      <3>2. remaining' # Classes
        BY <1>5, <3>1
      <3>3. Making'
        BY <1>1, <1>3, <3>1, <3>2 DEF Making
      <3>4. QED
        BY <1>8, <3>1, <3>3
    <2>3. Starts(program) => g <= 1
      BY <1>4, <1>8
    <2>4. QED
      BY <1>1, <2>2, <2>3 DEF TidyInv, CountInv, Starts
  <1>14. InHands' = {}
    BY <1>1, <1>4 DEF InHands, Hands
  <1>15. CreatedInv'
    BY <1>14 DEF CreatedInv
  <1>16. /\ \A d \in Classes : d # c => creationPool'[d] = creationPool[d]
         /\ creationPool'[c] \in {p, NoPool}
         /\ pools' = pools \/ pools' = [pools EXCEPT ![p] = Filled(p)]
         /\ \A d \in Classes : creationPool[d] # NoPool => creationPool'[d] = creationPool[d]
    <2>1. CASE c \in allocationMethods /\ wanted
      <3>1. pools' = [pools EXCEPT ![p] = Filled(p)] /\ creationPool' = [creationPool EXCEPT ![c] = p]
        BY <2>1 DEF MakePool, g, p
      <3>2. QED
        BY <1>4, <1>5, <3>1 DEF Inv, Types
    <2>2. CASE ~(c \in allocationMethods /\ wanted)
      <3>1. UNCHANGED <<pools, creationPool>>
        BY <2>2 DEF MakePool
      <3>2. QED
        BY <1>4, <1>5, <3>1
    <2>3. QED
      BY <2>1, <2>2
  <1>17. CurrentInv'
    <2>1. at' <= Len(program') /\ program'[at'].op = "shutdown" => Classes \ remaining' = {}
      BY <1>1, <1>2, <1>3
    <2>2. ASSUME NEW d \in Classes, creationPool'[d] # NoPool
          PROVE  /\ creationPool'[d][1] = d /\ creationPool'[d][2] <= inits'
                 /\ \/ Making' /\ d \notin remaining'
                    \/ \E j \in 1 .. at' - 1 : /\ Initializes(program', j)
                                              /\ \A k \in j .. at' - 1 : program'[k].op # "shutdown"
      <3>1. creationPool'[d][1] = d /\ creationPool'[d][2] <= inits'
        <4>1. CASE d = c
          BY <1>1, <1>16, <2>2, <4>1, SMT DEF p, g, Inv, Types
        <4>2. CASE d # c
          <5>1. creationPool[d] \in PoolIds /\ creationPool[d][1] = d /\ creationPool[d][2] <= inits
            BY <1>16, <2>2, <4>2 DEF TidyInv, CurrentInv, Inv, Types
          <5>2. creationPool[d][2] \in Nat
            BY <5>1, Numbers DEF PoolIds, Inv
          <5>3. g \in Nat
            BY <1>6 DEF g
          <5>4. QED
            BY <1>1, <1>6, <1>9, <1>16, <4>2, <5>1, <5>2, <5>3
        <4>3. QED
          BY <4>1, <4>2
      <3>2. CASE at' = at + 1
        <4>1. at \in 1 .. at' - 1 /\ \A k \in at .. at' - 1 : k = at
          BY <1>3, <3>2
        <4>2. Initializes(program', at) /\ program'[at].op # "shutdown"
          BY <1>1, <1>2, <1>3 DEF Initializes
        <4>3. QED
          BY <1>1, <3>1, <4>1, <4>2
      <3>3. CASE at' = at /\ remaining' = remaining \ {c}
        <4>1. remaining' # Classes
          BY <1>5, <3>3
        <4>2. Making'
          BY <1>1, <1>3, <3>3, <4>1 DEF Making
        <4>3. CASE d \notin remaining'
          BY <3>1, <4>2, <4>3
        <4>4. CASE d \in remaining'
          <5>1. d # c /\ d \in remaining
            BY <3>3, <4>4
          <5>2. QED
            BY <1>4, <1>16, <2>2, <5>1
        <4>5. QED
          BY <4>3, <4>4
      <3>4. QED
        BY <1>3, <3>2, <3>3
    <2>3. QED
      BY <2>1, <2>2 DEF CurrentInv
  <1>18. ASSUME NEW x, x[1] = p
         PROVE  x \notin Pooled
    <2> SUFFICES ASSUME x \in Pooled
                 PROVE  FALSE
      OBVIOUS
    <2>1. x \in Packets /\ x \in Present
      BY DEF Pooled, Members, Present
    <2>2. Made(x) = g /\ ClassOf(x) = c
      BY <1>18 DEF p, Made, ClassOf
    <2>3. Made(x) <= inits /\ (Making /\ Made(x) = inits => ClassOf(x) \notin remaining)
      BY <2>1 DEF Inv, FreshInv
    <2>4. QED
      BY <1>5, <1>6, <1>7, <2>2, <2>3 DEF g
  <1>19. \A q \in PoolIds : q # p => pools'[q] = pools[q]
    BY <1>16 DEF Inv, Types
  <1>20. pools'[p] = pools[p] \/ pools'[p] = Filled(p)
    BY <1>10, <1>16 DEF Inv, Types
  <1>21. OwnInv'
    <2>1. \A i \in 1 .. Len(Filled(p)) : Filled(p)[i][1] = p
      BY <1>10, FilledPool DEF Elements
    <2>2. \A q \in PoolIds : \A i \in 1 .. Len(pools'[q]) : pools'[q][i][1] = q
      <3>1. \A q \in PoolIds : \A i \in 1 .. Len(pools[q]) : pools[q][i][1] = q
        BY DEF TidyInv, OwnInv
      <3>2. \A i \in 1 .. Len(pools'[p]) : pools'[p][i][1] = p
        BY <1>10, <1>20, <2>1, <3>1
      <3>3. \A q \in PoolIds : q # p => \A i \in 1 .. Len(pools'[q]) : pools'[q][i][1] = q
        BY <1>19, <3>1
      <3>4. QED
        BY <3>2, <3>3
    <2>3. QED
      BY <1>1, <1>14, <2>2 DEF TidyInv, OwnInv
  <1>22. Stay
    <2> SUFFICES ASSUME NEW q \in LivePools, NEW x \in Packets, InPool(q, x), q \notin freed'
                 PROVE  Places(x)' # {}
      BY DEF Stay
    <2>1. PICK d \in Classes : q = creationPool[d] /\ q \in PoolIds
      BY DEF LivePools, Inv, Types
    <2>2. q # NoPool
      BY DEF LivePools
    <2>3. q \in LivePools'
      BY <1>16, <2>1, <2>2 DEF LivePools
    <2>4. PICK i \in 1 .. Len(pools[q]) : pools[q][i] = x
      BY DEF InPool
    <2>5. q # p
      <3>1. x \in Pooled /\ x[1] = q
        BY <2>1, <2>4 DEF Pooled, Members, TidyInv, OwnInv
      <3>2. QED
        BY <1>18, <3>1
    <2>6. pools'[q] = pools[q]
      BY <1>19, <2>1, <2>5
    <2>7. \E l \in 1 .. Len(pools'[q]) : pools'[q][l] = x
      BY <2>4, <2>6
    <2>8. QED
      BY <2>3, <2>7, StillThere DEF Inv
  <1>23. QED
    BY <1>13, <1>15, <1>17, <1>21, <1>22 DEF TidyInv

\* What main does.
LEMMA MainKeepsTidy ==
    ASSUME Inv, Inv', TidyInv, OneFactoryAtATime(program), MainStep
    PROVE  TidyInv' /\ Stay
  <1>1. ASSUME NEW c \in Classes, Register(c)
        PROVE  TidyInv' /\ Stay
    <2>1. "register" \in {"register", "start", "clear_flags"} /\ "register" \in Loops
      BY DEF Loops
    <2>2. /\ AtOperation("register") /\ NextClass(c) /\ LoopTurn(c)
          /\ UNCHANGED <<program, packs, poolVars, handler, inward, started>>
      BY <1>1 DEF Register, networkVars
    <2>3. QED
      BY <2>1, <2>2, PlainTidies
  <1>2. CASE ClearFlags \/ StartNetwork
    <2>1. PICK c : c \in Classes
      BY Numbers DEF Inv
    <2>2. "clear_flags" \notin Loops /\ "start" \notin Loops
      BY DEF Loops
    <2>3. CASE ClearFlags
      BY <2>1, <2>2, <2>3, PlainTidies DEF ClearFlags, networkVars
    <2>4. CASE StartNetwork
      BY <2>1, <2>2, <2>4, PlainTidies DEF StartNetwork
    <2>5. QED
      BY <1>2, <2>3, <2>4
  <1>3. ASSUME NEW c \in Classes, InitFactory(c) \/ InitCopy(c)
        PROVE  TidyInv' /\ Stay
    <2>1. (creationPool[c] = NoPool) \in BOOLEAN /\ TRUE \in BOOLEAN
      OBVIOUS
    <2>2. QED
      BY <1>3, <2>1, MakePoolTidies DEF InitFactory, InitCopy
  <1>4. ASSUME NEW c \in Classes, Shutdown(c) \/ ShutdownCopy(c)
        PROVE  TidyInv' /\ Stay
    <2>1. ("shutdown" = "shutdown") = TRUE /\ ("shutdown_copy" = "shutdown") = FALSE
      OBVIOUS
    <2>2. QED
      BY <1>4, <2>1, DeletePoolTidies DEF Shutdown, ShutdownCopy
  <1>5. ASSUME NEW i \in Held, MainRelease(i)
        PROVE  TidyInv' /\ Stay
    <2>1. /\ AtOperation("release") /\ Advance /\ pools' = ReleaseOf(packs[i].packet)
          /\ UNCHANGED <<program, creationPool, freed, inits, handler, inward, started>>
          /\ \/ packs' = RemoveAt(packs, i)
             \/ packs' = packs /\ creationPool[ClassOf(packs[i].packet)] = NoPool
      BY <1>5 DEF MainRelease, HandleAfterRelease, networkVars
    <2>2. QED
      BY <2>1, GivenTidies
  <1>6. ASSUME NEW i \in Held, Flush(i)
        PROVE  TidyInv' /\ Stay
    <2>1. /\ AtOperation("flush") /\ Advance /\ pools' = ReleaseOf(packs[i].packet)
          /\ UNCHANGED <<program, creationPool, freed, inits, handler, inward, started>>
          /\ packs' = [packs EXCEPT ![i].written = TRUE]
      BY <1>6 DEF Flush, networkVars
    <2>2. QED
      BY <2>1, GivenTidies
  <1>7. QED
    BY <1>1, <1>2, <1>3, <1>4, <1>5, <1>6, MainCreateTidies DEF MainStep

\* Nothing has happened yet.
LEMMA InitTidy == Init => TidyInv
  <1> SUFFICES ASSUME Init
               PROVE  TidyInv
    OBVIOUS
  <1> USE DEF Init
  <1>1. ~Initialized /\ ~Making /\ at = 1
    BY DEF Initialized, Reached, Making
  <1>2. CountInv
    BY <1>1 DEF CountInv
  <1>3. InHands = {}
    BY DEF InHands, Hands
  <1>4. CreatedInv
    BY <1>3 DEF CreatedInv
  <1>5. CurrentInv
    BY DEF CurrentInv
  <1>6. OwnInv
    BY <1>3 DEF OwnInv, Idle
  <1>7. QED
    BY <1>2, <1>4, <1>5, <1>6 DEF TidyInv

\* What holds while one factory is used at a time, and what no step does then.
LEMMA TidyStep ==
    ASSUME Inv, Inv', OneFactoryAtATime(program) => TidyInv, [Next]_vars
    PROVE  /\ program' = program
           /\ OneFactoryAtATime(program) => TidyInv' /\ (Stay \/ UNCHANGED vars)
  <1>1. program' = program
    BY DEF Next, MainStep, NetworkStep, Register, InitFactory, InitCopy, MakePool, Shutdown, ShutdownCopy,
           DeletePool, MainCreate, MainRelease, Flush, ClearFlags, StartNetwork, FindPool, GetFromPool,
           DequeMessage, PutIntoPool, Disconnect, vars, mainVars
  <1> SUFFICES ASSUME OneFactoryAtATime(program), TidyInv
               PROVE  TidyInv' /\ (Stay \/ UNCHANGED vars)
    BY <1>1
  <1>2. CASE MainStep
    BY <1>2, MainKeepsTidy
  <1>3. ASSUME NEW n \in Networks, NetworkStep(n)
        PROVE  TidyInv' /\ Stay
    BY <1>3, NetworkKeepsTidy
  <1>4. CASE UNCHANGED vars
    <2>1. UNCHANGED <<program, at, remaining, packs, creationPool, pools, freed, inits, started, handler, inward>>
      BY <1>4 DEF vars, mainVars, poolVars, networkVars
    <2>2. CountInv'
      BY <2>1 DEF TidyInv, CountInv, Initialized, Reached, Making, Starts
    <2>3. CreatedInv' /\ CurrentInv' /\ OwnInv'
      BY <2>1 DEF TidyInv, CreatedInv, CurrentInv, OwnInv, InHands, Hands, Making, Initializes
    <2>4. QED
      BY <1>4, <2>2, <2>3 DEF TidyInv
  <1>5. QED
    BY <1>2, <1>3, <1>4 DEF Next

\* It holds for ever.
LEMMA TidyInvariance == Spec => [](OneFactoryAtATime(program) => TidyInv)
  <1>1. Inv /\ Inv' /\ (OneFactoryAtATime(program) => TidyInv) /\ [Next]_vars
        => (OneFactoryAtATime(program) => TidyInv)'
    BY TidyStep DEF OneFactoryAtATime, Initializes, Starts
  <1>2. QED
    BY <1>1, InitTidy, Invariance, PTL DEF Spec

\* A packet leaves a pool that is in use for the hands of a caller of Create
\* only: no Release ever finds its pool full and destroys the packet that has
\* waited longest, for every program that gives up what it created before it
\* calls InitFactory, and calls it again after Shutdown and without network
\* threads.  The programs of the repository do.
THEOREM ReleasesDestroyNothing ==
    ASSUME \A p \in Programs : OneFactoryAtATime(p)
    PROVE  Spec => PacketsLeavePoolsByCreate
  <1>1. Inv /\ Inv' /\ (OneFactoryAtATime(program) => TidyInv) /\ [Next]_vars
        => [\A p \in LivePools, x \in Packets : InPool(p, x) /\ p \notin freed' => Places(x)' # {}]_vars
    <2>1. Inv => OneFactoryAtATime(program)
      BY DEF Inv, Types
    <2>2. QED
      BY <2>1, TidyStep DEF Stay
  <1>2. QED
    BY <1>1, Invariance, TidyInvariance, PTL DEF Spec, PacketsLeavePoolsByCreate

-----------------------------------------------------------------------------
(* While a program without network threads keeps the cycle of the factory, *)
(* what it has created and not given back tells what its pools still have. *)

\* The operations from the r-th on, of those main has done, are none of ops.
Since(r, ops) == \A k \in r .. at - 1 : program[k].op \notin ops

\* The operation r has registered the classes.
RegisteredAt(r) == r \in 1 .. at - 1 /\ program[r].op = "register"

\* A flag without its entries tells of a Shutdown since which no flag was
\* cleared; register has filled both maps, up to where its loop is.
Entered(c) == c \in methods /\ c \in allocationMethods
EnteredInv ==
    /\ \A c \in Classes : typeRegistered[c] /\ ~Entered(c) =>
          \E s \in 1 .. at - 1 : program[s].op = "shutdown" /\ Since(s, {"clear_flags"})
    /\ \A r : RegisteredAt(r) /\ Since(r, {"shutdown"}) => \A c \in Classes : Entered(c)
    /\ at <= Len(program) /\ program[at].op = "register" => \A c \in Classes \ remaining : Entered(c)

\* All packets that were made for the pool of a class are in pools or in the
\* hands of main.
Whole(c) == /\ creationPool[c] # NoPool
            /\ \A i \in 1 .. PoolSize : <<creationPool[c], i>> \in Pooled \cup InHands

\* Main holds what it has created and not given.
HeldOf(c) == {x \in InHands : ClassOf(x) = c}
Counted(j) ==
    /\ Cardinality(InHands) + Cardinality(Gives(program, j, at))
          <= Cardinality(Creates(program, j, at, Classes \cup {AnyClass}))
    /\ \A c \in Classes : Cardinality(HeldOf(c)) <= Cardinality(Creates(program, j, at, {AnyClass, c}))

\* Main is between an InitFactory, after the r-th operation registered the
\* classes, and what ends the cycle; or at the InitFactory.
Session(r, j) == /\ RegisteredAt(r) /\ Since(r, EndsCycle)
                 /\ j \in r + 1 .. at - 1 /\ Initializes(program, j)
Preparing(r) == /\ RegisteredAt(r) /\ Since(r, EndsCycle)
                /\ at <= Len(program) /\ Initializes(program, at)

CycleInv ==
    /\ IsFiniteSet(InHands)
    /\ \A r, j : Session(r, j) => (\A c \in Classes : Whole(c)) /\ Counted(j)
    /\ \A r : Preparing(r) => \A c \in Classes \ remaining : Whole(c)

TestsInv == ~Starts(program) /\ KeepsTheCycle(program) => faults = {} /\ EnteredInv /\ CycleInv

\* Where a program without network threads keeps the cycle, the invariants of
\* the sections above, and of this one.
Cycling == /\ ~Starts(program) /\ KeepsTheCycle(program)
           /\ Inv /\ TidyInv /\ faults = {} /\ EnteredInv /\ CycleInv

\* An operation before this one ended what it ends.
LEMMA SinceStep ==
    ASSUME NEW r \in Nat, NEW ops, program' = program, at \in Nat, at' = at \/ (at' = at + 1 /\ r <= at)
    PROVE  /\ Since(r, ops)' => Since(r, ops)
           /\ at' = at => (Since(r, ops)' <=> Since(r, ops))
           /\ at' = at + 1 => (Since(r, ops)' <=> Since(r, ops) /\ program[at].op \notin ops)
  <1>1. CASE at' = at
    <2>1. at # at + 1
      OBVIOUS
    <2>2. QED
      BY <1>1, <2>1 DEF Since
  <1>2. CASE at' = at + 1 /\ r <= at
    <2>1. \A k : k \in r .. at' - 1 <=> k \in r .. at - 1 \/ k = at
      BY <1>2
    <2>2. at # at + 1
      OBVIOUS
    <2>3. QED
      BY <1>2, <2>1, <2>2 DEF Since
  <1>3. QED
    BY <1>1, <1>2

\* The same, of an operation that registered the classes.
LEMMA RegisteredStep ==
    ASSUME program' = program, at \in Nat, at' = at \/ at' = at + 1, NEW r, RegisteredAt(r)'
    PROVE  /\ r \in Nat /\ r <= at
           /\ RegisteredAt(r) \/ (r = at /\ at' = at + 1 /\ program[at].op = "register")
  BY DEF RegisteredAt

\* The operations that touch neither the maps nor, but for all, the flags.
LEMMA EnteredKept ==
    ASSUME EnteredInv, program' = program, at \in Nat, remaining' = Classes \/ at' = at, at' = at \/ at' = at + 1,
           program[at].op \notin {"register", "shutdown"}, UNCHANGED <<methods, allocationMethods>>,
           \/ typeRegistered' = typeRegistered /\ program[at].op # "clear_flags"
           \/ typeRegistered' = [c \in Classes |-> FALSE]
    PROVE  EnteredInv'
  <1>1. \A c : Entered(c)' <=> Entered(c)
    BY DEF Entered
  <1>2. ASSUME NEW c \in Classes, typeRegistered'[c], ~Entered(c)'
        PROVE  \E s \in 1 .. at' - 1 : program'[s].op = "shutdown" /\ Since(s, {"clear_flags"})'
    <2>1. typeRegistered[c] /\ ~Entered(c) /\ program[at].op # "clear_flags"
      BY <1>1, <1>2
    <2>2. PICK s \in 1 .. at - 1 : program[s].op = "shutdown" /\ Since(s, {"clear_flags"})
      BY <2>1 DEF EnteredInv
    <2>3. s \in Nat /\ s <= at /\ s \in 1 .. at' - 1
      BY <2>2
    <2>4. Since(s, {"clear_flags"})'
      BY <2>1, <2>2, <2>3, SinceStep
    <2>5. QED
      BY <2>2, <2>3, <2>4
  <1>3. ASSUME NEW r, RegisteredAt(r)', Since(r, {"shutdown"})'
        PROVE  \A c \in Classes : Entered(c)'
    <2>1. r \in Nat /\ r <= at /\ RegisteredAt(r)
      BY <1>3, RegisteredStep
    <2>2. Since(r, {"shutdown"})
      BY <1>3, <2>1, SinceStep
    <2>3. QED
      BY <1>1, <2>1, <2>2 DEF EnteredInv
  <1>4. at' <= Len(program') /\ program'[at'].op = "register" => \A c \in Classes \ remaining' : Entered(c)'
    OBVIOUS
  <1>5. QED
    BY <1>2, <1>3, <1>4 DEF EnteredInv

\* Register: no flag tells of a Shutdown any more, so that it fills both maps.
LEMMA RegisterEnters ==
    ASSUME Cycling, NEW c \in Classes, Register(c), LoopInv'
    PROVE  EnteredInv'
  <1>1. /\ AtOperation("register") /\ NextClass(c) /\ LoopTurn(c) /\ "register" \in Loops /\ program' = program
    BY DEF Register, Loops
  <1>2. /\ at \in 1 .. Len(program) /\ program[at].op = "register"
        /\ (at' = at /\ remaining' = remaining \ {c}) \/ (at' = at + 1 /\ remaining' = Classes /\ remaining = {c})
    BY <1>1, Progress DEF Cycling
  <1>3. \A d \in Classes : typeRegistered[d] => Entered(d)
    <2> SUFFICES ASSUME NEW d \in Classes, typeRegistered[d], ~Entered(d)
                 PROVE  FALSE
      OBVIOUS
    <2>1. PICK s \in 1 .. at - 1 : program[s].op = "shutdown" /\ Since(s, {"clear_flags"})
      BY DEF Cycling, EnteredInv
    <2>2. s \in 1 .. Len(program) /\ s < at
      BY <1>2
    <2>3. PICK k \in s .. at : program[k].op = "clear_flags"
      BY <1>2, <2>1, <2>2 DEF Cycling, KeepsTheCycle, RegistersAnew
    <2>4. k = at \/ k \in s .. at - 1
      BY <1>2
    <2>5. QED
      BY <1>2, <2>1, <2>3, <2>4 DEF Since
  <1>4. Types
    BY DEF Cycling, Inv
  <1>5. Entered(c)' /\ \A d \in Classes : Entered(d) => Entered(d)'
    <2>1. CASE typeRegistered[c]
      BY <1>3, <2>1 DEF Register, registryVars, Entered
    <2>2. CASE ~typeRegistered[c]
      BY <2>2 DEF Register, Entered
    <2>3. QED
      BY <2>1, <2>2
  <1>6. \A d \in Classes : typeRegistered'[d] => Entered(d)'
    <2>1. \A d \in Classes : d # c => typeRegistered'[d] = typeRegistered[d]
      BY <1>4 DEF Register, registryVars, Types
    <2>2. QED
      BY <1>3, <1>5, <2>1
  <1>7. \A d \in Classes \ remaining : Entered(d)
    BY <1>2 DEF Cycling, EnteredInv
  <1>8. ASSUME NEW r, RegisteredAt(r)', Since(r, {"shutdown"})'
        PROVE  \A d \in Classes : Entered(d)'
    <2>1. /\ r \in Nat /\ r <= at
          /\ RegisteredAt(r) \/ (r = at /\ at' = at + 1)
      BY <1>1, <1>2, <1>8, RegisteredStep
    <2>2. Since(r, {"shutdown"})
      BY <1>1, <1>2, <1>8, <2>1, SinceStep
    <2>3. CASE RegisteredAt(r)
      BY <1>5, <2>2, <2>3 DEF Cycling, EnteredInv
    <2>4. CASE at' = at + 1
      BY <1>2, <1>5, <1>7, <2>4
    <2>5. QED
      BY <2>1, <2>3, <2>4
  <1>9. \A d \in Classes \ remaining' : Entered(d)'
    BY <1>2, <1>5, <1>7
  <1>10. QED
    BY <1>6, <1>8, <1>9 DEF EnteredInv

\* Shutdown clears the maps in its last turn, and leaves the flags.
LEMMA ShutdownEnters ==
    ASSUME Cycling, NEW c \in Classes, Shutdown(c), LoopInv'
    PROVE  EnteredInv'
  <1>1. /\ AtOperation("shutdown") /\ NextClass(c) /\ LoopTurn(c) /\ "shutdown" \in Loops
        /\ UNCHANGED <<program, typeRegistered>>
        /\ remaining = {c} \/ UNCHANGED <<methods, allocationMethods>>
    BY DEF Shutdown, DeletePool, Loops
  <1>2. /\ at \in 1 .. Len(program) /\ program[at].op = "shutdown"
        /\ (at' = at /\ remaining' = remaining \ {c}) \/ (at' = at + 1 /\ remaining' = Classes /\ remaining = {c})
    BY <1>1, Progress DEF Cycling
  <1>3. CASE at' = at
    <2>1. UNCHANGED <<methods, allocationMethods>>
      BY <1>1, <1>2, <1>3 DEF LoopTurn
    <2>2. \A d : Entered(d)' <=> Entered(d)
      BY <2>1 DEF Entered
    <2>3. \A r, ops : (Since(r, ops)' <=> Since(r, ops)) /\ (RegisteredAt(r)' <=> RegisteredAt(r))
      BY <1>1, <1>3 DEF Since, RegisteredAt
    <2>4. QED
      BY <1>1, <1>2, <1>3, <2>2, <2>3 DEF Cycling, EnteredInv
  <1>4. CASE at' = at + 1 /\ remaining' = Classes
    <2>0. PICK s \in Nat : s = at
      BY <1>2
    <2>1. s \in 1 .. at' - 1 /\ Since(s, {"clear_flags"})'
      BY <1>1, <1>2, <1>4, <2>0 DEF Since
    <2>2. \A r : RegisteredAt(r)' => ~Since(r, {"shutdown"})'
      <3> SUFFICES ASSUME NEW r, RegisteredAt(r)', Since(r, {"shutdown"})'
                   PROVE  FALSE
        OBVIOUS
      <3>1. r \in Nat /\ r <= at
        BY <1>1, <1>2, <1>4, RegisteredStep
      <3>2. QED
        BY <1>1, <1>2, <1>4, <3>1, SinceStep
    <2>3. \E d \in 1 .. at' - 1 : program'[d].op = "shutdown" /\ Since(d, {"clear_flags"})'
      <3>1. program'[s].op = "shutdown"
        BY <1>1, <1>2, <2>0
      <3>2. QED
        BY <2>1, <3>1
    <2>4. Classes \ remaining' = {}
      BY <1>4
    <2>5. QED
      BY <2>2, <2>3, <2>4 DEF EnteredInv
  <1>5. QED
    BY <1>2, <1>3, <1>4

\* What main has created and given since an operation, one operation later.
LEMMA CreatesCount ==
    ASSUME NEW p, NEW i \in Nat, NEW j \in Nat, j <= i, NEW cs
    PROVE  /\ IsFiniteSet(Creates(p, j, i, cs)) /\ Cardinality(Creates(p, j, i, cs)) \in Nat
           /\ p[i].op = "create" /\ p[i].class \in cs =>
                 Cardinality(Creates(p, j, i + 1, cs)) = Cardinality(Creates(p, j, i, cs)) + 1
           /\ ~(p[i].op = "create" /\ p[i].class \in cs) => Creates(p, j, i + 1, cs) = Creates(p, j, i, cs)
  <1> DEFINE S == Creates(p, j, i, cs)
  <1>1. IsFiniteSet(j .. i - 1) /\ S \subseteq j .. i - 1
    BY FS_Interval DEF Creates
  <1>2. IsFiniteSet(S) /\ Cardinality(S) \in Nat
    BY <1>1, FS_Subset, FS_CardinalityType
  <1>3. i \notin S /\ \A k : k \in j .. (i + 1) - 1 <=> k \in j .. i - 1 \/ k = i
    BY <1>1
  <1>4. ASSUME p[i].op = "create", p[i].class \in cs
        PROVE  Cardinality(Creates(p, j, i + 1, cs)) = Cardinality(S) + 1
    <2>1. Creates(p, j, i + 1, cs) = S \cup {i}
      BY <1>3, <1>4 DEF Creates
    <2>2. QED
      BY <1>2, <1>3, <2>1, FS_AddElement
  <1>5. ASSUME ~(p[i].op = "create" /\ p[i].class \in cs)
        PROVE  Creates(p, j, i + 1, cs) = S
    BY <1>3, <1>5 DEF Creates
  <1>6. QED
    BY <1>2, <1>4, <1>5

LEMMA GivesCount ==
    ASSUME NEW p, NEW i \in Nat, NEW j \in Nat, j <= i
    PROVE  /\ IsFiniteSet(Gives(p, j, i)) /\ Cardinality(Gives(p, j, i)) \in Nat
           /\ p[i].op \in {"release", "flush"} => Cardinality(Gives(p, j, i + 1)) = Cardinality(Gives(p, j, i)) + 1
           /\ p[i].op \notin {"release", "flush"} => Gives(p, j, i + 1) = Gives(p, j, i)
  <1> DEFINE S == Gives(p, j, i)
  <1>1. IsFiniteSet(j .. i - 1) /\ S \subseteq j .. i - 1
    BY FS_Interval DEF Gives
  <1>2. IsFiniteSet(S) /\ Cardinality(S) \in Nat
    BY <1>1, FS_Subset, FS_CardinalityType
  <1>3. i \notin S /\ \A k : k \in j .. (i + 1) - 1 <=> k \in j .. i - 1 \/ k = i
    BY <1>1
  <1>4. ASSUME p[i].op \in {"release", "flush"}
        PROVE  Cardinality(Gives(p, j, i + 1)) = Cardinality(S) + 1
    <2>1. Gives(p, j, i + 1) = S \cup {i}
      BY <1>3, <1>4 DEF Gives
    <2>2. QED
      BY <1>2, <1>3, <2>1, FS_AddElement
  <1>5. ASSUME p[i].op \notin {"release", "flush"}
        PROVE  Gives(p, j, i + 1) = S
    BY <1>3, <1>5 DEF Gives
  <1>6. QED
    BY <1>2, <1>4, <1>5

\* Main holds what some of its creations gave it and has not been given away.
LEMMA HeldFinite ==
    ASSUME IsFiniteSet(InHands)
    PROVE  /\ Cardinality(InHands) \in Nat
           /\ \A c : IsFiniteSet(HeldOf(c)) /\ Cardinality(HeldOf(c)) \in Nat /\ HeldOf(c) \subseteq InHands
  BY FS_Subset, FS_CardinalityType DEF HeldOf

\* The cycle that main is in was the same one operation before, or begins.
LEMMA SessionStep ==
    ASSUME program' = program, at \in 1 .. Len(program), Len(program) \in Nat, at' = at \/ at' = at + 1,
           NEW r, NEW j, Session(r, j)'
    PROVE  /\ r \in Nat /\ j \in Nat /\ j <= at
           /\ \/ Session(r, j) /\ (at' = at \/ program[at].op \notin EndsCycle)
              \/ j = at /\ at' = at + 1 /\ Preparing(r)
  <1>1. RegisteredAt(r)' /\ Since(r, EndsCycle)' /\ j \in r + 1 .. at' - 1 /\ Initializes(program, j)
    BY DEF Session
  <1>2. at \in Nat
    OBVIOUS
  <1>3. r \in Nat /\ r < at /\ RegisteredAt(r)
    <2>1. r \in Nat /\ r <= at /\ (RegisteredAt(r) \/ (r = at /\ at' = at + 1))
      BY <1>1, <1>2, RegisteredStep
    <2>2. r # at
      BY <1>1, <2>1
    <2>3. QED
      BY <2>1, <2>2
  <1>4. Since(r, EndsCycle) /\ (at' = at \/ program[at].op \notin EndsCycle)
    BY <1>1, <1>2, <1>3, SinceStep
  <1>5. j \in Nat /\ j <= at /\ (j \in r + 1 .. at - 1 \/ (j = at /\ at' = at + 1))
    BY <1>1, <1>2, <1>3
  <1>6. QED
    BY <1>1, <1>3, <1>4, <1>5 DEF Session, Preparing

\* What main does besides making pools, creating packets and giving them up.
LEMMA CycleKept ==
    ASSUME Cycling, program' = program, at \in 1 .. Len(program),
           at' = at \/ (at' = at + 1 /\ remaining' = Classes),
           program[at].op \notin {"init", "init_copy", "create", "release", "flush"},
           InHands' \subseteq InHands,
           \/ program[at].op \in EndsCycle /\ at' = at + 1
           \/ UNCHANGED <<pools, packs, creationPool>>
    PROVE  CycleInv'
  <1>1. Len(program) \in Nat /\ at \in Nat /\ ~Initializes(program, at) /\ at # at + 1
    BY Numbers DEF Cycling, Inv, Initializes
  <1>2. IsFiniteSet(InHands)'
    BY FS_Subset DEF Cycling, CycleInv
  <1>3. ASSUME NEW r, Preparing(r)'
        PROVE  Classes \ remaining' = {}
    BY <1>1, <1>3 DEF Preparing
  <1>4. ASSUME NEW r, NEW j, Session(r, j)'
        PROVE  (\A c \in Classes : Whole(c)') /\ Counted(j)'
    <2>1. /\ j \in Nat /\ j <= at /\ Session(r, j) /\ (at' = at \/ program[at].op \notin EndsCycle)
      BY <1>1, <1>4, SessionStep DEF Preparing
    <2>2. UNCHANGED <<pools, packs, creationPool>>
      BY <1>1, <2>1
    <2>3. (\A c \in Classes : Whole(c)) /\ Counted(j)
      BY <2>1 DEF Cycling, CycleInv
    <2>4. \A c \in Classes : Whole(c)'
      BY <2>2, <2>3 DEF Whole, Pooled, Members, InHands, Hands
    <2>5. \A cs : Creates(program', j, at', cs) = Creates(program, j, at, cs)
      BY <1>1, <2>1, CreatesCount
    <2>6. Gives(program', j, at') = Gives(program, j, at)
      BY <1>1, <2>1, GivesCount
    <2>7. InHands' = InHands /\ \A c : HeldOf(c)' = HeldOf(c)
      BY <2>2 DEF HeldOf, InHands, Hands
    <2>8. Counted(j)'
      BY <2>3, <2>5, <2>6, <2>7 DEF Counted
    <2>9. QED
      BY <2>4, <2>8
  <1>5. QED
    BY <1>2, <1>3, <1>4 DEF CycleInv

\* What main does not give up it still holds.
LEMMA HandsLeft ==
    ASSUME NEW ps \in Seq(Instances), NEW k \in 1 .. Len(ps), NEW y \in Hands(ps), y # ps[k].packet,
           NEW qs, qs = RemoveAt(ps, k) \/ qs = [ps EXCEPT ![k].written = TRUE]
    PROVE  y \in Hands(qs)
  <1>1. PICK i \in 1 .. Len(ps) : ps[i] = Unwritten(y)
    BY DEF Hands
  <1>2. y \in Packets /\ i # k /\ Len(ps) \in Nat
    BY <1>1 DEF Hands, Unwritten
  <1>3. CASE qs = RemoveAt(ps, k)
    <2>1. /\ Len(qs) = Len(ps) - 1
          /\ \A j \in 1 .. Len(qs) : qs[j] = ps[IF j < k THEN j ELSE j + 1]
      BY <1>3, RemoveAtElements
    <2>2. PICK j \in 1 .. Len(qs) : i = IF j < k THEN j ELSE j + 1
      <3>1. CASE i < k
        BY <1>2, <2>1, <3>1
      <3>2. CASE i > k
        <4>1. i - 1 \in 1 .. Len(qs) /\ i = (IF i - 1 < k THEN i - 1 ELSE (i - 1) + 1)
          BY <1>2, <2>1, <3>2
        <4>2. QED
          BY <4>1
      <3>3. QED
        BY <1>2, <3>1, <3>2
    <2>3. qs[j] = Unwritten(y)
      BY <1>1, <2>1, <2>2
    <2>4. QED
      BY <1>2, <2>3 DEF Hands
  <1>4. CASE qs = [ps EXCEPT ![k].written = TRUE]
    <2>1. Len(qs) = Len(ps) /\ qs[i] = ps[i]
      BY <1>2, <1>4
    <2>2. QED
      BY <1>1, <1>2, <2>1 DEF Hands
  <1>5. QED
    BY <1>3, <1>4

\* Release, and what a TCPClient does with what is written to it: the class
\* has its pool, which gets the packet.
LEMMA GivenCycles ==
    ASSUME Cycling, NEW i \in Held, NEW op \in {"release", "flush"}, AtOperation(op),
           program' = program, at \in 1 .. Len(program), at' = at + 1, remaining' = Classes,
           creationPool' = creationPool, pools' = ReleaseOf(packs[i].packet),
           \/ packs' = RemoveAt(packs, i)
           \/ packs' = [packs EXCEPT ![i].written = TRUE]
           \/ packs' = packs /\ creationPool[ClassOf(packs[i].packet)] = NoPool
    PROVE  CycleInv'
  <1> DEFINE x == packs[i].packet
  <1>1. Len(program) \in Nat /\ at \in Nat /\ at # at + 1
    BY Numbers DEF Cycling, Inv
  <1>2. program[at].op \in {"release", "flush"} /\ ~Initializes(program, at)
    BY DEF AtOperation, Initializes
  <1>3. x \in Packets /\ x \in InHands /\ x \notin Pooled /\ x[1] \in PoolIds /\ ClassOf(x) \in Classes
    BY HeldPacket DEF Cycling
  <1>4. packs \in Seq(Instances) /\ Once(packs) /\ i \in 1 .. Len(packs) /\ ~packs[i].written
    BY HeldPacket DEF Cycling, Inv, Types, OnceInv
  <1>5. CASE packs' = packs /\ creationPool[ClassOf(x)] = NoPool
    <2>1. InHands' = InHands
      BY <1>5, NextPlaces
    <2>2. ASSUME NEW r, NEW j, Session(r, j)'
          PROVE  FALSE
      <3>1. Session(r, j)
        BY <1>1, <1>2, <2>2, SessionStep DEF Preparing
      <3>2. Whole(ClassOf(x))
        BY <1>3, <3>1 DEF Cycling, CycleInv
      <3>3. QED
        BY <1>5, <3>2 DEF Whole
    <2>3. Classes \ remaining' = {}
      OBVIOUS
    <2>4. QED
      BY <2>1, <2>2, <2>3 DEF Cycling, CycleInv
  <1>6. CASE packs' = RemoveAt(packs, i) \/ packs' = [packs EXCEPT ![i].written = TRUE]
    <2>1. InHands' \subseteq InHands \ {x} /\ InHands \ {x} \subseteq InHands'
      <3>1. \A y \in Hands(packs') : y \in Hands(packs) /\ y # x
        BY <1>4, <1>6, HandsGiven
      <3>2. \A y \in Hands(packs) : y # x => y \in Hands(packs')
        BY <1>4, <1>6, HandsLeft
      <3>3. QED
        BY <3>1, <3>2, NextPlaces DEF InHands
    <2>2. IsFiniteSet(InHands) /\ IsFiniteSet(InHands \ {x}) /\ Cardinality(InHands \ {x}) = Cardinality(InHands) - 1
      BY <1>3, FS_RemoveElement DEF Cycling, CycleInv
    <2>3. InHands' = InHands \ {x}
      BY <2>1
    <2> HIDE DEF x
    <2>4. ASSUME NEW r, NEW j, Session(r, j)'
          PROVE  (\A c \in Classes : Whole(c)') /\ Counted(j)'
      <3>1. j \in Nat /\ j <= at /\ Session(r, j)
        BY <1>1, <1>2, <2>4, SessionStep DEF Preparing
      <3>2. (\A c \in Classes : Whole(c)) /\ Counted(j)
        BY <3>1 DEF Cycling, CycleInv
      <3>3. creationPool[ClassOf(x)] = x[1] /\ x[1] # NoPool
        BY <1>3, <3>2 DEF Whole, Cycling, TidyInv, OwnInv
      <3>4. pools' = PutIn(x[1], x)
        BY <3>3 DEF ReleaseOf, x
      <3>5. Types /\ Distinct(pools, PoolIds) /\ OwnInv
        BY DEF Cycling, Inv, OnceInv, TidyInv
      <3>6. /\ \A q \in PoolIds : \A k \in 1 .. Len(pools[q]) : k \in 1 .. Len(pools'[q]) /\ pools'[q][k] = pools[q][k]
            /\ \E k \in 1 .. Len(pools'[x[1]]) : pools'[x[1]][k] = x
        BY <1>3, <3>4, <3>5, PutStays
      <3>7. \A y \in Pooled : y \in Pooled'
        BY <3>6 DEF Pooled, Members
      <3>8. x \in Pooled'
        BY <1>3, <3>6 DEF Pooled, Members
      <3>9. \A c \in Classes : Whole(c)'
        BY <2>3, <3>2, <3>7, <3>8 DEF Whole
      <3>10. \A cs : Creates(program', j, at', cs) = Creates(program, j, at, cs)
        BY <1>1, <1>2, <3>1, CreatesCount
      <3>11. /\ Cardinality(Gives(program', j, at')) = Cardinality(Gives(program, j, at)) + 1
             /\ Cardinality(Gives(program, j, at)) \in Nat
        BY <1>1, <1>2, <3>1, GivesCount
      <3>12. \A cs : Cardinality(Creates(program, j, at, cs)) \in Nat
        BY <1>1, <3>1, CreatesCount
      <3>13. Cardinality(InHands) \in Nat
        BY <2>2, FS_CardinalityType
      <3>14. /\ Cardinality(InHands') + Cardinality(Gives(program', j, at'))
                  <= Cardinality(Creates(program', j, at', Classes \cup {AnyClass}))
        BY <2>2, <2>3, <3>2, <3>10, <3>11, <3>12, <3>13 DEF Counted
      <3>15. \A c \in Classes : Cardinality(HeldOf(c)') <= Cardinality(Creates(program', j, at', {AnyClass, c}))
        <4> TAKE c \in Classes
        <4>1. HeldOf(c)' \in SUBSET HeldOf(c)
          BY <2>3 DEF HeldOf
        <4>2. IsFiniteSet(HeldOf(c)) /\ Cardinality(HeldOf(c)) \in Nat
          BY <2>2, HeldFinite
        <4>3. Cardinality(HeldOf(c)') <= Cardinality(HeldOf(c)) /\ Cardinality(HeldOf(c)') \in Nat
          BY <4>1, <4>2, FS_Subset, FS_CardinalityType
        <4>4. QED
          BY <3>2, <3>10, <3>12, <4>2, <4>3 DEF Counted
      <3>16. Counted(j)'
        BY <3>14, <3>15 DEF Counted
      <3>17. QED
        BY <3>9, <3>16
    <2>5. Classes \ remaining' = {}
      OBVIOUS
    <2>6. QED
      BY <2>2, <2>3, <2>4, <2>5 DEF CycleInv
  <1>7. QED
    BY <1>5, <1>6

\* Where main creates a packet, its class is known and its pool has one: if
\* the pool were empty, main would hold all of its packets, and it has not
\* created as many, or not kept as many.
LEMMA PoolHasOne ==
    ASSUME Cycling, at \in 1 .. Len(program), program[at].op = "create",
           NEW c \in Classes, program[at].class \in {AnyClass, c}
    PROVE  c \in methods /\ creationPool[c] # NoPool /\ pools[creationPool[c]] # <<>>
  <1> DEFINE p == creationPool[c]
             f == [i \in 1 .. PoolSize |-> <<p, i>>]
  <1>0. PICK j \in 1 .. at - 1 : \E r \in 1 .. j - 1 :
            /\ program[r].op = "register" /\ Initializes(program, j)
            /\ \A k \in r .. at : program[k].op \notin EndsCycle
            /\ \/ Cardinality(Creates(program, j, at, Classes \cup {AnyClass}))
                    < PoolSize + Cardinality(Gives(program, j, at))
               \/ \A d \in Classes : program[at].class \in {AnyClass, d} =>
                      Cardinality(Creates(program, j, at, {AnyClass, d})) < PoolSize
    BY DEF Cycling, KeepsTheCycle, CreatesWhatIsThere
  <1>1. PICK r \in 1 .. j - 1 :
            /\ program[r].op = "register" /\ Initializes(program, j)
            /\ \A k \in r .. at : program[k].op \notin EndsCycle
            /\ \/ Cardinality(Creates(program, j, at, Classes \cup {AnyClass}))
                    < PoolSize + Cardinality(Gives(program, j, at))
               \/ \A d \in Classes : program[at].class \in {AnyClass, d} =>
                      Cardinality(Creates(program, j, at, {AnyClass, d})) < PoolSize
    BY <1>0
  <1>2. at \in Nat /\ j \in Nat /\ r \in Nat /\ PoolSize \in Nat
    BY Numbers DEF Cycling, Inv
  <1>3. RegisteredAt(r) /\ Since(r, EndsCycle) /\ Session(r, j)
    BY <1>1, <1>2 DEF RegisteredAt, Since, Session
  <1>4. Since(r, {"shutdown"})
    BY <1>3 DEF Since, EndsCycle
  <1>5. Entered(c)
    BY <1>3, <1>4 DEF Cycling, EnteredInv
  <1>6. (\A d \in Classes : Whole(d)) /\ Counted(j) /\ IsFiniteSet(InHands)
    BY <1>3 DEF Cycling, CycleInv
  <1>7. p # NoPool /\ p \in PoolIds /\ p[1] = c
    BY <1>6 DEF Whole, Cycling, Inv, Types, TidyInv, CurrentInv
  <1> HIDE DEF p
  <1>8. ASSUME pools[p] = <<>>
        PROVE  FALSE
    <2>1. ASSUME NEW i \in 1 .. PoolSize
          PROVE  <<p, i>> \in HeldOf(c)
      <3>1. <<p, i>> \in Pooled \cup InHands
        BY <1>6 DEF Whole, p
      <3>2. <<p, i>> \notin Pooled
        <4> SUFFICES ASSUME NEW q \in PoolIds, NEW k \in 1 .. Len(pools[q]), pools[q][k] = <<p, i>>
                     PROVE  FALSE
          BY DEF Pooled, Members
        <4>1. q = p
          BY DEF Cycling, TidyInv, OwnInv
        <4>2. QED
          BY <1>8, <4>1
      <3>3. QED
        BY <1>7, <3>1, <3>2 DEF HeldOf, ClassOf
    <2>2. f \in [1 .. PoolSize -> HeldOf(c)]
      BY <2>1
    <2>3. \A i, k \in 1 .. PoolSize : f[i] = f[k] => i = k
      OBVIOUS
    <2>4. f \in Injection(1 .. PoolSize, HeldOf(c))
      BY <2>2, <2>3, Fun_IsInj
    <2>5. IsFiniteSet(HeldOf(c)) /\ Cardinality(HeldOf(c)) \in Nat /\ HeldOf(c) \in SUBSET InHands
      BY <1>6, HeldFinite
    <2>6. Cardinality(1 .. PoolSize) = PoolSize
      BY <1>2, FS_Interval
    <2>7. PoolSize <= Cardinality(HeldOf(c))
      BY <2>4, <2>5, <2>6, FS_Injection
    <2>8. Cardinality(HeldOf(c)) <= Cardinality(InHands) /\ Cardinality(InHands) \in Nat
      BY <1>6, <2>5, FS_Subset, FS_CardinalityType
    <2>9. \A cs : Cardinality(Creates(program, j, at, cs)) \in Nat
      BY <1>2, CreatesCount
    <2>10. Cardinality(Gives(program, j, at)) \in Nat
      BY <1>2, GivesCount
    <2>11. Cardinality(Creates(program, j, at, {AnyClass, c})) >= PoolSize
      BY <1>2, <1>6, <2>5, <2>7, <2>9 DEF Counted
    <2>12. Cardinality(Creates(program, j, at, Classes \cup {AnyClass})) >= PoolSize + Cardinality(Gives(program, j, at))
      BY <1>2, <1>6, <2>5, <2>7, <2>8, <2>9, <2>10 DEF Counted
    <2>13. QED
      BY <1>1, <1>2, <2>9, <2>10, <2>11, <2>12, SMTT(40)
  <1>9. QED
    BY <1>5, <1>7, <1>8 DEF p, Entered

\* Create gives main the first packet of the pool.
LEMMA CreateCycles ==
    ASSUME Cycling, NEW c \in Classes, NEW byName \in BOOLEAN, MainCreate(c, byName),
           at \in 1 .. Len(program), program[at].op = "create", at' = at + 1, remaining' = Classes
    PROVE  faults' = faults /\ CycleInv'
  <1> DEFINE p == creationPool[c]
             x == Head(pools[p])
  <1>1. program[at].class \in {AnyClass, c} /\ UNCHANGED <<program, creationPool>>
    BY DEF MainCreate
  <1>2. c \in methods /\ p # NoPool /\ pools[p] # <<>>
    BY <1>1, PoolHasOne
  <1>3. /\ packs' = Append(packs, [packet |-> x, written |-> FALSE])
        /\ pools' = [pools EXCEPT ![p] = Tail(@)]
        /\ faults' = faults
    BY <1>2 DEF MainCreate
  <1>4. Len(program) \in Nat /\ at \in Nat /\ at # at + 1 /\ program[at] \in Instructions
    BY Numbers DEF Cycling, Inv
  <1>5. pools \in [PoolIds -> Seq(Packets)] /\ packs \in Seq(Instances) /\ p \in PoolIds /\ p[1] = c
    BY <1>2 DEF Cycling, Inv, Types, TidyInv, CurrentInv
  <1>6. pools'[p] = Tail(pools[p]) /\ \A q \in PoolIds : q # p => pools'[q] = pools[q]
    BY <1>3, <1>5
  <1>7. /\ Len(Tail(pools[p])) = Len(pools[p]) - 1 /\ Len(pools[p]) \in Nat /\ 1 \in 1 .. Len(pools[p])
        /\ x = pools[p][1] /\ x \in Packets
        /\ \A i \in 1 .. Len(Tail(pools[p])) : Tail(pools[p])[i] = pools[p][i + 1] /\ i + 1 \in 1 .. Len(pools[p])
    <2>1. pools[p] \in Seq(Packets)
      BY <1>5
    <2>2. QED
      BY <1>2, <2>1, TailElements
  <1>8. ClassOf(x) = c
    BY <1>5, <1>7 DEF ClassOf, Cycling, TidyInv, OwnInv
  <1>9. x \in Pooled /\ x \notin InHands
    <2>1. x \in Pooled
      BY <1>5, <1>7 DEF Pooled, Members
    <2>2. QED
      BY <2>1 DEF Cycling, Inv, KindInv
  <1>10. packs' = Append(packs, Unwritten(x))
    BY <1>3 DEF Unwritten
  <1> HIDE DEF x, p
  <1>11. InHands' = InHands \cup {x}
    <2>1. \A y \in Hands(packs') : y \in Hands(packs) \/ y = x
      BY <1>5, <1>7, <1>9, <1>10, HandsAppend, ZenonT(40) DEF Cycling, Inv, OnceInv, InHands
    <2>2. Unwritten(x) \in Instances
      BY <1>7 DEF Unwritten, Instances
    <2>3. /\ Len(packs') = Len(packs) + 1 /\ Len(packs) \in Nat /\ packs'[Len(packs) + 1] = Unwritten(x)
          /\ \A i \in 1 .. Len(packs) : packs'[i] = packs[i] /\ i \in 1 .. Len(packs')
      BY <1>5, <1>10, <2>2, AppendElements
    <2>4. Len(packs) + 1 \in 1 .. Len(packs')
      BY <2>3
    <2>5. x \in Hands(packs')
      BY <1>7, <2>3, <2>4 DEF Hands
    <2>6. \A y \in Hands(packs) : y \in Hands(packs')
      BY <2>3 DEF Hands
    <2>7. QED
      BY <2>1, <2>5, <2>6, NextPlaces DEF InHands
  <1>12. \A y \in Pooled : y \in Pooled' \/ y = x
    <2> SUFFICES ASSUME NEW y \in Pooled, y # x
                 PROVE  y \in Pooled'
      OBVIOUS
    <2>0. PICK q \in PoolIds : \E i \in 1 .. Len(pools[q]) : pools[q][i] = y
      BY DEF Pooled, Members
    <2>1. PICK i \in 1 .. Len(pools[q]) : pools[q][i] = y
      BY <2>0
    <2>2. y \in Packets
      BY DEF Pooled, Members
    <2>3. CASE q # p
      BY <1>6, <2>1, <2>2, <2>3 DEF Pooled, Members
    <2>4. CASE q = p
      <3>1. i # 1
        BY <1>7, <2>1, <2>4
      <3>2. i - 1 \in 1 .. Len(pools'[p]) /\ (i - 1) + 1 = i
        BY <1>6, <1>7, <2>1, <2>4, <3>1
      <3>3. pools'[p][i - 1] = y
        BY <1>6, <1>7, <2>1, <2>4, <3>2
      <3>4. QED
        BY <1>5, <2>2, <3>2, <3>3 DEF Pooled, Members
    <2>5. QED
      BY <2>3, <2>4
  <1>13. /\ IsFiniteSet(InHands) /\ IsFiniteSet(InHands') /\ Cardinality(InHands') = Cardinality(InHands) + 1
         /\ Cardinality(InHands) \in Nat
    BY <1>9, <1>11, FS_AddElement, FS_CardinalityType DEF Cycling, CycleInv
  <1>14. ASSUME NEW r, NEW j, Session(r, j)'
         PROVE  (\A d \in Classes : Whole(d)') /\ Counted(j)'
    <2>1. j \in Nat /\ j <= at /\ Session(r, j)
      <3>1. ~Initializes(program, at)
        BY DEF Initializes
      <3>2. QED
        BY <1>1, <1>4, <1>14, <3>1, SessionStep DEF Preparing
    <2>2. (\A d \in Classes : Whole(d)) /\ Counted(j)
      BY <2>1 DEF Cycling, CycleInv
    <2>3. \A d \in Classes : Whole(d)'
      BY <1>1, <1>11, <1>12, <2>2 DEF Whole
    <2>4. Gives(program', j, at') = Gives(program, j, at) /\ Cardinality(Gives(program, j, at)) \in Nat
      BY <1>1, <1>4, <2>1, GivesCount
    <2>5. ASSUME NEW cs, program[at].class \in cs
          PROVE  Cardinality(Creates(program', j, at', cs)) = Cardinality(Creates(program, j, at, cs)) + 1
      BY <1>1, <1>4, <2>1, <2>5, CreatesCount
    <2>6. \A cs : /\ Cardinality(Creates(program, j, at, cs)) \in Nat
                  /\ Cardinality(Creates(program', j, at', cs)) >= Cardinality(Creates(program, j, at, cs))
      <3> TAKE cs
      <3>1. Cardinality(Creates(program, j, at, cs)) \in Nat
        BY <1>4, <2>1, CreatesCount
      <3>2. CASE program[at].class \in cs
        BY <2>5, <3>1, <3>2
      <3>3. CASE program[at].class \notin cs
        <4>1. Creates(program', j, at', cs) = Creates(program, j, at, cs)
          BY <1>1, <1>4, <2>1, <3>3, CreatesCount
        <4>2. QED
          BY <3>1, <4>1
      <3>4. QED
        BY <3>2, <3>3
    <2>7. /\ Cardinality(InHands') + Cardinality(Gives(program', j, at'))
               <= Cardinality(Creates(program', j, at', Classes \cup {AnyClass}))
      <3>1. program[at].class \in Classes \cup {AnyClass}
        BY <1>4 DEF Instructions
      <3>2. Cardinality(Creates(program', j, at', Classes \cup {AnyClass}))
              = Cardinality(Creates(program, j, at, Classes \cup {AnyClass})) + 1
        BY <2>5, <3>1
      <3>3. QED
        BY <1>13, <2>2, <2>4, <2>6, <3>2 DEF Counted
    <2>8. ASSUME NEW d \in Classes
          PROVE  Cardinality(HeldOf(d)') <= Cardinality(Creates(program', j, at', {AnyClass, d}))
      <3>1. IsFiniteSet(HeldOf(d)) /\ Cardinality(HeldOf(d)) \in Nat
        BY <1>13, HeldFinite
      <3>2. CASE d = c
        <4>1. HeldOf(d)' = HeldOf(d) \cup {x}
          BY <1>8, <1>11, <3>2 DEF HeldOf
        <4>2. Cardinality(HeldOf(d)') <= Cardinality(HeldOf(d)) + 1 /\ Cardinality(HeldOf(d)') \in Nat
          <5>1. Cardinality(HeldOf(d) \cup {x}) = IF x \in HeldOf(d) THEN Cardinality(HeldOf(d)) ELSE Cardinality(HeldOf(d)) + 1
            BY <3>1, FS_AddElement
          <5>2. QED
            BY <3>1, <4>1, <5>1
        <4>3. Cardinality(Creates(program', j, at', {AnyClass, d})) = Cardinality(Creates(program, j, at, {AnyClass, d})) + 1
          BY <1>1, <2>5, <3>2
        <4>4. QED
          BY <2>2, <2>6, <3>1, <4>2, <4>3 DEF Counted
      <3>3. CASE d # c
        <4>1. HeldOf(d)' = HeldOf(d)
          BY <1>8, <1>11, <3>3 DEF HeldOf
        <4>2. \A cs : /\ Cardinality(Creates(program', j, at', cs)) \in Nat
                      /\ Cardinality(Creates(program', j, at', cs)) >= Cardinality(Creates(program, j, at, cs))
          BY <1>1, <1>4, <2>1, <2>6, CreatesCount
        <4>3. QED
          BY <2>2, <2>6, <3>1, <4>1, <4>2 DEF Counted
      <3>4. QED
        BY <3>2, <3>3
    <2>9. Counted(j)'
      BY <2>7, <2>8 DEF Counted
    <2>10. QED
      BY <2>3, <2>9
  <1>15. Classes \ remaining' = {}
    OBVIOUS
  <1>16. QED
    BY <1>3, <1>13, <1>14, <1>15 DEF CycleInv

\* InitFactory, for a class that is registered: its pool is full, and the
\* others keep what they have.
LEMMA PoolMade ==
    ASSUME Cycling, NEW c \in allocationMethods, NEW op \in {"init", "init_copy"},
           NEW wanted \in BOOLEAN, creationPool[c] = NoPool => wanted, MakePool(c, op, wanted)
    PROVE  /\ InHands = {} /\ InHands' = {}
           /\ Whole(c)' /\ \A d \in Classes : d # c /\ Whole(d) => Whole(d)'
  <1> DEFINE g == IF remaining = Classes THEN inits + 1 ELSE inits
             p == <<c, g>>
  <1>1. /\ AtOperation(op) /\ NextClass(c) /\ LoopTurn(c) /\ program' = program
        /\ g <= MaxInits /\ packs' = packs
    BY DEF MakePool
  <1>2. InHands = {} /\ \A d \in remaining : creationPool[d] = NoPool
    BY <1>1, BeforeMaking DEF Cycling, KeepsTheCycle
  <1>3. InHands' = {}
    BY <1>1, <1>2 DEF InHands, Hands
  <1>4. c \in remaining /\ c \in Classes /\ creationPool[c] = NoPool
    BY <1>1, <1>2 DEF NextClass, Cycling, Inv, Types
  <1>5. pools' = [pools EXCEPT ![p] = Filled(p)] /\ creationPool' = [creationPool EXCEPT ![c] = p]
    BY <1>4 DEF MakePool
  <1>6. inits \in Nat /\ at \in 1 .. Len(program) /\ program[at].op = op
    BY <1>1, Numbers DEF Cycling, Inv, AtOperation
  <1>7. p \in PoolIds /\ p # NoPool /\ p[1] = c
    <2>1. g \in Nat /\ g >= 1
      <3>1. CASE remaining = Classes
        BY <1>6, <3>1
      <3>2. CASE remaining # Classes
        <4>1. Making
          BY <1>6, <3>2 DEF Making
        <4>2. QED
          BY <1>6, <3>2, <4>1 DEF Cycling, Inv, FreshInv
      <3>3. QED
        BY <3>1, <3>2
    <2>2. g \in 1 .. MaxInits
      BY <1>1, <2>1, Numbers DEF Cycling, Inv
    <2>3. QED
      BY <1>4, <2>2 DEF PoolIds, NoPool
  <1> HIDE DEF g, p
  <1>8. creationPool \in [Classes -> PoolIds \cup {NoPool}] /\ pools \in [PoolIds -> Seq(Packets)]
    BY DEF Cycling, Inv, Types
  <1>9. /\ creationPool'[c] = p /\ pools'[p] = Filled(p)
        /\ \A d \in Classes : d # c => creationPool'[d] = creationPool[d]
        /\ \A q \in PoolIds : q # p => pools'[q] = pools[q]
    BY <1>4, <1>5, <1>7, <1>8
  <1>10. Whole(c)'
    <2>1. ASSUME NEW i \in 1 .. PoolSize
          PROVE  <<p, i>> \in Pooled'
      <3>1. Filled(p)[i] = <<p, i>> /\ <<p, i>> \in Packets
        BY <1>7 DEF Filled, Packets
      <3>2. Len(Filled(p)) = PoolSize
        BY <1>7, FilledPool
      <3>3. QED
        BY <1>7, <1>9, <3>1, <3>2 DEF Pooled, Members
    <2>2. QED
      BY <1>7, <1>9, <2>1 DEF Whole
  <1>11. ASSUME NEW d \in Classes, d # c, Whole(d)
         PROVE  Whole(d)'
    <2>1. creationPool'[d] = creationPool[d] /\ creationPool[d] # NoPool /\ creationPool[d][1] = d
      BY <1>9, <1>11 DEF Whole, Cycling, TidyInv, CurrentInv
    <2>2. ASSUME NEW i \in 1 .. PoolSize
          PROVE  <<creationPool[d], i>> \in Pooled'
      <3> DEFINE x == <<creationPool[d], i>>
      <3>1. x \in Pooled
        BY <1>2, <1>11 DEF Whole
      <3>2. x \in Packets
        BY <3>1 DEF Pooled, Members
      <3>3. PICK q \in PoolIds : \E k \in 1 .. Len(pools[q]) : pools[q][k] = x
        BY <3>1 DEF Pooled, Members
      <3>4. q = creationPool[d]
        BY <3>3 DEF Cycling, TidyInv, OwnInv
      <3>5. pools'[q] = pools[q]
        BY <1>7, <1>9, <1>11, <2>1, <3>4
      <3>6. QED
        BY <3>2, <3>3, <3>5 DEF Pooled, Members
    <2>3. QED
      BY <2>1, <2>2 DEF Whole
  <1>12. QED
    BY <1>2, <1>3, <1>10, <1>11

\* InitFactory begins a cycle with all pools full and nothing in use.
LEMMA MakingCycles ==
    ASSUME Cycling, NEW c \in Classes, NEW op \in {"init", "init_copy"},
           NEW wanted \in BOOLEAN, creationPool[c] = NoPool => wanted, MakePool(c, op, wanted),
           at \in 1 .. Len(program), program[at].op = op,
           (at' = at /\ remaining' = remaining \ {c}) \/ (at' = at + 1 /\ remaining' = Classes /\ remaining = {c})
    PROVE  CycleInv'
  <1>1. Len(program) \in Nat /\ at \in Nat /\ at # at + 1 /\ Initializes(program, at)
    BY Numbers DEF Cycling, Inv, Initializes
  <1>2. AtOperation(op) /\ UNCHANGED <<program, packs>>
    BY DEF MakePool
  <1>3. InHands = {}
    BY <1>2, BeforeMaking DEF Cycling, KeepsTheCycle
  <1>4. InHands' = {}
    BY <1>2, <1>3, NextPlaces
  <1>5. ASSUME NEW r, Preparing(r)
        PROVE  \A d \in (Classes \ remaining) \cup {c} : Whole(d)'
    <2>1. RegisteredAt(r) /\ Since(r, {"shutdown"})
      BY <1>5 DEF Preparing, Since, EndsCycle
    <2>2. Entered(c)
      BY <2>1 DEF Cycling, EnteredInv
    <2>3. \A d \in Classes \ remaining : Whole(d)
      BY <1>5 DEF Cycling, CycleInv
    <2>4. Whole(c)' /\ \A d \in Classes : d # c /\ Whole(d) => Whole(d)'
      BY <2>2, PoolMade DEF Entered
    <2>5. QED
      BY <2>3, <2>4, Zenon
  <1>6. ASSUME NEW r, Preparing(r)'
        PROVE  \A d \in Classes \ remaining' : Whole(d)'
    <2>1. CASE at' = at /\ remaining' = remaining \ {c}
      <3>1. Preparing(r)
        BY <1>2, <1>6, <2>1 DEF Preparing, RegisteredAt, Since
      <3>2. \A d \in Classes \ remaining' : d \in (Classes \ remaining) \cup {c}
        BY <2>1
      <3>3. QED
        BY <1>5, <3>1, <3>2
    <2>2. CASE remaining' = Classes
      BY <2>2
    <2>3. QED
      BY <2>1, <2>2
  <1>7. ASSUME NEW r, NEW j, Session(r, j)
        PROVE  FALSE
    <2>1. /\ RegisteredAt(r) /\ Since(r, EndsCycle) /\ j \in r + 1 .. at - 1 /\ Initializes(program, j)
      BY <1>7 DEF Session
    <2>2. r \in Nat /\ r >= 1 /\ r < at
      BY <1>1, <2>1 DEF RegisteredAt
    <2>3. j \in 1 .. Len(program) /\ j < at
      BY <1>1, <2>1, <2>2
    <2>4. PICK k \in j .. at : program[k].op = "shutdown"
      BY <1>1, <2>1, <2>3 DEF Cycling, KeepsTheCycle, OneFactoryAtATime
    <2>5. k # at
      BY <2>4
    <2>6. k \in r .. at - 1
      BY <1>1, <2>1, <2>2, <2>4, <2>5
    <2>7. QED
      BY <2>1, <2>4, <2>6 DEF Since, EndsCycle
  <1>8. ASSUME NEW r, NEW j, Session(r, j)'
        PROVE  (\A d \in Classes : Whole(d)') /\ Counted(j)'
    <2>1. j \in Nat /\ j = at /\ at' = at + 1 /\ Preparing(r)
      BY <1>1, <1>2, <1>7, <1>8, SessionStep
    <2>2. \A d \in Classes : d \in (Classes \ remaining) \cup {c}
      BY <1>1, <2>1
    <2>3. \A d \in Classes : Whole(d)'
      BY <1>5, <2>1, <2>2
    <2>4. Gives(program', j, at') = {}
      <3>1. Gives(program, j, at) = {}
        BY <1>1, <2>1 DEF Gives
      <3>2. QED
        BY <1>1, <1>2, <2>1, <3>1, GivesCount DEF Initializes
    <2>5. \A cs : Cardinality(Creates(program', j, at', cs)) \in Nat
      <3>1. at' \in Nat /\ j <= at'
        BY <1>1, <2>1
      <3>2. QED
        BY <2>1, <3>1, CreatesCount
    <2>6. Cardinality({}) = 0 /\ \A d : HeldOf(d)' = {}
      BY <1>4, FS_EmptySet DEF HeldOf
    <2>7. Counted(j)'
      <3>1. /\ Cardinality(InHands') = 0 /\ Cardinality(Gives(program', j, at')) = 0
            /\ \A d : Cardinality(HeldOf(d)') = 0
        BY <1>4, <2>4, <2>6
      <3>2. /\ Cardinality(InHands') + Cardinality(Gives(program', j, at'))
                 <= Cardinality(Creates(program', j, at', Classes \cup {AnyClass}))
            /\ \A d \in Classes : Cardinality(HeldOf(d)') <= Cardinality(Creates(program', j, at', {AnyClass, d}))
        BY <2>5, <3>1
      <3>3. QED
        BY <3>2 DEF Counted
    <2>8. QED
      BY <2>3, <2>7
  <1>9. IsFiniteSet(InHands)'
    BY <1>4, FS_EmptySet
  <1>10. QED
    BY <1>6, <1>8, <1>9 DEF CycleInv

\* What main does while it keeps the cycle never fails.
LEMMA LoopsCycle ==
    ASSUME Cycling, Inv', NEW c \in Classes,
           Register(c) \/ InitFactory(c) \/ Shutdown(c) \/ InitCopy(c) \/ ShutdownCopy(c)
    PROVE  faults' = faults /\ EnteredInv' /\ CycleInv'
  <1>1. LoopInv' /\ \A op \in {"register", "init", "init_copy", "shutdown", "shutdown_copy"} : op \in Loops
    BY DEF Inv, Loops
  <1>2. ASSUME NEW op \in Loops, AtOperation(op), NextClass(c), LoopTurn(c), program' = program
        PROVE  /\ at \in 1 .. Len(program) /\ at \in Nat /\ program[at].op = op
               /\ (at' = at /\ remaining' = remaining \ {c}) \/ (at' = at + 1 /\ remaining' = Classes /\ remaining = {c})
    BY <1>1, <1>2, Progress, Numbers DEF Cycling, Inv
  <1>3. CASE Register(c)
    <2>1. /\ AtOperation("register") /\ NextClass(c) /\ LoopTurn(c)
          /\ UNCHANGED <<program, packs, pools, creationPool, faults>>
      BY <1>3 DEF Register, poolVars
    <2>2. EnteredInv'
      BY <1>1, <1>3, RegisterEnters
    <2>3. /\ at \in 1 .. Len(program) /\ program[at].op = "register" /\ InHands' = InHands
          /\ at' = at \/ (at' = at + 1 /\ remaining' = Classes)
      BY <1>1, <1>2, <2>1, NextPlaces
    <2>4. CycleInv'
      BY <2>1, <2>3, CycleKept
    <2>5. QED
      BY <2>1, <2>2, <2>4
  <1>4. ASSUME NEW op \in {"init", "init_copy"}, NEW wanted \in BOOLEAN, creationPool[c] = NoPool => wanted,
               MakePool(c, op, wanted)
        PROVE  faults' = faults /\ EnteredInv' /\ CycleInv'
    <2>1. /\ AtOperation(op) /\ NextClass(c) /\ LoopTurn(c) /\ op \in Loops
          /\ UNCHANGED <<program, typeRegistered, methods, allocationMethods, faults>>
      BY <1>1, <1>4 DEF MakePool, registryVars
    <2>2. /\ at \in 1 .. Len(program) /\ at \in Nat /\ program[at].op = op
          /\ (at' = at /\ remaining' = remaining \ {c}) \/ (at' = at + 1 /\ remaining' = Classes /\ remaining = {c})
      BY <1>2, <2>1
    <2>3. CycleInv'
      BY <1>4, <2>2, MakingCycles
    <2>4. EnteredInv'
      BY <2>1, <2>2, EnteredKept DEF Cycling
    <2>5. QED
      BY <2>1, <2>3, <2>4
  <1>5. CASE InitFactory(c)
    BY <1>4, <1>5 DEF InitFactory
  <1>6. CASE InitCopy(c)
    BY <1>4, <1>6 DEF InitCopy
  <1>7. CASE Shutdown(c)
    <2>1. /\ AtOperation("shutdown") /\ NextClass(c) /\ LoopTurn(c)
          /\ UNCHANGED <<program, packs, pools, faults>>
          /\ remaining = {c} \/ creationPool' = creationPool
      BY <1>7 DEF Shutdown, DeletePool
    <2>2. EnteredInv'
      BY <1>1, <1>7, ShutdownEnters
    <2>3. /\ at \in 1 .. Len(program) /\ program[at].op = "shutdown" /\ InHands' = InHands
          /\ (at' = at /\ remaining # {c}) \/ (at' = at + 1 /\ remaining' = Classes)
          /\ at' = at \/ (at' = at + 1 /\ remaining' = Classes)
      <3>1. /\ at \in 1 .. Len(program) /\ program[at].op = "shutdown"
            /\ (at' = at /\ remaining' = remaining \ {c}) \/ (at' = at + 1 /\ remaining' = Classes)
        BY <1>1, <1>2, <2>1
      <3>2. remaining' # {}
        BY DEF Inv, Types
      <3>3. QED
        BY <2>1, <3>1, <3>2, NextPlaces
    <2>4. CycleInv'
      BY <2>1, <2>3, CycleKept DEF EndsCycle
    <2>5. QED
      BY <2>1, <2>2, <2>4
  <1>8. CASE ShutdownCopy(c)
    <2>1. /\ AtOperation("shutdown_copy") /\ NextClass(c) /\ LoopTurn(c)
          /\ UNCHANGED <<program, packs, pools, creationPool, typeRegistered, methods, allocationMethods, faults>>
      BY <1>8 DEF ShutdownCopy, DeletePool
    <2>2. /\ at \in 1 .. Len(program) /\ at \in Nat /\ program[at].op = "shutdown_copy" /\ InHands' = InHands
          /\ at' = at \/ (at' = at + 1 /\ remaining' = Classes)
      BY <1>1, <1>2, <2>1, NextPlaces
    <2>3. CycleInv'
      BY <2>1, <2>2, CycleKept
    <2>4. EnteredInv'
      BY <2>1, <2>2, EnteredKept DEF Cycling
    <2>5. QED
      BY <2>1, <2>3, <2>4
  <1>9. QED
    BY <1>3, <1>5, <1>6, <1>7, <1>8

LEMMA MainKeepsCycle ==
    ASSUME Cycling, Inv', MainStep
    PROVE  faults' = faults /\ EnteredInv' /\ CycleInv'
  <1>1. LoopInv' /\ \A op \in {"create", "release", "flush", "clear_flags", "start"} : op \notin Loops
    BY DEF Inv, Loops
  <1>2. ASSUME NEW op, op \notin Loops, AtOperation(op), Advance, program' = program
        PROVE  at \in 1 .. Len(program) /\ at \in Nat /\ program[at].op = op /\ at' = at + 1 /\ remaining' = Classes
    <2>1. PICK c : c \in Classes
      BY Numbers DEF Cycling, Inv
    <2>2. QED
      BY <1>1, <1>2, <2>1, Progress, Numbers DEF Cycling, Inv
  <1>3. ASSUME NEW c \in Classes, NEW byName \in BOOLEAN, MainCreate(c, byName)
        PROVE  faults' = faults /\ EnteredInv' /\ CycleInv'
    <2>1. AtOperation("create") /\ Advance /\ UNCHANGED <<program, typeRegistered, methods, allocationMethods>>
      BY <1>3 DEF MainCreate, registryVars
    <2>2. at \in 1 .. Len(program) /\ at \in Nat /\ program[at].op = "create" /\ at' = at + 1 /\ remaining' = Classes
      BY <1>1, <1>2, <2>1
    <2>3. faults' = faults /\ CycleInv'
      BY <1>3, <2>2, CreateCycles
    <2>4. EnteredInv'
      BY <2>1, <2>2, EnteredKept DEF Cycling
    <2>5. QED
      BY <2>3, <2>4
  <1>4. ASSUME NEW i \in Held, MainRelease(i) \/ Flush(i)
        PROVE  faults' = faults /\ EnteredInv' /\ CycleInv'
    <2>1. PICK op \in {"release", "flush"} :
             /\ AtOperation(op) /\ Advance /\ pools' = ReleaseOf(packs[i].packet)
             /\ \/ packs' = RemoveAt(packs, i)
                \/ packs' = [packs EXCEPT ![i].written = TRUE]
                \/ packs' = packs /\ creationPool[ClassOf(packs[i].packet)] = NoPool
             /\ UNCHANGED <<program, creationPool, typeRegistered, methods, allocationMethods, faults>>
      <3>1. CASE MainRelease(i)
        BY <3>1, Zenon DEF MainRelease, HandleAfterRelease, registryVars
      <3>2. CASE Flush(i)
        BY <3>2, Zenon DEF Flush, registryVars
      <3>3. QED
        BY <1>4, <3>1, <3>2
    <2>2. at \in 1 .. Len(program) /\ at \in Nat /\ program[at].op = op /\ at' = at + 1 /\ remaining' = Classes
      BY <1>1, <1>2, <2>1
    <2>3. CycleInv'
      BY <2>1, <2>2, GivenCycles
    <2>4. EnteredInv'
      BY <2>1, <2>2, EnteredKept DEF Cycling
    <2>5. QED
      BY <2>1, <2>3, <2>4
  <1>5. CASE ClearFlags
    <2>1. /\ AtOperation("clear_flags") /\ Advance
          /\ typeRegistered' = [c \in Classes |-> FALSE] /\ packs' = <<>>
          /\ UNCHANGED <<program, methods, allocationMethods, faults>>
      BY <1>5 DEF ClearFlags
    <2>2. at \in 1 .. Len(program) /\ at \in Nat /\ program[at].op = "clear_flags" /\ at' = at + 1 /\ remaining' = Classes
      BY <1>1, <1>2, <2>1
    <2>3. InHands' \subseteq InHands
      BY <2>1, NextPlaces DEF Hands
    <2>4. CycleInv'
      BY <2>1, <2>2, <2>3, CycleKept DEF EndsCycle
    <2>5. EnteredInv'
      BY <2>1, <2>2, EnteredKept DEF Cycling
    <2>6. QED
      BY <2>1, <2>4, <2>5
  <1>6. CASE StartNetwork
    <2>1. /\ AtOperation("start") /\ Advance
          /\ UNCHANGED <<program, packs, pools, creationPool, typeRegistered, methods, allocationMethods, faults>>
      BY <1>6 DEF StartNetwork, registryVars, poolVars
    <2>2. /\ at \in 1 .. Len(program) /\ at \in Nat /\ program[at].op = "start" /\ at' = at + 1 /\ remaining' = Classes
          /\ InHands' = InHands
      BY <1>1, <1>2, <2>1, NextPlaces
    <2>3. CycleInv'
      BY <2>1, <2>2, CycleKept
    <2>4. EnteredInv'
      BY <2>1, <2>2, EnteredKept DEF Cycling
    <2>5. QED
      BY <2>1, <2>3, <2>4
  <1>7. QED
    BY <1>3, <1>4, <1>5, <1>6, LoopsCycle DEF MainStep

LEMMA InitCycles == Init => faults = {} /\ EnteredInv /\ CycleInv
  <1> SUFFICES ASSUME Init
               PROVE  faults = {} /\ EnteredInv /\ CycleInv
    OBVIOUS
  <1> USE DEF Init
  <1>1. at = 1 /\ remaining = Classes /\ InHands = {}
    BY DEF InHands, Hands
  <1>2. \A r : ~RegisteredAt(r)
    BY <1>1 DEF RegisteredAt
  <1>3. EnteredInv
    BY <1>1, <1>2 DEF EnteredInv
  <1>4. CycleInv
    BY <1>1, <1>2, FS_EmptySet DEF CycleInv, Session, Preparing
  <1>5. QED
    BY <1>3, <1>4

LEMMA TestsInvariance == Spec => []TestsInv
  <1>1. Inv /\ Inv' /\ (OneFactoryAtATime(program) => TidyInv) /\ TestsInv /\ [Next]_vars => TestsInv'
    <2> SUFFICES ASSUME Inv, Inv', OneFactoryAtATime(program) => TidyInv, TestsInv, [Next]_vars
                 PROVE  TestsInv'
      OBVIOUS
    <2>1. program' = program
      BY TidyStep
    <2> SUFFICES ASSUME ~Starts(program), KeepsTheCycle(program)
                 PROVE  faults' = {} /\ EnteredInv' /\ CycleInv'
      BY <2>1 DEF TestsInv
    <2>2. Cycling
      BY DEF Cycling, TestsInv, KeepsTheCycle
    <2>3. CASE MainStep
      BY <2>2, <2>3, MainKeepsCycle DEF Cycling
    <2>4. ASSUME NEW n \in Networks, NetworkStep(n)
          PROVE  FALSE
      <3>1. started
        BY <2>2, <2>4, NetworkTidies DEF Cycling
      <3>2. QED
        BY <2>2, <3>1 DEF Cycling, TidyInv, CountInv
    <2>5. CASE UNCHANGED vars
      <3>1. /\ UNCHANGED <<program, at, remaining, packs, typeRegistered, methods, allocationMethods,
                           creationPool, pools, faults>>
        BY <2>5 DEF vars, mainVars, registryVars, poolVars
      <3>2. InHands' = InHands /\ \A c : HeldOf(c)' = HeldOf(c) /\ (Whole(c)' <=> Whole(c)) /\ (Entered(c)' <=> Entered(c))
        BY <3>1 DEF InHands, Hands, HeldOf, Whole, Pooled, Members, Entered
      <3>3. \A r : (RegisteredAt(r)' <=> RegisteredAt(r)) /\ \A ops : Since(r, ops)' <=> Since(r, ops)
        BY <3>1 DEF RegisteredAt, Since
      <3>4. EnteredInv'
        BY <3>1, <3>2, <3>3 DEF EnteredInv, TestsInv
      <3>5. \A j : Counted(j)' <=> Counted(j)
        BY <3>1, <3>2 DEF Counted
      <3>6. \A r : (Preparing(r)' <=> Preparing(r)) /\ \A j : Session(r, j)' <=> Session(r, j)
        BY <3>1, <3>3 DEF Preparing, Session
      <3>7. CycleInv'
        BY <3>1, <3>2, <3>5, <3>6 DEF CycleInv, TestsInv
      <3>8. QED
        BY <3>1, <3>4, <3>7 DEF TestsInv
    <2>6. QED
      BY <2>3, <2>4, <2>5 DEF Next
  <1>2. Init => TestsInv
    BY InitCycles DEF TestsInv
  <1>3. QED
    BY <1>1, <1>2, Invariance, TidyInvariance, PTL DEF Spec

\* A program without network threads that registers its classes, calls
\* InitFactory, creates no more packets than a pool has room for or it gave
\* back, and ends the cycle with Shutdown and the clearing of the flags before
\* the next, never meets a missing pool, a null packet or a deleted pool, however
\* often it repeats the cycle.  The tests of the repository are such programs, and
\* so is its client until it has sent what its pool holds.
THEOREM TestsPass == Spec => []TestsNeverFail
  <1>1. Inv /\ TestsInv => TestsNeverFail
    BY DEF TestsNeverFail, TestsInv, Orderly
  <1>2. QED
    BY <1>1, Invariance, TestsInvariance, PTL
=============================================================================
