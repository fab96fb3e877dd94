------------------------- MODULE SerializationProofs -------------------------
(***************************************************************************)
(* What is read is what was written, for every sequence of scripts whose   *)
(* items are what ScriptAssumption says a program may write, every         *)
(* MaxString and whatever fills memory that was never written.             *)
(***************************************************************************)
EXTENDS Serialization, SequenceTheorems, FunctionTheorems, FiniteSetTheorems,
        WellFoundedInduction, TLAPS

-----------------------------------------------------------------------------
(* Induction and recursive functions.                                      *)

\* A set of numbers with zero and each successor holds all of them.
LEMMA SetInduction ==
    ASSUME NEW S, 0 \in S, \A n \in Nat : n \in S => n + 1 \in S
    PROVE  \A n \in Nat : n \in S
  <1> DEFINE Missing == Nat \ S
  <1> SUFFICES ASSUME Missing # {}
               PROVE  FALSE
    OBVIOUS
  <1>1. Missing \subseteq Nat
    OBVIOUS
  <1> HIDE DEF Missing
  <1>2. PICK x \in Missing : \A y \in Missing : ~ (<<y, x>> \in OpToRel(<, Nat))
    BY <1>1, NatLessThanWellFounded, WFMin
  <1>3. x \in Nat \ {0} /\ x \notin S
    BY DEF Missing
  <1>4. <<x - 1, x>> \in OpToRel(<, Nat)
    BY <1>3 DEF OpToRel
  <1>5. x - 1 \notin Missing
    BY <1>2, <1>4
  <1>6. x - 1 \in Nat /\ x - 1 \in S /\ x = (x - 1) + 1
    BY <1>3, <1>5 DEF Missing
  <1>7. QED
    BY <1>3, <1>6

\* The same up to a bound.
LEMMA BoundedInduction ==
    ASSUME NEW S, NEW m \in Nat, 0 \in S, \A n \in 0 .. m - 1 : n \in S => n + 1 \in S
    PROVE  \A n \in 0 .. m : n \in S
  <1> DEFINE Bounded == {n \in Nat : n <= m => n \in S}
  <1>1. 0 \in Bounded /\ \A n \in Nat : n \in Bounded => n + 1 \in Bounded
    OBVIOUS
  <1> HIDE DEF Bounded
  <1>2. \A n \in Nat : n \in Bounded
    BY <1>1, SetInduction, Zenon
  <1>3. QED
    BY <1>2 DEF Bounded

\* f starts at base and goes on by step, m times.
Recurs(f, base, step, m) ==
    f = [i \in 0 .. m |-> IF i = 0 THEN base ELSE step[<<i, f[i - 1]>>]]

\* There is such a function, and its values are of the type of the steps.
LEMMA RecursionExists ==
    ASSUME NEW R, NEW base \in R, NEW step \in [Nat \X R -> R], NEW m \in Nat
    PROVE  \E f \in [0 .. m -> R] : Recurs(f, base, step, m)
  <1> DEFINE Has == {n \in Nat : \E f \in [0 .. n -> R] : Recurs(f, base, step, n)}
  <1>1. 0 \in Has
    <2> DEFINE f == [i \in 0 .. 0 |-> base]
    <2>1. f \in [0 .. 0 -> R] /\ Recurs(f, base, step, 0)
      BY DEF Recurs
    <2>2. QED
      BY <2>1
  <1>2. ASSUME NEW n \in Nat, n \in Has
        PROVE  n + 1 \in Has
    <2>1. PICK f \in [0 .. n -> R] : Recurs(f, base, step, n)
      BY <1>2
    <2> DEFINE g == [i \in 0 .. n + 1 |-> IF i = n + 1 THEN step[<<n + 1, f[n]>>] ELSE f[i]]
    <2>2. step[<<n + 1, f[n]>>] \in R
      OBVIOUS
    <2>3. g \in [0 .. n + 1 -> R]
      BY <2>2
    <2>4. ASSUME NEW i \in 0 .. n + 1
          PROVE  g[i] = IF i = 0 THEN base ELSE step[<<i, g[i - 1]>>]
      <3>1. CASE i = n + 1
        <4>1. g[i - 1] = f[n] /\ i # 0
          BY <3>1
        <4>2. QED
          BY <3>1, <4>1
      <3>2. CASE i # n + 1
        <4>1. i \in 0 .. n /\ g[i] = f[i]
          BY <3>2
        <4>2. f[i] = IF i = 0 THEN base ELSE step[<<i, f[i - 1]>>]
          BY <2>1, <4>1, Zenon DEF Recurs
        <4>3. i # 0 => g[i - 1] = f[i - 1]
          BY <4>1
        <4>4. QED
          BY <4>1, <4>2, <4>3
      <3>3. QED
        BY <3>1, <3>2
    <2> HIDE DEF g
    <2>5. g = [i \in 0 .. n + 1 |-> g[i]]
      BY <2>3
    <2>6. Recurs(g, base, step, n + 1)
      BY <2>4, <2>5 DEF Recurs
    <2>7. QED
      BY <2>3, <2>6
  <1> HIDE DEF Has
  <1>3. m \in Has
    BY <1>1, <1>2, SetInduction
  <1>4. QED
    BY <1>3 DEF Has

\* What the equation says of the beginning and of each step.
HasSteps(R, base, step, m) ==
    \E f \in [0 .. m -> R] :
       f[0] = base /\ \A i \in 1 .. m : f[i] = step[<<i, f[i - 1]>>]

\* The same, step by step.
LEMMA RecursionSteps ==
    ASSUME NEW R, NEW base \in R, NEW step \in [Nat \X R -> R], NEW m \in Nat
    PROVE  HasSteps(R, base, step, m)
  <1>1. PICK f \in [0 .. m -> R] : Recurs(f, base, step, m)
    BY RecursionExists
  <1>2. \A i \in 0 .. m : f[i] = IF i = 0 THEN base ELSE step[<<i, f[i - 1]>>]
    BY <1>1, Zenon DEF Recurs
  <1>3. 0 \in 0 .. m /\ \A i \in 1 .. m : i \in 0 .. m /\ i # 0
    OBVIOUS
  <1>4. f[0] = base /\ \A i \in 1 .. m : f[i] = step[<<i, f[i - 1]>>]
    BY <1>2, <1>3, Zenon
  <1>5. QED
    BY <1>4, Zenon DEF HasSteps

-----------------------------------------------------------------------------
(* FlattenSeq.                                                             *)

\* f[i] is the concatenation of the first i sequences.
Joins(f, seqs, S) ==
    /\ f \in [0 .. Len(seqs) -> Seq(S)]
    /\ f[0] = <<>>
    /\ \A i \in 1 .. Len(seqs) : f[i] = f[i - 1] \o seqs[i]

\* They exist, and the last one is FlattenSeq.
LEMMA FlattenPrefixes ==
    ASSUME NEW S, NEW seqs \in Seq(Seq(S))
    PROVE  \E f : Joins(f, seqs, S) /\ FlattenSeq(seqs) = f[Len(seqs)]
  <1> DEFINE n == Len(seqs)
             step == [p \in Nat \X Seq(S) |-> IF p[1] \in 1 .. n THEN p[2] \o seqs[p[1]] ELSE <<>>]
             Flattens(g) == g = [i \in 1 .. n |-> IF i = 1 THEN seqs[i] ELSE g[i - 1] \o seqs[i]]
             g == CHOOSE g : Flattens(g)
             e == [i \in 0 .. n |-> IF i = 0 THEN <<>> ELSE g[i]]
  <1>1. n \in Nat /\ \A i \in 1 .. n : seqs[i] \in Seq(S)
    OBVIOUS
  <1>2. <<>> \in Seq(S)
    BY EmptySeq
  <1>3. step \in [Nat \X Seq(S) -> Seq(S)]
    <2>1. ASSUME NEW p \in Nat \X Seq(S)
          PROVE  (IF p[1] \in 1 .. n THEN p[2] \o seqs[p[1]] ELSE <<>>) \in Seq(S)
      <3>1. p[1] \in 1 .. n => p[2] \o seqs[p[1]] \in Seq(S)
        BY <1>1, ConcatProperties
      <3>2. QED
        BY <1>2, <3>1
    <2>2. QED
      BY <2>1
  <1>4. \A i \in Nat, t \in Seq(S) : i \in 1 .. n => step[<<i, t>>] = t \o seqs[i]
    OBVIOUS
  <1> HIDE DEF step, n
  <1>5. PICK f \in [0 .. n -> Seq(S)] :
           f[0] = <<>> /\ \A i \in 1 .. n : f[i] = step[<<i, f[i - 1]>>]
    <2>1. HasSteps(Seq(S), <<>>, step, n)
      BY <1>1, <1>2, <1>3, RecursionSteps
    <2>2. QED
      BY <2>1, Zenon DEF HasSteps
  <1>6. f[0] = <<>> /\ \A i \in 1 .. n : f[i] = f[i - 1] \o seqs[i]
    <2>1. \A i \in 1 .. n : i \in Nat /\ f[i - 1] \in Seq(S)
      BY <1>1
    <2>2. QED
      BY <1>4, <1>5, <2>1
  <1>7. Joins(f, seqs, S)
    BY <1>5, <1>6 DEF Joins, n
  <1>8. CASE n = 0
    <2>1. seqs = <<>>
      BY <1>1, <1>8, EmptySeq DEF n
    <2>2. FlattenSeq(seqs) = f[n]
      BY <1>6, <1>8, <2>1 DEF FlattenSeq, n
    <2>3. QED
      BY <1>7, <2>2 DEF n
  <1>9. CASE n # 0
    <2>1. \E h : Flattens(h)
      <3> DEFINE h == [i \in 1 .. n |-> f[i]]
      <3>1. ASSUME NEW i \in 1 .. n
            PROVE  h[i] = IF i = 1 THEN seqs[i] ELSE h[i - 1] \o seqs[i]
        <4>1. CASE i = 1
          <5>1. h[i] = f[1] /\ 1 \in 1 .. n /\ 1 - 1 = 0
            BY <4>1
          <5>2. f[1] = f[0] \o seqs[1] /\ seqs[1] \in Seq(S)
            BY <1>1, <1>6, <5>1
          <5>3. <<>> \o seqs[1] = seqs[1]
            BY <5>2, ConcatEmptySeq
          <5>4. h[i] = seqs[i]
            BY <1>6, <4>1, <5>1, <5>2, <5>3, Zenon
          <5>5. QED
            BY <4>1, <5>4
        <4>2. CASE i # 1
          <5>1. i - 1 \in 1 .. n /\ h[i - 1] = f[i - 1] /\ h[i] = f[i]
            BY <1>1, <4>2
          <5>2. QED
            BY <1>6, <4>2, <5>1
        <4>3. QED
          BY <4>1, <4>2
      <3>2. h = [i \in 1 .. n |-> h[i]]
        OBVIOUS
      <3> HIDE DEF h
      <3>3. Flattens(h)
        BY <3>1, <3>2
      <3>4. QED
        BY <3>3
    <2>2. Flattens(g)
      BY <2>1
    <2>3. FlattenSeq(seqs) = g[n]
      BY <1>9 DEF FlattenSeq, n
    <2> HIDE DEF g
    <2>4. \A i \in 1 .. n : g[i] = IF i = 1 THEN seqs[i] ELSE g[i - 1] \o seqs[i]
      BY <2>2, Zenon
    <2> DEFINE Same == {i \in Nat : i # 0 => g[i] = f[i]}
    <2>5. 0 \in Same
      OBVIOUS
    <2>6. ASSUME NEW i \in 0 .. n - 1, i \in Same
          PROVE  i + 1 \in Same
      <3>1. i + 1 \in 1 .. n /\ (i + 1) - 1 = i /\ i + 1 \in Nat
        BY <1>1
      <3>2. f[i + 1] = f[i] \o seqs[i + 1]
        BY <1>6, <3>1
      <3>3. CASE i = 0
        <4>1. g[i + 1] = seqs[i + 1] /\ seqs[i + 1] \in Seq(S)
          BY <1>1, <2>4, <3>1, <3>3
        <4>2. <<>> \o seqs[i + 1] = seqs[i + 1]
          BY <4>1, ConcatEmptySeq
        <4>3. f[i + 1] = g[i + 1]
          BY <1>6, <3>2, <3>3, <4>1, <4>2, Zenon
        <4>4. QED
          BY <3>1, <4>3
      <3>4. CASE i # 0
        <4>1. g[i + 1] = g[i] \o seqs[i + 1]
          <5>1. i + 1 # 1
            BY <3>4
          <5>2. QED
            BY <2>4, <3>1, <5>1
        <4>2. g[i] = f[i]
          BY <2>6, <3>4
        <4>3. g[i + 1] = f[i + 1]
          BY <3>2, <4>1, <4>2, Zenon
        <4>4. QED
          BY <3>1, <4>3
      <3>5. QED
        BY <3>3, <3>4
    <2> HIDE DEF Same
    <2>7. \A i \in 0 .. n : i \in Same
      BY <1>1, <2>5, <2>6, BoundedInduction
    <2>8. FlattenSeq(seqs) = f[n]
      BY <1>1, <1>9, <2>3, <2>7 DEF Same
    <2>9. QED
      BY <1>7, <2>8 DEF n
  <1>10. QED
    BY <1>8, <1>9

\* The concatenation of the first i sequences is determined by them.
LEMMA FlattenIs ==
    ASSUME NEW S, NEW seqs \in Seq(Seq(S)), NEW f, Joins(f, seqs, S)
    PROVE  FlattenSeq(seqs) = f[Len(seqs)]
  <1>1. PICK e : Joins(e, seqs, S) /\ FlattenSeq(seqs) = e[Len(seqs)]
    BY FlattenPrefixes
  <1>2. Len(seqs) \in Nat
    OBVIOUS
  <1> DEFINE Same == {i \in Nat : e[i] = f[i]}
  <1>3. 0 \in Same
    BY <1>1 DEF Joins
  <1>4. ASSUME NEW i \in 0 .. Len(seqs) - 1, i \in Same
        PROVE  i + 1 \in Same
    <2>1. i + 1 \in 1 .. Len(seqs) /\ (i + 1) - 1 = i /\ i + 1 \in Nat
      BY <1>2
    <2>2. e[i + 1] = e[i] \o seqs[i + 1] /\ f[i + 1] = f[i] \o seqs[i + 1]
      BY <1>1, <2>1 DEF Joins
    <2>3. e[i + 1] = f[i + 1]
      BY <1>4, <2>2, Zenon
    <2>4. QED
      BY <2>1, <2>3
  <1> HIDE DEF Same
  <1>5. \A i \in 0 .. Len(seqs) : i \in Same
    BY <1>2, <1>3, <1>4, BoundedInduction
  <1>6. QED
    BY <1>1, <1>2, <1>5 DEF Same

\* A sequence over the same set.
LEMMA FlattenType ==
    ASSUME NEW S, NEW seqs \in Seq(Seq(S))
    PROVE  FlattenSeq(seqs) \in Seq(S)
  <1>1. PICK f : Joins(f, seqs, S) /\ FlattenSeq(seqs) = f[Len(seqs)]
    BY FlattenPrefixes
  <1>2. Len(seqs) \in 0 .. Len(seqs)
    OBVIOUS
  <1>3. f \in [0 .. Len(seqs) -> Seq(S)]
    BY <1>1 DEF Joins
  <1>4. QED
    BY <1>1, <1>2, <1>3

\* Nothing is the concatenation of no sequences.
LEMMA FlattenEmpty == FlattenSeq(<<>>) = <<>>
  <1>1. <<>> \in Seq(Seq({}))
    BY EmptySeq
  <1>2. PICK f : Joins(f, <<>>, {}) /\ FlattenSeq(<<>>) = f[Len(<<>>)]
    BY <1>1, FlattenPrefixes
  <1>3. Len(<<>>) = 0 /\ f[0] = <<>>
    BY <1>2 DEF Joins
  <1>4. QED
    BY <1>2, <1>3

\* The concatenation of two lists of sequences is that of what they are.
LEMMA FlattenConcat ==
    ASSUME NEW S, NEW s \in Seq(Seq(S)), NEW t \in Seq(Seq(S))
    PROVE  FlattenSeq(s \o t) = FlattenSeq(s) \o FlattenSeq(t)
  <1>1. PICK f : Joins(f, s, S) /\ FlattenSeq(s) = f[Len(s)]
    BY FlattenPrefixes
  <1>2. PICK g : Joins(g, t, S) /\ FlattenSeq(t) = g[Len(t)]
    BY FlattenPrefixes
  <1> DEFINE m == Len(s)
             n == Len(t)
             h == [i \in 0 .. m + n |-> IF i <= m THEN f[i] ELSE f[m] \o g[i - m]]
  <1>3. /\ m \in Nat /\ n \in Nat /\ s \o t \in Seq(Seq(S)) /\ Len(s \o t) = m + n
        /\ \A i \in 1 .. m + n : (s \o t)[i] = IF i <= m THEN s[i] ELSE t[i - m]
    BY ConcatProperties
  <1>4. /\ \A i \in 0 .. m : f[i] \in Seq(S)
        /\ \A i \in 0 .. n : g[i] \in Seq(S)
        /\ f[0] = <<>> /\ g[0] = <<>>
    BY <1>1, <1>2 DEF Joins
  <1>5. \A i \in 1 .. n : t[i] \in Seq(S)
    OBVIOUS
  <1> HIDE DEF m, n
  <1>6. h[0] = <<>>
    BY <1>3, <1>4
  <1>7. \A i \in 0 .. m + n : h[i] \in Seq(S)
    <2> SUFFICES ASSUME NEW i \in 0 .. m + n
                 PROVE  h[i] \in Seq(S)
      OBVIOUS
    <2>1. CASE i <= m
      BY <1>3, <1>4, <2>1
    <2>2. CASE ~(i <= m)
      <3>1. f[m] \in Seq(S) /\ g[i - m] \in Seq(S)
        BY <1>3, <1>4, <2>2
      <3>2. f[m] \o g[i - m] \in Seq(S)
        BY <3>1, ConcatProperties
      <3>3. h[i] = f[m] \o g[i - m]
        BY <2>2
      <3>4. QED
        BY <3>2, <3>3, Zenon
    <2>3. QED
      BY <2>1, <2>2
  <1>8. ASSUME NEW i \in 1 .. m + n
        PROVE  h[i] = h[i - 1] \o (s \o t)[i]
    <2>1. i - 1 \in 0 .. m + n
      BY <1>3
    <2>2. CASE i <= m
      <3>1. h[i] = f[i] /\ h[i - 1] = f[i - 1] /\ (s \o t)[i] = s[i]
        BY <1>3, <2>1, <2>2
      <3>2. f[i] = f[i - 1] \o s[i]
        <4>1. i \in 1 .. Len(s)
          BY <1>3, <2>2 DEF m
        <4>2. QED
          BY <1>1, <4>1, Zenon DEF Joins
      <3>3. QED
        BY <3>1, <3>2, Zenon
    <2>3. CASE ~(i <= m)
      <3>1. /\ (s \o t)[i] = t[i - m]
            /\ i - m \in 1 .. n /\ i - m - 1 \in 0 .. n /\ m \in 0 .. m /\ i \in 0 .. m + n
        <4>1. i - m \in 1 .. n /\ i - m - 1 \in 0 .. n /\ m \in 0 .. m /\ i \in 0 .. m + n
          BY <1>3, <2>3
        <4>2. QED
          BY <1>3, <2>3, <4>1
      <3>2. h[i] = f[m] \o g[i - m]
        BY <2>3, <3>1
      <3>3. g[i - m] = g[i - m - 1] \o t[i - m]
        BY <1>2, <3>1 DEF Joins, n
      <3>4. f[m] \in Seq(S) /\ g[i - m - 1] \in Seq(S) /\ t[i - m] \in Seq(S)
        BY <1>4, <1>5, <3>1
      <3>5. f[m] \o (g[i - m - 1] \o t[i - m]) = (f[m] \o g[i - m - 1]) \o t[i - m]
        <4>1. ASSUME NEW a \in Seq(S), NEW b \in Seq(S), NEW c \in Seq(S)
              PROVE  a \o (b \o c) = (a \o b) \o c
          BY SMTT(30)
        <4>2. QED
          BY <3>4, <4>1, Zenon
      <3>6. h[i - 1] = f[m] \o g[i - m - 1]
        <4>1. CASE i - 1 = m
          <5>1. h[i - 1] = f[m] /\ i - m - 1 = 0
            BY <1>3, <2>1, <4>1
          <5>2. f[m] \o <<>> = f[m]
            BY <3>4, ConcatEmptySeq
          <5>3. QED
            BY <1>4, <5>1, <5>2
        <4>2. CASE i - 1 # m
          <5>1. ~(i - 1 <= m) /\ (i - 1) - m = i - m - 1
            BY <1>3, <2>1, <2>3, <4>2
          <5>2. h[i - 1] = f[m] \o g[(i - 1) - m]
            BY <2>1, <5>1
          <5>3. QED
            BY <5>1, <5>2
        <4>3. QED
          BY <4>1, <4>2
      <3>7. QED
        BY <3>1, <3>2, <3>3, <3>5, <3>6, Zenon
    <2>4. QED
      BY <2>2, <2>3
  <1>9. h[m + n] = f[m] \o g[n]
    <2>1. CASE n = 0
      <3>1. h[m + n] = f[m] /\ f[m] \in Seq(S) /\ g[n] = <<>>
        BY <1>3, <1>4, <2>1
      <3>2. f[m] \o <<>> = f[m]
        BY <3>1, ConcatEmptySeq
      <3>3. QED
        BY <3>1, <3>2
    <2>2. CASE n # 0
      <3>1. m + n \in 0 .. m + n /\ ~(m + n <= m) /\ (m + n) - m = n
        BY <1>3, <2>2
      <3>2. h[m + n] = f[m] \o g[(m + n) - m]
        BY <3>1
      <3>3. QED
        BY <3>1, <3>2
    <2>3. QED
      BY <2>1, <2>2
  <1>10. h = [i \in 0 .. m + n |-> h[i]]
    OBVIOUS
  <1> HIDE DEF h
  <1>11. Joins(h, s \o t, S)
    BY <1>3, <1>6, <1>7, <1>8, <1>10 DEF Joins
  <1>12. QED
    BY <1>1, <1>2, <1>3, <1>9, <1>11, FlattenIs DEF m, n

-----------------------------------------------------------------------------
(* Powers of two and the bits of a number.                                 *)

\* A set with one element more has twice the subsets.
LEMMA Doubles ==
    ASSUME NEW n \in Nat
    PROVE  2 ^ n \in Nat /\ 2 ^ (n + 1) = 2 * 2 ^ n
  <1> DEFINE A == 1 .. n
             B == 1 .. n + 1
             P == SUBSET A
             Q == (SUBSET B) \ P
             f == [X \in P |-> X \cup {n + 1}]
  <1>1. IsFiniteSet(A) /\ Cardinality(A) = n /\ IsFiniteSet(B) /\ Cardinality(B) = n + 1
    BY FS_Interval
  <1>2. /\ IsFiniteSet(P) /\ Cardinality(P) = 2 ^ n
        /\ IsFiniteSet(SUBSET B) /\ Cardinality(SUBSET B) = 2 ^ (n + 1)
    <2> HIDE DEF A, B
    <2>1. QED
      BY <1>1, FS_SUBSET
  <1>3. B = A \cup {n + 1} /\ n + 1 \notin A /\ n + 1 \in B
    OBVIOUS
  <1> HIDE DEF A, B
  <1>4. f \in Bijection(P, Q)
    <2>1. f \in [P -> Q]
      BY <1>3
    <2>2. \A X \in P, Y \in P : f[X] = f[Y] => X = Y
      <3>1. ASSUME NEW X \in P, NEW Y \in P, X \cup {n + 1} = Y \cup {n + 1}
            PROVE  X = Y
        BY <1>3, <3>1
      <3>2. QED
        BY <3>1
    <2>3. \A Z \in Q : \E X \in P : f[X] = Z
      <3>1. ASSUME NEW Z \in Q
            PROVE  Z \ {n + 1} \in P /\ (Z \ {n + 1}) \cup {n + 1} = Z
        BY <1>3
      <3>2. QED
        BY <3>1
    <2> HIDE DEF f, P, Q
    <2>4. QED
      BY <2>1, <2>2, <2>3, Fun_IsBij
  <1>5. P \cup Q = SUBSET B /\ P \cap Q = {}
    BY <1>3
  <1> HIDE DEF P, Q, f
  <1>6. IsFiniteSet(Q) /\ Cardinality(Q) = Cardinality(P)
    BY <1>2, <1>4, FS_Bijection DEF ExistsBijection
  <1>7. Cardinality(SUBSET B) = Cardinality(P) + Cardinality(Q) - 0
    <2>1. Cardinality(P \cup Q) = Cardinality(P) + Cardinality(Q) - Cardinality(P \cap Q)
      BY <1>2, <1>6, FS_Union
    <2>2. Cardinality(P \cap Q) = 0
      BY <1>5, FS_EmptySet
    <2>3. QED
      BY <1>5, <2>1, <2>2
  <1>8. Cardinality(P) \in Nat
    BY <1>2, FS_CardinalityType
  <1>9. QED
    BY <1>2, <1>6, <1>7, <1>8

\* A function on 0 .. m whose steps keep a type has values of that type.
LEMMA StepsType ==
    ASSUME NEW R, NEW m \in Nat, NEW g, g = [i \in 0 .. m |-> g[i]],
           g[0] \in R, \A i \in 1 .. m : g[i - 1] \in R => g[i] \in R
    PROVE  g \in [0 .. m -> R]
  <1> DEFINE Typed == {i \in Nat : g[i] \in R}
  <1>1. 0 \in Typed
    OBVIOUS
  <1>2. ASSUME NEW i \in 0 .. m - 1, i \in Typed
        PROVE  i + 1 \in Typed
    <2>1. i + 1 \in 1 .. m /\ (i + 1) - 1 = i /\ i + 1 \in Nat
      OBVIOUS
    <2>2. QED
      BY <1>2, <2>1
  <1> HIDE DEF Typed
  <1>3. \A i \in 0 .. m : i \in Typed
    BY <1>1, <1>2, BoundedInduction
  <1>4. QED
    BY <1>3 DEF Typed

\* A power is a multiple of the lower ones, and even above them.
LEMMA PowerSplit ==
    ASSUME NEW j \in Nat
    PROVE  /\ 2 ^ j \in Nat \ {0}
           /\ \A k \in Nat : j < k => \E c \in Nat \ {0} : 2 ^ k = 2 ^ j * (2 * c)
  <1> DEFINE P == {i \in Nat : 2 ^ i \in Nat \ {0}}
             Q == {i \in Nat : j < i => \E c \in Nat \ {0} : 2 ^ i = 2 ^ j * (2 * c)}
  <1>1. 0 \in P
    OBVIOUS
  <1>2. ASSUME NEW i \in Nat, i \in P
        PROVE  i + 1 \in P
    BY <1>2, Doubles
  <1> HIDE DEF P
  <1>3. j \in P
    BY <1>1, <1>2, SetInduction
  <1>4. 2 ^ j \in Nat \ {0}
    BY <1>3 DEF P
  <1>5. 0 \in Q
    OBVIOUS
  <1>6. ASSUME NEW i \in Nat, i \in Q
        PROVE  i + 1 \in Q
    <2>1. 2 ^ (i + 1) = 2 * 2 ^ i /\ 2 ^ i \in Nat
      BY Doubles
    <2>2. CASE i = j
      <3>1. 2 ^ (i + 1) = 2 ^ j * (2 * 1)
        BY <1>4, <2>1, <2>2
      <3>2. QED
        BY <3>1
    <2>3. CASE j < i
      <3>1. PICK c \in Nat \ {0} : 2 ^ i = 2 ^ j * (2 * c)
        BY <1>6, <2>3
      <3>2. 2 ^ (i + 1) = 2 ^ j * (2 * (2 * c))
        BY <1>4, <2>1, <3>1
      <3>3. 2 * c \in Nat \ {0}
        OBVIOUS
      <3>4. i + 1 \in Nat
        OBVIOUS
      <3>5. QED
        BY <3>2, <3>3, <3>4, Zenon
    <2>4. CASE i < j
      BY <2>4
    <2>5. QED
      BY <2>2, <2>3, <2>4
  <1> HIDE DEF Q
  <1>7. \A i \in Nat : i \in Q
    BY <1>5, <1>6, SetInduction
  <1>8. QED
    BY <1>4, <1>7 DEF Q

\* A quotient, by what it is multiplied with.
LEMMA QuotientIs ==
    ASSUME NEW x \in Int, NEW a \in Nat \ {0}, NEW q \in Int, a * q <= x, x < a * q + a
    PROVE  x \div a = q
  OBVIOUS

\* A quotient is what it rounds down, by less than one.
LEMMA QuotientBounds ==
    ASSUME NEW x \in Int, NEW a \in Nat \ {0}
    PROVE  /\ x \div a \in Int
           /\ a * (x \div a) <= x
           /\ x < a * (x \div a) + a
  OBVIOUS

\* A bit below the k-th does not change when the k-th is set.
LEMMA LowBits ==
    ASSUME NEW s \in Nat, NEW j \in Nat, NEW k \in Nat, j < k, NEW b \in {0, 1}
    PROVE  Bit(s + b * 2 ^ k, j) = Bit(s, j)
  <1> DEFINE a == 2 ^ j
             q == s \div a
  <1>1. a \in Nat \ {0}
    BY PowerSplit
  <1>2. PICK c \in Nat \ {0} : 2 ^ k = a * (2 * c)
    BY PowerSplit
  <1> HIDE DEF a
  <1>3. q \in Int /\ a * q <= s /\ s < a * q + a
    BY <1>1, QuotientBounds
  <1> HIDE DEF q
  <1>4. (s + b * 2 ^ k) \div a = q + 2 * (b * c)
    <2>1. CASE b = 0
      <3>1. s + b * 2 ^ k = s
        BY <1>1, <1>2, <2>1
      <3>2. s \div a = q
        BY DEF q
      <3>3. q + 2 * (b * c) = q
        BY <1>3, <2>1
      <3>4. QED
        BY <3>1, <3>2, <3>3
    <2>2. CASE b = 1
      <3> DEFINE x == s + b * 2 ^ k
                 r == q + 2 * (b * c)
      <3>1. x = s + a * (2 * c) /\ r = q + 2 * c
        BY <1>1, <1>2, <1>3, <2>2
      <3>2. x \in Int /\ r \in Int
        BY <1>1, <1>3, <3>1
      <3>3. a * r = a * q + a * (2 * c) /\ a * q \in Int /\ a * (2 * c) \in Int
        BY <1>1, <1>3, <3>1
      <3> HIDE DEF x, r
      <3>4. a * r <= x /\ x < a * r + a
        BY <1>1, <1>3, <3>1, <3>3
      <3>5. x \div a = r
        BY <1>1, <3>2, <3>4, QuotientIs
      <3>6. QED
        BY <3>5 DEF x, r
    <2>3. QED
      BY <2>1, <2>2
  <1>5. b * c \in Int
    OBVIOUS
  <1>6. (q + 2 * (b * c)) % 2 = q % 2
    BY <1>3, <1>5
  <1>7. Bit(s + b * 2 ^ k, j) = (q + 2 * (b * c)) % 2
    BY <1>4 DEF Bit, a
  <1>8. Bit(s, j) = q % 2
    BY DEF Bit, a, q
  <1>9. QED
    BY <1>6, <1>7, <1>8

\* The k-th bit of a number below 2 ^ k with the k-th bit added, and the
\* bits above a number.
LEMMA TopBit ==
    ASSUME NEW k \in Nat, NEW s \in 0 .. 2 ^ k - 1, NEW b \in {0, 1}
    PROVE  /\ s + b * 2 ^ k \in 0 .. 2 ^ (k + 1) - 1
           /\ Bit(s + b * 2 ^ k, k) = b
  <1> DEFINE a == 2 ^ k
  <1>1. a \in Nat \ {0} /\ 2 ^ (k + 1) = 2 * a
    BY PowerSplit, Doubles
  <1>2. s \in 0 .. a - 1
    OBVIOUS
  <1> HIDE DEF a
  <1>3. s + b * a \in 0 .. 2 * a - 1
    BY <1>1, <1>2
  <1>4. (s + b * a) \div a = b
    BY <1>1, <1>2, QuotientIs
  <1>5. b % 2 = b
    OBVIOUS
  <1>6. Bit(s + b * a, k) = b
    BY <1>4, <1>5 DEF Bit, a
  <1>7. QED
    BY <1>1, <1>3, <1>6 DEF a

\* A number of k bits has no bit at k or above.
LEMMA HighBits ==
    ASSUME NEW k \in Nat, NEW s \in 0 .. 2 ^ k - 1, NEW j \in Nat, k <= j
    PROVE  Bit(s, j) = 0
  <1>1. 2 ^ k \in Nat \ {0} /\ 2 ^ j \in Nat \ {0} /\ 2 ^ k <= 2 ^ j
    <2>1. CASE k = j
      BY <2>1, PowerSplit
    <2>2. CASE k < j
      <3>1. PICK c \in Nat \ {0} : 2 ^ j = 2 ^ k * (2 * c)
        BY <2>2, PowerSplit
      <3>2. 2 ^ k \in Nat \ {0} /\ 2 ^ j \in Nat \ {0}
        BY PowerSplit
      <3>3. QED
        BY <3>1, <3>2
    <2>3. QED
      BY <2>1, <2>2
  <1>2. s \div 2 ^ j = 0
    <2> DEFINE a == 2 ^ j
               m == 2 ^ k
    <2> HIDE DEF a, m
    <2>1. a \in Nat \ {0} /\ m <= a /\ m \in Nat /\ s \in 0 .. m - 1
      BY <1>1 DEF a, m
    <2>2. s \div a = 0
      BY <2>1, QuotientIs
    <2>3. QED
      BY <2>2 DEF a
  <1>3. 0 % 2 = 0
    OBVIOUS
  <1>4. Bit(s, j) = (s \div 2 ^ j) % 2
    BY DEF Bit
  <1>5. QED
    BY <1>2, <1>3, <1>4, Zenon

\* f[k] is the number of the bits below k.
PowerOf(bits, k) == IF k - 1 \in bits THEN 2 ^ (k - 1) ELSE 0
Sums(f, bits) ==
    /\ f \in [0 .. 20 -> Nat]
    /\ f[0] = 0
    /\ \A k \in 1 .. 20 : f[k] = f[k - 1] + PowerOf(bits, k)

\* They exist, and the last is NumberOf.
LEMMA NumberOfSums ==
    ASSUME NEW bits
    PROVE  \E f : Sums(f, bits) /\ NumberOf(bits) = f[20]
  <1> DEFINE step == [p \in Nat \X Nat |-> IF p[1] \in 1 .. 20 THEN p[2] + PowerOf(bits, p[1]) ELSE 0]
             IsSum(g) == g = [k \in 0 .. 20 |-> IF k = 0 THEN 0
                                   ELSE g[k - 1] + (IF k - 1 \in bits THEN 2 ^ (k - 1) ELSE 0)]
             g == CHOOSE g : IsSum(g)
  <1>1. \A k \in 1 .. 20 : PowerOf(bits, k) \in Nat
    BY Doubles DEF PowerOf
  <1>2. step \in [Nat \X Nat -> Nat]
    BY <1>1
  <1>3. \A k \in 1 .. 20, n \in Nat : step[<<k, n>>] = n + PowerOf(bits, k)
    OBVIOUS
  <1> HIDE DEF step
  <1>4. HasSteps(Nat, 0, step, 20)
    BY <1>2, RecursionSteps
  <1>5. PICK f \in [0 .. 20 -> Nat] : f[0] = 0 /\ \A k \in 1 .. 20 : f[k] = step[<<k, f[k - 1]>>]
    BY <1>4, Zenon DEF HasSteps
  <1>6. \A k \in 1 .. 20 : f[k] = f[k - 1] + PowerOf(bits, k)
    <2>1. \A k \in 1 .. 20 : f[k - 1] \in Nat
      OBVIOUS
    <2>2. QED
      BY <1>3, <1>5, <2>1, Zenon
  <1>7. IsSum(f)
    <2>1. \A k \in 0 .. 20 : f[k] = IF k = 0 THEN 0
                                   ELSE f[k - 1] + (IF k - 1 \in bits THEN 2 ^ (k - 1) ELSE 0)
      <3>1. \A k \in 0 .. 20 : k = 0 \/ k \in 1 .. 20
        OBVIOUS
      <3>2. QED
        BY <1>5, <1>6, <3>1, Zenon DEF PowerOf
    <2>2. f = [k \in 0 .. 20 |-> f[k]]
      OBVIOUS
    <2>3. QED
      BY <2>1, <2>2, Zenon
  <1>8. IsSum(g)
    BY <1>7, Zenon
  <1>9. NumberOf(bits) = g[20]
    BY Zenon DEF NumberOf
  <1> HIDE DEF g
  <1>10. g = [k \in 0 .. 20 |-> g[k]] /\ g[0] = 0 /\ \A k \in 1 .. 20 : g[k] = g[k - 1] + PowerOf(bits, k)
    <2>1. \A k \in 0 .. 20 : g[k] = IF k = 0 THEN 0
                                   ELSE g[k - 1] + (IF k - 1 \in bits THEN 2 ^ (k - 1) ELSE 0)
      BY <1>8, Zenon
    <2>2. 0 \in 0 .. 20 /\ \A k \in 1 .. 20 : k \in 0 .. 20 /\ k # 0
      OBVIOUS
    <2>3. g = [k \in 0 .. 20 |-> g[k]]
      BY <1>8
    <2>4. QED
      BY <2>1, <2>2, <2>3, Zenon DEF PowerOf
  <1>11. \A k \in 1 .. 20 : g[k - 1] \in Nat => g[k] \in Nat
    BY <1>1, <1>10
  <1>12. g \in [0 .. 20 -> Nat]
    <2>1. g[0] \in Nat /\ 20 \in Nat
      BY <1>10
    <2>2. QED
      BY <1>10, <1>11, <2>1, StepsType, Zenon
  <1>13. QED
    BY <1>9, <1>10, <1>12 DEF Sums

\* What each of them is.
LEMMA SumsHaveBits ==
    ASSUME NEW bits, NEW f, Sums(f, bits), NEW m \in 0 .. 20
    PROVE  /\ f[m] \in 0 .. 2 ^ m - 1
           /\ \A j \in Nat : Bit(f[m], j) = (IF j < m /\ j \in bits THEN 1 ELSE 0)
  <1> DEFINE Right == {k \in Nat : /\ f[k] \in 0 .. 2 ^ k - 1
                                   /\ \A j \in Nat : Bit(f[k], j) = (IF j < k /\ j \in bits THEN 1 ELSE 0)}
  <1>1. 0 \in Right
    <2>1. f[0] = 0 /\ 0 \in 0 .. 2 ^ 0 - 1
      BY DEF Sums
    <2>2. \A j \in Nat : Bit(0, j) = 0
      <3>1. ASSUME NEW j \in Nat, NEW k \in Nat, k = 0
            PROVE  Bit(k, j) = 0
        <4>1. k \in 0 .. 2 ^ k - 1
          BY <3>1, PowerSplit
        <4>2. k <= j
          BY <3>1
        <4>3. QED
          BY <4>1, <4>2, HighBits, Zenon
      <3>2. QED
        BY <3>1, Zenon
    <2>3. QED
      BY <2>1, <2>2
  <1>2. ASSUME NEW k \in 0 .. 19, k \in Right
        PROVE  k + 1 \in Right
    <2> DEFINE b == IF k \in bits THEN 1 ELSE 0
               s == f[k]
    <2>1. b \in {0, 1} /\ k \in Nat /\ k + 1 \in Nat
      OBVIOUS
    <2>2. /\ s \in 0 .. 2 ^ k - 1 /\ s \in Nat
          /\ \A j \in Nat : Bit(s, j) = (IF j < k /\ j \in bits THEN 1 ELSE 0)
      BY <1>2
    <2>3. f[k + 1] = s + b * 2 ^ k
      <3>1. k + 1 \in 1 .. 20 /\ (k + 1) - 1 = k
        OBVIOUS
      <3>2. f[k + 1] = s + PowerOf(bits, k + 1)
        BY <3>1 DEF Sums
      <3>3. PowerOf(bits, k + 1) = IF k \in bits THEN 2 ^ k ELSE 0
        BY <3>1, Zenon DEF PowerOf
      <3>4. 2 ^ k \in Nat
        BY Doubles
      <3>5. QED
        BY <3>2, <3>3, <3>4
    <2>4. f[k + 1] \in 0 .. 2 ^ (k + 1) - 1 /\ Bit(f[k + 1], k) = b
      BY <2>1, <2>2, <2>3, TopBit
    <2> HIDE DEF b, s
    <2>5. ASSUME NEW j \in Nat
          PROVE  Bit(f[k + 1], j) = (IF j < k + 1 /\ j \in bits THEN 1 ELSE 0)
      <3>1. CASE j < k
        <4>1. Bit(f[k + 1], j) = Bit(s, j)
          BY <2>1, <2>2, <2>3, <3>1, LowBits
        <4>2. QED
          BY <2>2, <3>1, <4>1
      <3>2. CASE j = k
        BY <2>4, <3>2 DEF b
      <3>3. CASE j > k
        <4>1. Bit(f[k + 1], j) = 0
          BY <2>1, <2>4, <3>3, HighBits
        <4>2. QED
          BY <3>3, <4>1
      <3>4. QED
        BY <3>1, <3>2, <3>3
    <2>6. QED
      BY <2>1, <2>4, <2>5
  <1> HIDE DEF Right
  <1>3. \A k \in 0 .. 20 : k \in Right
    BY <1>1, <1>2, BoundedInduction
  <1>4. QED
    BY <1>3 DEF Right

\* The number of a set of bits has these bits.
LEMMA BitsOfNumber ==
    ASSUME NEW m \in 0 .. 20, NEW bits \in SUBSET (0 .. m - 1)
    PROVE  NumberOf(bits) \in 0 .. 2 ^ m - 1 /\ BitsOf(NumberOf(bits)) = bits
  <1>1. PICK f : Sums(f, bits) /\ NumberOf(bits) = f[20]
    BY NumberOfSums
  <1>2. \A j \in Nat : Bit(f[20], j) = (IF j < 20 /\ j \in bits THEN 1 ELSE 0)
    BY <1>1, SumsHaveBits
  <1>3. BitsOf(f[20]) = bits
    <2>1. \A j \in 0 .. 30 : Bit(f[20], j) = 1 <=> j \in bits
      <3>1. \A j \in 0 .. 30 : j \in Nat /\ (j \in bits => j < 20)
        OBVIOUS
      <3>2. QED
        BY <1>2, <3>1
    <2>2. bits \subseteq 0 .. 30
      OBVIOUS
    <2>3. QED
      BY <2>1, <2>2, Zenon DEF BitsOf
  <1> DEFINE Same == {k \in Nat : k >= m => f[k] = f[m]}
  <1>4. 0 \in Same
    OBVIOUS
  <1>5. ASSUME NEW k \in 0 .. 19, k \in Same
        PROVE  k + 1 \in Same
    <2>1. k + 1 \in 1 .. 20 /\ (k + 1) - 1 = k
      OBVIOUS
    <2>2. k >= m => f[k + 1] = f[k]
      <3>1. k >= m => PowerOf(bits, k + 1) = 0
        BY <2>1 DEF PowerOf
      <3>2. f[k] \in Nat /\ f[k + 1] = f[k] + PowerOf(bits, k + 1)
        BY <1>1, <2>1 DEF Sums
      <3>3. QED
        BY <3>1, <3>2
    <2>3. k < m /\ k + 1 >= m => k + 1 = m
      OBVIOUS
    <2>4. QED
      BY <1>5, <2>2, <2>3
  <1> HIDE DEF Same
  <1>6. \A k \in 0 .. 20 : k \in Same
    BY <1>4, <1>5, BoundedInduction
  <1>7. f[20] = f[m]
    BY <1>6 DEF Same
  <1>8. f[m] \in 0 .. 2 ^ m - 1
    BY <1>1, SumsHaveBits
  <1>9. QED
    BY <1>1, <1>3, <1>7, <1>8

\* The k-th bit is what the quotient loses when it is halved.
LEMMA Halved ==
    ASSUME NEW n \in Nat, NEW k \in Nat
    PROVE  /\ n \div 2 ^ k \in Int /\ n \div 2 ^ (k + 1) \in Int /\ Bit(n, k) \in {0, 1}
           /\ n \div 2 ^ k = 2 * (n \div 2 ^ (k + 1)) + Bit(n, k)
  <1> DEFINE a == 2 ^ k
             p == 2 ^ (k + 1)
             q == n \div a
             h == q \div 2
             e == q % 2
  <1>1. a \in Nat \ {0} /\ p = 2 * a
    BY PowerSplit, Doubles
  <1> HIDE DEF a, p
  <1>2. q \in Int /\ a * q <= n /\ n < a * q + a
    BY <1>1, QuotientBounds
  <1> HIDE DEF q
  <1>3. h \in Int /\ e \in {0, 1} /\ q = 2 * h + e
    BY <1>2
  <1> HIDE DEF h, e
  <1>4. a * q = p * h + a * e
    BY <1>1, <1>3
  <1>5. p * h \in Int /\ a * e \in 0 .. a
    BY <1>1, <1>3
  <1>6. p * h <= n /\ n < p * h + p
    BY <1>1, <1>2, <1>4, <1>5
  <1>7. n \div p = h
    BY <1>1, <1>3, <1>6, QuotientIs
  <1>8. Bit(n, k) = e
    BY DEF Bit, e, q, a
  <1>9. n \div 2 ^ k = q /\ n \div 2 ^ (k + 1) = n \div p
    BY DEF q, a, p
  <1>10. QED
    BY <1>2, <1>3, <1>7, <1>8, <1>9

\* A number of twenty bits is the number of its bits.
LEMMA NumberOfBits ==
    ASSUME NEW n \in Nat, n < 2 ^ 20
    PROVE  NumberOf(BitsOf(n) \cap (0 .. 19)) = n
  <1> DEFINE bits == BitsOf(n) \cap (0 .. 19)
  <1>1. \A k \in 0 .. 19 : k \in bits <=> Bit(n, k) = 1
    BY DEF BitsOf
  <1> HIDE DEF bits
  <1>2. PICK f : Sums(f, bits) /\ NumberOf(bits) = f[20]
    BY NumberOfSums
  <1> DEFINE Rest == {k \in Nat : f[k] = n - 2 ^ k * (n \div 2 ^ k)}
  <1>3. 0 \in Rest
    <2>1. f[0] = 0 /\ 2 ^ 0 = 1 /\ n \div 1 = n
      BY <1>2 DEF Sums
    <2>2. QED
      BY <2>1
  <1>4. ASSUME NEW k \in 0 .. 19, k \in Rest
        PROVE  k + 1 \in Rest
    <2> DEFINE a == 2 ^ k
               q == n \div a
               h == n \div 2 ^ (k + 1)
               e == Bit(n, k)
    <2>1. /\ a \in Nat /\ 2 ^ (k + 1) = 2 * a
          /\ q \in Int /\ h \in Int /\ e \in {0, 1} /\ q = 2 * h + e
      <3>1. n \in Nat /\ k \in Nat
        OBVIOUS
      <3>2. QED
        BY <3>1, Doubles, Halved, Zenon
    <2>2. f[k] = n - a * q
      BY <1>4
    <2>3. f[k + 1] = f[k] + a * e
      <3>1. k + 1 \in 1 .. 20 /\ (k + 1) - 1 = k
        OBVIOUS
      <3>2. f[k + 1] = f[k] + PowerOf(bits, k + 1)
        BY <1>2, <3>1 DEF Sums
      <3>3. PowerOf(bits, k + 1) = IF e = 1 THEN a ELSE 0
        BY <1>1, <3>1 DEF PowerOf
      <3>4. a * e = IF e = 1 THEN a ELSE 0
        BY <2>1
      <3>5. QED
        BY <3>2, <3>3, <3>4
    <2>4. f[k + 1] = n - 2 ^ (k + 1) * h
      <3> HIDE DEF a, q, h, e
      <3>1. a * q = 2 * a * h + a * e /\ a * e \in Int /\ a * h \in Int /\ a * q \in Int
        BY <2>1
      <3>2. QED
        BY <2>1, <2>2, <2>3, <3>1
    <2>5. QED
      BY <2>4
  <1> HIDE DEF Rest
  <1>5. \A k \in 0 .. 20 : k \in Rest
    BY <1>3, <1>4, BoundedInduction
  <1>6. f[20] = n - 2 ^ 20 * (n \div 2 ^ 20)
    BY <1>5 DEF Rest
  <1>7. n \div 2 ^ 20 = 0
    OBVIOUS
  <1>8. QED
    BY <1>2, <1>6, <1>7 DEF bits

-----------------------------------------------------------------------------
(* Positions.                                                              *)
Vectors == [x : Int, y : Int, z : Int]

\* A shift and its reverse, on bits within the mask.
LEMMA ShiftedBack ==
    ASSUME NEW n \in Nat, NEW bits
    PROVE  /\ ShiftLeft(bits \cap Nat, n) \subseteq {k \in Nat : k >= n}
           /\ \A k \in Nat : k \in ShiftLeft(bits \cap Nat, n) <=> k >= n /\ k - n \in bits
  <1>1. \A j \in bits \cap Nat : j + n \in Nat /\ j + n >= n /\ (j + n) - n = j
    OBVIOUS
  <1>2. \A k \in Nat : k >= n => k - n \in Nat /\ (k - n) + n = k
    OBVIOUS
  <1>3. QED
    BY <1>1, <1>2 DEF ShiftLeft

\* The fields, and where a field has a one.
Quanta(v) == Quotient(Magnitude(v) * precision, Fine)

\* The bits of a packed coordinate are those of its quanta, in its field.
LEMMA FieldBits ==
    ASSUME NEW v \in Int, NEW shift \in {xShift, yShift, zShift}
    PROVE  /\ PackCoordinate(v, shift) \subseteq Mask(shift)
           /\ \A k \in Mask(shift) : k \in PackCoordinate(v, shift) <=> k - shift \in BitsOf(Quanta(v))
  <1>1. shift \in Nat /\ Mask(shift) = shift .. shift + 19
    BY DEF xShift, yShift, zShift, Mask
  <1>2. BitsOf(Quanta(v)) = BitsOf(Quanta(v)) \cap Nat
    BY DEF BitsOf
  <1>3. PackCoordinate(v, shift) = ShiftLeft(BitsOf(Quanta(v)) \cap Nat, shift) \cap Mask(shift)
    BY <1>2, Zenon DEF PackCoordinate, Quanta
  <1>4. \A k \in Mask(shift) : k \in Nat /\ k >= shift
    BY <1>1
  <1>5. QED
    BY <1>1, <1>3, <1>4, ShiftedBack

\* The other fields leave it alone.
LEMMA FieldsApart ==
    ASSUME NEW v \in Vectors
    PROVE  /\ PackPosition(v) \subseteq 0 .. 62
           /\ PackPosition(v) \cap Mask(xShift) = PackCoordinate(v.x, xShift)
           /\ PackPosition(v) \cap Mask(yShift) = PackCoordinate(v.y, yShift)
           /\ PackPosition(v) \cap Mask(zShift) = PackCoordinate(v.z, zShift)
           /\ 2 \in PackPosition(v) <=> v.x < 0
           /\ 1 \in PackPosition(v) <=> v.y < 0
           /\ 0 \in PackPosition(v) <=> v.z < 0
  <1> DEFINE X == PackCoordinate(v.x, xShift)
             Y == PackCoordinate(v.y, yShift)
             Z == PackCoordinate(v.z, zShift)
             W == {k \in 0 .. 2 : CASE k = 2 -> v.x < 0 [] k = 1 -> v.y < 0 [] k = 0 -> v.z < 0}
  <1>1. v.x \in Int /\ v.y \in Int /\ v.z \in Int
    BY DEF Vectors
  <1>2. X \subseteq Mask(xShift) /\ Y \subseteq Mask(yShift) /\ Z \subseteq Mask(zShift)
    BY <1>1, FieldBits
  <1>3. /\ Mask(xShift) = 43 .. 62 /\ Mask(yShift) = 23 .. 42 /\ Mask(zShift) = 3 .. 22
    BY DEF Mask, xShift, yShift, zShift
  <1>4. 2 \in W <=> v.x < 0
    OBVIOUS
  <1>5. 1 \in W <=> v.y < 0
    OBVIOUS
  <1>6. 0 \in W <=> v.z < 0
    OBVIOUS
  <1>7. W \subseteq 0 .. 2
    BY Zenon
  <1>8. PackPosition(v) = X \cup Y \cup Z \cup W
    BY Zenon DEF PackPosition
  <1> DEFINE P == PackPosition(v)
  <1> HIDE DEF X, Y, Z, W, P
  <1>9. /\ P \subseteq 0 .. 62
        /\ P \cap (43 .. 62) = X /\ P \cap (23 .. 42) = Y /\ P \cap (3 .. 22) = Z
        /\ P \cap (0 .. 2) = W
    <2>1. P = X \cup Y \cup Z \cup W
      BY <1>8 DEF P
    <2>2. X \subseteq 43 .. 62 /\ Y \subseteq 23 .. 42 /\ Z \subseteq 3 .. 22
      BY <1>2, <1>3
    <2>3. /\ (43 .. 62) \cap (23 .. 42) = {} /\ (43 .. 62) \cap (3 .. 22) = {}
          /\ (43 .. 62) \cap (0 .. 2) = {} /\ (23 .. 42) \cap (3 .. 22) = {}
          /\ (23 .. 42) \cap (0 .. 2) = {} /\ (3 .. 22) \cap (0 .. 2) = {}
      OBVIOUS
    <2>4. /\ 43 .. 62 \subseteq 0 .. 62 /\ 23 .. 42 \subseteq 0 .. 62
          /\ 3 .. 22 \subseteq 0 .. 62 /\ 0 .. 2 \subseteq 0 .. 62
      OBVIOUS
    <2> DEFINE A == 43 .. 62
               B == 23 .. 42
               C == 3 .. 22
               D == 0 .. 2
               E == 0 .. 62
    <2> HIDE DEF A, B, C, D, E
    <2>5. /\ P \subseteq E /\ P \cap A = X /\ P \cap B = Y /\ P \cap C = Z /\ P \cap D = W
      <3>1. X \subseteq A /\ Y \subseteq B /\ Z \subseteq C /\ W \subseteq D
        BY <1>7, <2>2 DEF A, B, C, D
      <3>2. /\ A \cap B = {} /\ A \cap C = {} /\ A \cap D = {}
            /\ B \cap C = {} /\ B \cap D = {} /\ C \cap D = {}
        BY <2>3 DEF A, B, C, D
      <3>3. A \subseteq E /\ B \subseteq E /\ C \subseteq E /\ D \subseteq E
        BY <2>4 DEF A, B, C, D, E
      <3>4. P \subseteq E
        BY <2>1, <3>1, <3>3
      <3>5. P \cap A = X
        BY <2>1, <3>1, <3>2
      <3>6. P \cap B = Y
        BY <2>1, <3>1, <3>2
      <3>7. P \cap C = Z
        BY <2>1, <3>1, <3>2
      <3>8. P \cap D = W
        BY <2>1, <3>1, <3>2
      <3>9. QED
        BY <3>4, <3>5, <3>6, <3>7, <3>8
    <2>6. QED
      BY <2>5 DEF A, B, C, D, E
  <1>10. \A k \in 0 .. 2 : k \in P <=> k \in W
    BY <1>9
  <1>11. QED
    BY <1>3, <1>4, <1>5, <1>6, <1>9, <1>10 DEF X, Y, Z, P

\* The magnitude that is read from a field of a coordinate in range.
LEMMA FieldReadBack ==
    ASSUME NEW v \in Int, InRange(v), NEW shift \in {xShift, yShift, zShift}
    PROVE  NumberOf(ShiftRight(PackCoordinate(v, shift), shift)) = Quanta(v)
  <1>1. shift \in Nat /\ Mask(shift) = shift .. shift + 19
    BY DEF xShift, yShift, zShift, Mask
  <1>2. Quanta(v) \in Nat /\ Quanta(v) < 1048576
    <2>1. Magnitude(v) \in Nat /\ Magnitude(v) < 4096 * 1024
      BY SMT DEF InRange, Magnitude, Fine
    <2> DEFINE m == Magnitude(v)
    <2>2. Quanta(v) = IF m * 256 < 0 THEN -((-(m * 256)) \div 1024) ELSE (m * 256) \div 1024
      BY SMT DEF Quanta, Quotient, precision, Fine
    <2> HIDE DEF m
    <2>3. m \in Nat /\ m < 4096 * 1024
      BY <2>1, SMT DEF m
    <2>4. QED
      BY <2>2, <2>3, SMT
  <1> DEFINE F == PackCoordinate(v, shift)
             B == BitsOf(Quanta(v))
  <1>3. F \subseteq Mask(shift) /\ \A k \in Mask(shift) : k \in F <=> k - shift \in B
    BY FieldBits
  <1> HIDE DEF F, B
  <1>4. ShiftRight(F, shift) = {k - shift : k \in {j \in F : j >= shift}}
    BY DEF ShiftRight
  <1>5. \A k \in 0 .. 19 : k + shift \in Mask(shift) /\ (k + shift) - shift = k /\ k + shift >= shift
    BY <1>1
  <1>6. \A k \in Mask(shift) : k - shift \in 0 .. 19
    <2>1. ASSUME NEW k \in shift .. shift + 19
          PROVE  k - shift \in 0 .. 19
      BY <1>1
    <2>2. QED
      BY <1>1, <2>1, Zenon
  <1>7. ShiftRight(F, shift) = B \cap (0 .. 19)
    BY <1>3, <1>4, <1>5, <1>6
  <1>8. 2 ^ 20 = 1048576
    OBVIOUS
  <1>9. NumberOf(BitsOf(Quanta(v)) \cap (0 .. 19)) = Quanta(v)
    BY <1>2, <1>8, NumberOfBits
  <1>10. QED
    BY <1>7, <1>9 DEF F, B

\* Below a quantum is lost.
LEMMA CoordinateClose ==
    ASSUME NEW v \in Int, InRange(v), NEW shift \in {xShift, yShift, zShift},
           NEW bits, NEW sign, bits \cap Mask(shift) = PackCoordinate(v, shift),
           sign \in bits <=> v < 0
    PROVE  Apart(v, UnpackCoordinate(bits, shift, sign)) * precision < Fine
  <1> DEFINE u == (Quanta(v) * Fine) \div precision
  <1>1. UnpackCoordinate(bits, shift, sign) = IF sign \in bits THEN -u ELSE u
    BY FieldReadBack, Zenon DEF UnpackCoordinate
  <1>2. u = 4 * ((IF v < 0 THEN -v ELSE v) \div 4)
    <2>1. \A m \in Nat : (((m * 256) \div 1024) * 1024) \div 256 = 4 * (m \div 4) /\ m * 256 >= 0
      BY SMT
    <2>2. Magnitude(v) \in Nat /\ Magnitude(v) = IF v < 0 THEN -v ELSE v
      BY SMT DEF Magnitude
    <2>3. Quanta(v) = (Magnitude(v) * 256) \div 1024
      BY <2>1, <2>2, SMT DEF Quanta, Quotient, precision, Fine
    <2>4. u = (Quanta(v) * 1024) \div 256
      BY SMT DEF precision, Fine
    <2>5. QED
      BY <2>1, <2>2, <2>3, <2>4, SMT
  <1> HIDE DEF u
  <1>3. QED
    BY <1>1, <1>2, SMT DEF Apart, Magnitude, precision, Fine

\* Each coordinate in range comes back within a quantum, whatever the others are.
LEMMA PositionClose ==
    ASSUME NEW v \in Vectors, NEW c \in {"x", "y", "z"}, InRange(v[c])
    PROVE  Apart(v[c], UnpackPosition(PackPosition(v))[c]) * precision < Fine
  <1>1. v.x \in Int /\ v.y \in Int /\ v.z \in Int
    BY DEF Vectors
  <1>2. CASE c = "x"
    <2>1. UnpackPosition(PackPosition(v))[c] = UnpackCoordinate(PackPosition(v), xShift, 2)
      BY <1>2 DEF UnpackPosition
    <2>2. QED
      BY <1>1, <1>2, <2>1, FieldsApart, CoordinateClose
  <1>3. CASE c = "y"
    <2>1. UnpackPosition(PackPosition(v))[c] = UnpackCoordinate(PackPosition(v), yShift, 1)
      BY <1>3 DEF UnpackPosition
    <2>2. QED
      BY <1>1, <1>3, <2>1, FieldsApart, CoordinateClose
  <1>4. CASE c = "z"
    <2>1. UnpackPosition(PackPosition(v))[c] = UnpackCoordinate(PackPosition(v), zShift, 0)
      BY <1>4 DEF UnpackPosition
    <2>2. QED
      BY <1>1, <1>4, <2>1, FieldsApart, CoordinateClose
  <1>5. QED
    BY <1>2, <1>3, <1>4

\* The bits of a packed position are those of a U64.
LEMMA PackBits ==
    ASSUME NEW v
    PROVE  PackPosition(v) \in SUBSET (0 .. 63)
  <1>1. \A u, shift : PackCoordinate(u, shift) \subseteq Mask(shift)
    BY DEF PackCoordinate
  <1>2. /\ Mask(xShift) \subseteq 0 .. 63 /\ Mask(yShift) \subseteq 0 .. 63
        /\ Mask(zShift) \subseteq 0 .. 63 /\ 0 .. 2 \subseteq 0 .. 63
    BY SMT DEF Mask, xShift, yShift, zShift
  <1>3. QED
    BY <1>1, <1>2, Zenon DEF PackPosition

\* Whatever the bits are, what is read is a vector.
LEMMA UnpackType ==
    ASSUME NEW bits
    PROVE  UnpackPosition(bits) \in Vectors
  <1>1. ASSUME NEW b
        PROVE  NumberOf(b) \in Nat
    <2>1. PICK f : Sums(f, b) /\ NumberOf(b) = f[20]
      BY NumberOfSums
    <2>2. QED
      BY <2>1 DEF Sums
  <1>2. ASSUME NEW shift, NEW sign
        PROVE  UnpackCoordinate(bits, shift, sign) \in Int
    <2> DEFINE n == NumberOf(ShiftRight(bits \cap Mask(shift), shift))
    <2>1. n \in Nat
      BY <1>1, Zenon
    <2> HIDE DEF n
    <2>2. (n * Fine) \div precision \in Int
      BY <2>1, SMT DEF Fine, precision
    <2>3. UnpackCoordinate(bits, shift, sign) =
             IF sign \in bits THEN -((n * Fine) \div precision) ELSE (n * Fine) \div precision
      BY Zenon DEF UnpackCoordinate, n
    <2>4. QED
      BY <2>2, <2>3, SMT
  <1>3. QED
    BY <1>2 DEF UnpackPosition, Vectors

\* The eight bytes of a number of 64 bits, the most significant first.
LongOf(bits) == [i \in 1 .. 8 |-> NumberOf(ShiftRight(bits, 64 - 8 * i) \cap (0 .. 7))]
BitsOfLong(number) == UNION {ShiftLeft(BitsOf(number[i]), 64 - 8 * i) : i \in 1 .. 8}

\* The bits of a U64 lie in eight bytes and are found in them again.
LEMMA LongReadBack ==
    ASSUME NEW bits \in SUBSET (0 .. 63)
    PROVE  LongOf(bits) \in [1 .. 8 -> Char] /\ BitsOfLong(LongOf(bits)) = bits
  <1> DEFINE B(i) == ShiftRight(bits, 64 - 8 * i) \cap (0 .. 7)
  <1>1. ASSUME NEW i \in 1 .. 8
        PROVE  NumberOf(B(i)) \in Char /\ BitsOf(NumberOf(B(i))) = B(i)
    <2>1. B(i) \in SUBSET (0 .. 8 - 1) /\ 8 \in 0 .. 20
      OBVIOUS
    <2> HIDE DEF B
    <2>2. NumberOf(B(i)) \in 0 .. 2 ^ 8 - 1 /\ BitsOf(NumberOf(B(i))) = B(i)
      BY <2>1, BitsOfNumber
    <2>3. QED
      BY <2>2 DEF Char
  <1>2. \A i \in 1 .. 8 : LongOf(bits)[i] = NumberOf(B(i))
    BY DEF LongOf
  <1>3. LongOf(bits) \in [1 .. 8 -> Char]
    BY <1>1 DEF LongOf
  <1>4. ASSUME NEW i \in 1 .. 8, NEW k \in Nat
        PROVE  k \in ShiftLeft(B(i), 64 - 8 * i) <=> k \in bits /\ k - (64 - 8 * i) \in 0 .. 7
    <2> DEFINE n == 64 - 8 * i
    <2>1. n \in Nat
      OBVIOUS
    <2>2. B(i) = B(i) \cap Nat /\ \A j \in 0 .. 7 : j \in B(i) <=> j + n \in bits
      <3> HIDE DEF n
      <3>1. B(i) = ShiftRight(bits, n) \cap (0 .. 7)
        BY DEF n
      <3>2. ASSUME NEW j \in 0 .. 7
            PROVE  j \in ShiftRight(bits, n) <=> j + n \in bits
        <4>1. (j + n) - n = j /\ j + n >= n
          BY <2>1
        <4>2. \A l \in bits : l \in Int /\ (l - n = j => l = j + n)
          BY <2>1
        <4>3. QED
          BY <4>1, <4>2 DEF ShiftRight
      <3>3. QED
        BY <3>1, <3>2
    <2> HIDE DEF B, n
    <2>3. k \in ShiftLeft(B(i) \cap Nat, n) <=> k >= n /\ k - n \in B(i)
      BY <2>1, ShiftedBack
    <2>4. k - n \in B(i) => k - n \in 0 .. 7
      BY DEF B
    <2>5. k - n \in 0 .. 7 => (k - n) + n = k /\ k >= n
      BY <2>1
    <2>6. k \in ShiftLeft(B(i), n) <=> k \in bits /\ k - n \in 0 .. 7
      BY <2>2, <2>3, <2>4, <2>5
    <2>7. QED
      BY <2>6 DEF n
  <1> HIDE DEF B
  <1>5. BitsOfLong(LongOf(bits)) = UNION {ShiftLeft(B(i), 64 - 8 * i) : i \in 1 .. 8}
    BY <1>1, <1>2, Zenon DEF BitsOfLong
  <1>6. \A i \in 1 .. 8 : ShiftLeft(B(i), 64 - 8 * i) \subseteq Nat
    <2>1. \A i \in 1 .. 8 : 64 - 8 * i \in Nat /\ B(i) \subseteq Nat
      BY DEF B
    <2>2. QED
      BY <2>1 DEF ShiftLeft
  <1>7. \A k \in 0 .. 63 : \E i \in 1 .. 8 : k - (64 - 8 * i) \in 0 .. 7
    <2>1. ASSUME NEW k \in 0 .. 63
          PROVE  8 - k \div 8 \in 1 .. 8 /\ k - (64 - 8 * (8 - k \div 8)) \in 0 .. 7
      OBVIOUS
    <2>2. QED
      BY <2>1
  <1> DEFINE L(i) == ShiftLeft(B(i), 64 - 8 * i)
  <1> HIDE DEF L
  <1>8. BitsOfLong(LongOf(bits)) = UNION {L(i) : i \in 1 .. 8}
    BY <1>5 DEF L
  <1>9. \A i \in 1 .. 8 : L(i) \subseteq bits
    <2>1. ASSUME NEW i \in 1 .. 8, NEW k \in L(i)
          PROVE  k \in bits
      <3>1. k \in Nat
        BY <1>6 DEF L
      <3>2. QED
        BY <1>4, <3>1 DEF L
    <2>2. QED
      BY <2>1
  <1>10. \A k \in bits : \E i \in 1 .. 8 : k \in L(i)
    <2>1. ASSUME NEW k \in bits
          PROVE  \E i \in 1 .. 8 : k \in L(i)
      <3>1. PICK i \in 1 .. 8 : k - (64 - 8 * i) \in 0 .. 7
        BY <1>7
      <3>2. k \in Nat
        OBVIOUS
      <3>3. k \in L(i)
        BY <1>4, <3>1, <3>2 DEF L
      <3>4. QED
        BY <3>3
    <2>2. QED
      BY <2>1
  <1>11. BitsOfLong(LongOf(bits)) = bits
    BY <1>8, <1>9, <1>10
  <1>12. QED
    BY <1>3, <1>11

-----------------------------------------------------------------------------
(* Rotations.                                                              *)

Ticks == 0 .. 1023

\* The remainder, made positive, differs by whole turns.
LEMMA WrapTurns ==
    ASSUME NEW n \in Int
    PROVE  Wrap(n, 1024) \in Ticks /\ \E t \in Int : n = Wrap(n, 1024) + 1024 * t
  <1>1. Quotient(n, 1024) \in Int
    BY SMT DEF Quotient
  <1> DEFINE r == n - 1024 * Quotient(n, 1024)
  <1>2. r \in Int /\ r > -1024 /\ r < 1024
    BY SMT DEF Quotient
  <1>3. Wrap(n, 1024) = IF r < 0 THEN r + 1024 ELSE r
    BY Zenon DEF Wrap, Remainder
  <1>4. CASE r < 0
    <2>1. n = (r + 1024) + 1024 * (Quotient(n, 1024) - 1)
      BY <1>1, SMT
    <2>2. Quotient(n, 1024) - 1 \in Int
      BY <1>1
    <2> HIDE DEF r
    <2>3. QED
      BY <1>2, <1>3, <1>4, <2>1, <2>2 DEF Ticks
  <1>5. CASE ~(r < 0)
    <2>1. n = r + 1024 * Quotient(n, 1024)
      BY <1>1, SMT
    <2> HIDE DEF r
    <2>2. QED
      BY <1>1, <1>2, <1>3, <1>5, <2>1 DEF Ticks
  <1>6. QED
    BY <1>4, <1>5

\* The fields of an int do not touch.
LEMMA RotationFields ==
    ASSUME NEW x \in Ticks, NEW y \in Ticks, NEW z \in Ticks
    PROVE  /\ PackRotation(x, y, z) \in Nat /\ PackRotation(x, y, z) < 1073741824
           /\ UnpackRotation(PackRotation(x, y, z)) = [x |-> x, y |-> y, z |-> z]
  <1> USE DEF Ticks
  <1> DEFINE v == x * 1048576 + y * 1024 + z
  <1>1. PackRotation(x, y, z) = v
    BY SMT DEF PackRotation, shiftX, shiftY
  <1>2. v \in Nat /\ v < 1073741824
    BY SMT
  <1>3. Field(v, shiftX + shiftY) = x * 1048576
    <2>1. (v \div 1048576) % 1024 = x
      BY SMT
    <2>2. Field(v, shiftX + shiftY) = ((v \div 1048576) % 1024) * 1048576
      BY SMT DEF Field, shiftX, shiftY, mask, quantization
    <2>3. QED
      BY <2>1, <2>2, SMT
  <1>4. Field(v - x * 1048576, shiftY) = y * 1024
    <2>1. ((v - x * 1048576) \div 1024) % 1024 = y
      BY SMT
    <2>2. Field(v - x * 1048576, shiftY) = (((v - x * 1048576) \div 1024) % 1024) * 1024
      BY SMT DEF Field, shiftY, mask, quantization
    <2>3. QED
      BY <2>1, <2>2, SMT
  <1>5. UnpackRotation(v) = [x |-> (x * 1048576) \div 1048576, y |-> (y * 1024) \div 1024,
                             z |-> (v - x * 1048576) - y * 1024]
    <2>1. 2 ^ (shiftX + shiftY) = 1048576 /\ 2 ^ shiftY = 1024
      BY SMT DEF shiftX, shiftY
    <2>2. QED
      BY <1>3, <1>4, <2>1, SMT DEF UnpackRotation
  <1>6. (x * 1048576) \div 1048576 = x /\ (y * 1024) \div 1024 = y /\ (v - x * 1048576) - y * 1024 = z
    BY SMT
  <1>7. QED
    BY <1>1, <1>2, <1>5, <1>6, SMT

\* An angle is read within a quantum of what it was, on the circle.
LEMMA AngleClose ==
    ASSUME NEW angle \in Int
    PROVE  /\ ConvertDegToQuantitized(angle) \in Ticks
           /\ AnglesApart(angle, ConvertDegToQuantitized(angle) * 360 * Tenths) < 360 * Tenths
  <1> DEFINE q == Quotient(angle * 1024, 3600)
             w == ConvertDegToQuantitized(angle)
             e == angle * 1024 - q * 3600
  <1>1. q \in Int /\ e > -3600 /\ e < 3600
    <2>1. angle * 1024 \in Int
      OBVIOUS
    <2> DEFINE m == angle * 1024
    <2> HIDE DEF m
    <2>2. Quotient(m, 3600) \in Int /\ m - Quotient(m, 3600) * 3600 > -3600
                                     /\ m - Quotient(m, 3600) * 3600 < 3600
      BY <2>1, SMT DEF m, Quotient
    <2>3. QED
      BY <2>2 DEF m
  <1>2. w = Wrap(q, 1024)
    BY SMT DEF ConvertDegToQuantitized, quantization, Tenths
  <1> HIDE DEF q
  <1>3. w \in Ticks /\ \E t \in Int : q = w + 1024 * t
    BY <1>1, <1>2, WrapTurns
  <1>4. PICK t \in Int : q = w + 1024 * t
    BY <1>3
  <1> HIDE DEF w, e
  <1>5. angle * 1024 - w * 360 * 10 = e + 3686400 * t
    BY <1>1, <1>3, <1>4, SMT DEF e, Ticks
  <1> DEFINE D == e + 3686400 * t
             d == (IF D < 0 THEN -D ELSE D) % 3686400
  <1>6. e \in Int /\ e > -3600 /\ e < 3600
    BY <1>1 DEF e
  <1>7. d = e \/ d = -e \/ d = 3686400 - e \/ d = 3686400 + e
    BY <1>6, SMT
  <1>8. d \in Int /\ d >= 0 /\ d < 3686400
    BY <1>6, SMT
  <1>9. AnglesApart(angle, w * 360 * Tenths) = Least(d, 3686400 - d)
    BY <1>5, SMT DEF AnglesApart, Apart, Magnitude, quantization, Tenths
  <1> HIDE DEF d
  <1>10. Least(d, 3686400 - d) < 3600
    BY <1>6, <1>7, <1>8, SMT DEF Least
  <1>11. QED
    BY <1>3, <1>9, <1>10, SMT DEF w, Tenths

\* All three angles, through the int that is sent.
LEMMA RotationClose ==
    ASSUME NEW v \in Vectors
    PROVE  /\ SetRotation(v) \in Nat /\ SetRotation(v) < 1073741824
           /\ \A c \in {"x", "y", "z"} : AnglesApart(v[c], GetRotation(SetRotation(v))[c]) < 360 * Tenths
  <1> DEFINE x == ConvertDegToQuantitized(v.x)
             y == ConvertDegToQuantitized(v.y)
             z == ConvertDegToQuantitized(v.z)
  <1>1. v.x \in Int /\ v.y \in Int /\ v.z \in Int
    BY DEF Vectors
  <1>2. x \in Ticks /\ y \in Ticks /\ z \in Ticks
    BY <1>1, AngleClose
  <1>3. SetRotation(v) = PackRotation(x, y, z)
    BY Zenon DEF SetRotation
  <1>4. /\ AnglesApart(v.x, x * 360 * Tenths) < 360 * Tenths
        /\ AnglesApart(v.y, y * 360 * Tenths) < 360 * Tenths
        /\ AnglesApart(v.z, z * 360 * Tenths) < 360 * Tenths
    BY <1>1, AngleClose
  <1> HIDE DEF x, y, z
  <1>5. /\ SetRotation(v) \in Nat /\ SetRotation(v) < 1073741824
        /\ UnpackRotation(SetRotation(v)) = [x |-> x, y |-> y, z |-> z]
    BY <1>2, <1>3, RotationFields
  <1>6. /\ GetRotation(SetRotation(v))["x"] = x * 360 * Tenths
        /\ GetRotation(SetRotation(v))["y"] = y * 360 * Tenths
        /\ GetRotation(SetRotation(v))["z"] = z * 360 * Tenths
    BY <1>5, SMT DEF GetRotation
  <1>7. QED
    <2>1. /\ v["x"] = v.x /\ v["y"] = v.y /\ v["z"] = v.z
      OBVIOUS
    <2>2. QED
      BY <1>4, <1>5, <1>6, <2>1, SMT

\* Whatever int was read, its angles are integers.
LEMMA GetRotationType ==
    ASSUME NEW value \in Nat
    PROVE  GetRotation(value) \in [{"x", "y", "z"} -> Int]
  <1>1. \A n \in Int : Field(n, shiftX + shiftY) \in Int /\ Field(n, shiftY) \in Int
    BY SMT DEF Field, shiftX, shiftY, mask, quantization
  <1> DEFINE x == Field(value, shiftX + shiftY)
             y == Field(value - x, shiftY)
  <1>2. x \in Int /\ y \in Int
    BY <1>1
  <1> HIDE DEF x, y
  <1>3. x \div 1048576 \in Int /\ y \div 1024 \in Int
    BY <1>2
  <1>4. 2 ^ (shiftX + shiftY) = 1048576 /\ 2 ^ shiftY = 1024
    BY SMT DEF shiftX, shiftY
  <1>5. UnpackRotation(value) = [x |-> x \div 1048576, y |-> y \div 1024, z |-> value - x - y]
    BY <1>4, SMT DEF UnpackRotation, x, y
  <1>6. \A c \in {"x", "y", "z"} : UnpackRotation(value)[c] \in Int
    BY <1>2, <1>3, <1>5, SMT
  <1>7. QED
    BY <1>6, SMT DEF GetRotation, Tenths

-----------------------------------------------------------------------------
(* Numbers.                                                                *)
Numbers(w) == [1 .. w -> Char]

\* Characters and bytes are numbers below 256.
LEMMA Chars ==
    /\ \A c \in Char : c \in Nat /\ c < 256
    /\ \A n \in Int : n % 256 \in Char
    /\ 0 \in Char /\ 1 \in Char
  BY SMT DEF Char

\* A number of w bytes is a sequence of them.
LEMMA NumberIsSeq ==
    ASSUME NEW w \in Nat, NEW number \in Numbers(w)
    PROVE  number \in Seq(Char) /\ Len(number) = w
  BY DEF Numbers

\* And back.
LEMMA SeqIsNumber ==
    ASSUME NEW w \in Nat, NEW s \in Seq(Char), Len(s) = w
    PROVE  s \in Numbers(w)
  BY DEF Numbers

\* Winsock turns the bytes around, and the memory of the host does so again:
\* every number lies in the buffer as it is, and is read as it lies there.
LEMMA NumberOutIs ==
    ASSUME NEW w \in Nat, NEW number \in Numbers(w)
    PROVE  NumberOut(number) = number /\ NumberIn(number) = number
  <1>1. number \in Seq(Char) /\ Len(number) = w
    BY NumberIsSeq
  <1>2. CASE w # 8
    BY <1>1, <1>2 DEF NumberOut, NumberIn, NetworkOrder, Memory, htonl, Reverse
  <1>3. CASE w = 8
    <2>1. ASSUME NEW s \in Numbers(8)
          PROVE  /\ Reverse(s) \in Numbers(8)
                 /\ \A i \in 1 .. 8 : Reverse(s)[i] = s[9 - i]
      <3>1. s \in Seq(Char) /\ Len(s) = 8 /\ \A i \in 1 .. 8 : s[i] \in Char
        BY <2>1, NumberIsSeq DEF Numbers
      <3>2. Reverse(s) = [i \in 1 .. 8 |-> s[(8 - i) + 1]]
        BY <3>1, Zenon DEF Reverse
      <3>3. \A i \in 1 .. 8 : (8 - i) + 1 = 9 - i /\ 9 - i \in 1 .. 8
        BY SMT
      <3>4. \A i \in 1 .. 8 : Reverse(s)[i] = s[9 - i] /\ s[9 - i] \in Char
        BY <3>1, <3>2, <3>3, Zenon
      <3>5. QED
        BY <3>2, <3>4 DEF Numbers
    <2>2. ASSUME NEW s \in Numbers(8)
          PROVE  /\ htonll(s) \in Numbers(8)
                 /\ \A i \in 1 .. 8 : htonll(s)[i] = s[9 - i]
      <3> DEFINE a == htonl(SubSeq(s, 5, 8))
                 b == htonl(SubSeq(s, 1, 4))
      <3>1. s \in Seq(Char) /\ Len(s) = 8 /\ \A i \in 1 .. 8 : s[i] \in Char
        BY <2>2, NumberIsSeq DEF Numbers
      <3>2. a = [i \in 1 .. 4 |-> s[9 - i]]
        BY <3>1 DEF htonl, Reverse
      <3>3. b = [i \in 1 .. 4 |-> s[5 - i]]
        BY <3>1 DEF htonl, Reverse
      <3>4. htonll(s) = a \o b
        BY Zenon DEF htonll
      <3> HIDE DEF a, b
      <3>5. a \in Numbers(4) /\ b \in Numbers(4)
        BY <3>1, <3>2, <3>3 DEF Numbers
      <3>6. a \in Seq(Char) /\ b \in Seq(Char) /\ Len(a) = 4 /\ Len(b) = 4
        BY <3>5, NumberIsSeq
      <3>7. /\ a \o b \in Seq(Char) /\ Len(a \o b) = 8
            /\ \A i \in 1 .. 8 : (a \o b)[i] = IF i <= 4 THEN a[i] ELSE b[i - 4]
        <4>1. /\ a \o b \in Seq(Char) /\ Len(a \o b) = Len(a) + Len(b)
              /\ \A i \in 1 .. Len(a) + Len(b) :
                    (a \o b)[i] = IF i <= Len(a) THEN a[i] ELSE b[i - Len(a)]
          BY <3>6, ConcatProperties
        <4>2. Len(a) + Len(b) = 8
          BY <3>6
        <4>3. QED
          BY <3>6, <4>1, <4>2, Zenon
      <3>8. a \o b \in Numbers(8)
        BY <3>7, SeqIsNumber
      <3>9. \A i \in 1 .. 8 : (a \o b)[i] = s[9 - i]
        <4>1. \A i \in 1 .. 4 : a[i] = s[9 - i] /\ b[i] = s[5 - i]
          BY <3>2, <3>3, Zenon
        <4>2. \A i \in 1 .. 8 : \/ i <= 4 /\ i \in 1 .. 4
                                \/ ~(i <= 4) /\ i - 4 \in 1 .. 4 /\ 5 - (i - 4) = 9 - i
          BY SMT
        <4>3. QED
          BY <3>7, <4>1, <4>2, Zenon
      <3>10. QED
        BY <3>4, <3>8, <3>9, Zenon
    <2>3. ASSUME NEW s \in Numbers(8), \A i \in 1 .. 8 : s[i] = number[i]
          PROVE  s = number
      BY <1>3, <2>3 DEF Numbers
    <2>4. \A i \in 1 .. 8 : 9 - i \in 1 .. 8 /\ 9 - (9 - i) = i
      BY SMT
    <2>5. NumberIn(number) = number
      <3>1. Reverse(number) \in Numbers(8)
        BY <1>3, <2>1
      <3>2. NumberIn(number) = htonll(Reverse(number))
        <4>1. Len(Reverse(number)) = 8
          BY <3>1, NumberIsSeq
        <4>2. QED
          BY <4>1, Zenon DEF NumberIn, Memory, NetworkOrder
      <3>3. ASSUME NEW i \in 1 .. 8
            PROVE  htonll(Reverse(number))[i] = number[i]
        <4>1. 9 - i \in 1 .. 8 /\ 9 - (9 - i) = i
          BY <2>4, Zenon
        <4>2. htonll(Reverse(number))[i] = Reverse(number)[9 - i]
          BY <2>2, <3>1, Zenon
        <4>3. Reverse(number)[9 - i] = number[9 - (9 - i)]
          BY <1>3, <2>1, <4>1
        <4>4. QED
          BY <4>1, <4>2, <4>3, Zenon
      <3>4. QED
        BY <2>2, <2>3, <3>1, <3>2, <3>3, Zenon
    <2>6. NumberOut(number) = number
      <3>1. htonll(number) \in Numbers(8)
        BY <1>3, <2>2
      <3>2. NumberOut(number) = Reverse(htonll(number))
        BY <1>1, <1>3 DEF NumberOut, Memory, NetworkOrder
      <3>3. ASSUME NEW i \in 1 .. 8
            PROVE  Reverse(htonll(number))[i] = number[i]
        <4>1. 9 - i \in 1 .. 8 /\ 9 - (9 - i) = i
          BY <2>4, Zenon
        <4>2. Reverse(htonll(number))[i] = htonll(number)[9 - i]
          BY <2>1, <3>1, Zenon
        <4>3. htonll(number)[9 - i] = number[9 - (9 - i)]
          BY <1>3, <2>2, <4>1
        <4>4. QED
          BY <4>1, <4>2, <4>3, Zenon
      <3>4. QED
        BY <2>1, <2>3, <3>1, <3>2, <3>3, Zenon
    <2>7. QED
      BY <2>5, <2>6
  <1>4. QED
    BY <1>2, <1>3

\* value[i] is the value of the first i bytes.
Values(f, number) ==
    /\ f \in [0 .. Len(number) -> Nat]
    /\ f[0] = 0
    /\ \A i \in 1 .. Len(number) : f[i] = 256 * f[i - 1] + number[i]

\* The value of a number, digit by digit.
LEMMA ValueOfSteps ==
    ASSUME NEW number \in Seq(Char)
    PROVE  \E f : Values(f, number) /\ ValueOf(number) = f[Len(number)]
  <1> DEFINE m == Len(number)
             step == [p \in Nat \X Nat |-> IF p[1] \in 1 .. m THEN 256 * p[2] + number[p[1]] ELSE 0]
             IsValue(g) == g = [i \in 0 .. m |-> IF i = 0 THEN 0 ELSE 256 * g[i - 1] + number[i]]
             g == CHOOSE g : IsValue(g)
  <1>1. m \in Nat /\ \A i \in 1 .. m : number[i] \in Nat
    <2>1. m \in Nat /\ \A i \in 1 .. m : number[i] \in Char
      OBVIOUS
    <2>2. QED
      BY <2>1, Chars, Zenon
  <1>2. ValueOf(number) = g[m]
    BY Zenon DEF ValueOf
  <1> HIDE DEF m
  <1>3. step \in [Nat \X Nat -> Nat]
    BY <1>1
  <1>4. \A i \in 1 .. m, n \in Nat : step[<<i, n>>] = 256 * n + number[i]
    BY <1>1
  <1> HIDE DEF step
  <1>5. HasSteps(Nat, 0, step, m)
    BY <1>1, <1>3, RecursionSteps
  <1>6. PICK f \in [0 .. m -> Nat] : f[0] = 0 /\ \A i \in 1 .. m : f[i] = step[<<i, f[i - 1]>>]
    BY <1>5, Zenon DEF HasSteps
  <1>7. \A i \in 1 .. m : f[i] = 256 * f[i - 1] + number[i]
    <2>1. \A i \in 1 .. m : f[i - 1] \in Nat
      BY <1>1
    <2>2. QED
      BY <1>4, <1>6, <2>1, ZenonT(40)
  <1>8. IsValue(f)
    <2>1. \A i \in 0 .. m : i = 0 \/ i \in 1 .. m
      BY <1>1
    <2>2. \A i \in 0 .. m : f[i] = IF i = 0 THEN 0 ELSE 256 * f[i - 1] + number[i]
      BY <1>6, <1>7, <2>1, Zenon
    <2>3. f = [i \in 0 .. m |-> f[i]]
      OBVIOUS
    <2>4. QED
      BY <2>2, <2>3, Zenon
  <1>9. IsValue(g)
    BY <1>8, ZenonT(40)
  <1> HIDE DEF g
  <1>10. /\ g = [i \in 0 .. m |-> g[i]] /\ g[0] = 0
         /\ \A i \in 1 .. m : g[i] = 256 * g[i - 1] + number[i]
    <2>1. \A i \in 0 .. m : g[i] = IF i = 0 THEN 0 ELSE 256 * g[i - 1] + number[i]
      BY <1>9, Zenon
    <2>2. 0 \in 0 .. m /\ \A i \in 1 .. m : i \in 0 .. m /\ i # 0
      BY <1>1
    <2>3. g = [i \in 0 .. m |-> g[i]]
      BY <1>9
    <2>4. QED
      BY <2>1, <2>2, <2>3, Zenon
  <1>11. \A i \in 1 .. m : g[i - 1] \in Nat => g[i] \in Nat
    <2>1. \A a, b \in Nat : 256 * a + b \in Nat
      BY SMT
    <2>2. ASSUME NEW i \in 1 .. m, g[i - 1] \in Nat
          PROVE  g[i] \in Nat
      <3>1. g[i] = 256 * g[i - 1] + number[i] /\ number[i] \in Nat
        BY <1>1, <1>10
      <3>2. QED
        BY <2>1, <2>2, <3>1, ZenonT(40)
    <2>3. QED
      BY <2>2, Zenon
  <1>12. g \in [0 .. m -> Nat]
    <2>1. g[0] \in Nat
      BY <1>10
    <2>2. QED
      BY <1>1, <1>10, <1>11, <2>1, StepsType, Zenon
  <1>13. QED
    BY <1>2, <1>10, <1>12 DEF Values, m

\* The widths that are read as counts.
LEMMA ValueOfWidth ==
    ASSUME NEW w \in {1, 2, 4}, NEW number \in Numbers(w)
    PROVE  /\ ValueOf(number) \in Nat
           /\ w = 2 => ValueOf(number) = 256 * number[1] + number[2]
           /\ w = 4 => ValueOf(number) = 256 * (256 * (256 * number[1] + number[2]) + number[3]) + number[4]
  <1>1. number \in Seq(Char) /\ Len(number) = w
    BY NumberIsSeq
  <1>2. PICK f : Values(f, number) /\ ValueOf(number) = f[Len(number)]
    BY <1>1, ValueOfSteps
  <1>3. ValueOf(number) \in Nat
    BY <1>1, <1>2 DEF Values
  <1>4. CASE w = 2
    <2>1. f[0] = 0 /\ f[1] = 256 * f[0] + number[1] /\ f[2] = 256 * f[1] + number[2]
      BY <1>1, <1>2, <1>4 DEF Values
    <2>2. number[1] \in Nat
      <3>1. number[1] \in Char
        BY <1>1, <1>4
      <3>2. QED
        BY <3>1, Chars
    <2>3. QED
      BY <1>1, <1>2, <1>3, <1>4, <2>1, <2>2
  <1>5. CASE w = 4
    <2>1. /\ f[0] = 0 /\ f[1] = 256 * f[0] + number[1] /\ f[2] = 256 * f[1] + number[2]
          /\ f[3] = 256 * f[2] + number[3] /\ f[4] = 256 * f[3] + number[4]
      BY <1>1, <1>2, <1>5 DEF Values
    <2>2. number[1] \in Nat
      <3>1. number[1] \in Char
        BY <1>1, <1>5
      <3>2. QED
        BY <3>1, Chars
    <2>3. QED
      BY <1>1, <1>2, <1>3, <1>5, <2>1, <2>2
  <1>6. QED
    BY <1>3, <1>4, <1>5

\* A count that fits its width is read as it was written.
LEMMA CountReadBack ==
    /\ \A n \in Length : Bytes(n, 2) \in Numbers(2) /\ ValueOf(Bytes(n, 2)) = n
    /\ \A n \in Count : Bytes(n, 4) \in Numbers(4) /\ ValueOf(Bytes(n, 4)) = n
  <1>1. 256 ^ 0 = 1 /\ 256 ^ 1 = 256 /\ 256 ^ 2 = 65536 /\ 256 ^ 3 = 16777216
    BY SMT
  <1>2. ASSUME NEW n \in Length
        PROVE  Bytes(n, 2) \in Numbers(2) /\ ValueOf(Bytes(n, 2)) = n
    <2>0. n \in Nat /\ n < 65536
      BY SMT DEF Length
    <2> DEFINE b == Bytes(n, 2)
    <2>1. b = [i \in 1 .. 2 |-> IF 2 - i > 3 THEN 0 ELSE (n \div 256 ^ (2 - i)) % 256]
      BY Zenon DEF Bytes
    <2>2. b[1] = (n \div 256) % 256 /\ b[2] = (n \div 1) % 256
      BY <1>1, <2>1, SMT
    <2>3. b \in Numbers(2)
      <3>1. b[1] \in Char /\ b[2] \in Char
        BY <2>0, <2>2, Chars
      <3>2. b = [i \in 1 .. 2 |-> b[i]] /\ \A i \in 1 .. 2 : i = 1 \/ i = 2
        BY <2>1, SMT
      <3>3. QED
        BY <3>1, <3>2, SMT DEF Numbers
    <2>4. ValueOf(b) = 256 * b[1] + b[2]
      BY <2>3, ValueOfWidth
    <2> HIDE DEF b
    <2>5. 256 * ((n \div 256) % 256) + ((n \div 1) % 256) = n
      BY <2>0, SMT
    <2>6. QED
      BY <2>2, <2>3, <2>4, <2>5 DEF b
  <1>3. ASSUME NEW n \in Count
        PROVE  Bytes(n, 4) \in Numbers(4) /\ ValueOf(Bytes(n, 4)) = n
    <2>0. n \in Nat /\ n <= 2147483647
      BY SMT DEF Count
    <2> DEFINE b == Bytes(n, 4)
    <2>1. b = [i \in 1 .. 4 |-> IF 4 - i > 3 THEN 0 ELSE (n \div 256 ^ (4 - i)) % 256]
      BY Zenon DEF Bytes
    <2>2. /\ b[1] = (n \div 16777216) % 256 /\ b[2] = (n \div 65536) % 256
          /\ b[3] = (n \div 256) % 256 /\ b[4] = (n \div 1) % 256
      BY <1>1, <2>1, SMT
    <2>3. b \in Numbers(4)
      <3>1. b[1] \in Char /\ b[2] \in Char /\ b[3] \in Char /\ b[4] \in Char
        BY <2>0, <2>2, Chars
      <3>2. b = [i \in 1 .. 4 |-> b[i]] /\ \A i \in 1 .. 4 : i = 1 \/ i = 2 \/ i = 3 \/ i = 4
        BY <2>1, SMT
      <3>3. QED
        BY <3>1, <3>2, SMT DEF Numbers
    <2>4. ValueOf(b) = 256 * (256 * (256 * b[1] + b[2]) + b[3]) + b[4]
      BY <2>3, ValueOfWidth
    <2> HIDE DEF b
    <2>5. 256 * (256 * (256 * ((n \div 16777216) % 256) + ((n \div 65536) % 256)) + ((n \div 256) % 256))
             + ((n \div 1) % 256) = n
      BY <2>0, SMT
    <2>6. QED
      BY <2>2, <2>3, <2>4, <2>5, SMT DEF b
  <1>4. QED
    BY <1>2, <1>3, SMT

-----------------------------------------------------------------------------
(* Bytes that lie in the buffer.                                           *)
HoldsAt(at, bytes) ==
    \A i \in 1 .. Len(bytes) : at + i <= Len(data) /\ data[at + i] = bytes[i]

\* What is copied out of the buffer are as many bytes as were asked for.
LEMMA MemcpyType ==
    ASSUME data \in Seq(Char), NEW at \in Nat, NEW n \in Nat
    PROVE  Memcpy(at, n) \in Numbers(n)
  <1>1. ASSUME NEW i \in 1 .. n
        PROVE  (IF at + i <= Len(data) THEN data[at + i] ELSE Fill) \in Char
    <2>1. at + i <= Len(data) => at + i \in 1 .. Len(data)
      OBVIOUS
    <2>2. QED
      BY <2>1, FillAssumption
  <1>2. QED
    BY <1>1 DEF Memcpy, Numbers

\* Copying bytes that lie there gives them.
LEMMA MemcpyHeld ==
    ASSUME data \in Seq(Char), NEW at \in Nat, NEW bytes \in Seq(Char), HoldsAt(at, bytes)
    PROVE  Memcpy(at, Len(bytes)) = bytes
  <1> DEFINE n == Len(bytes)
  <1>1. n \in Nat /\ bytes = [i \in 1 .. n |-> bytes[i]]
    OBVIOUS
  <1>2. \A i \in 1 .. n : at + i <= Len(data) /\ data[at + i] = bytes[i]
    BY Zenon DEF HoldsAt
  <1> HIDE DEF n
  <1>3. Memcpy(at, n) = [i \in 1 .. n |-> IF at + i <= Len(data) THEN data[at + i] ELSE Fill]
    BY Zenon DEF Memcpy
  <1>4. Memcpy(at, n) = bytes
    BY <1>1, <1>2, <1>3
  <1>5. QED
    BY <1>4 DEF n

\* Both parts of what lies there lie one behind the other.
LEMMA HeldParts ==
    ASSUME NEW at \in Nat, NEW s \in Seq(Char), NEW t \in Seq(Char), HoldsAt(at, s \o t)
    PROVE  HoldsAt(at, s) /\ HoldsAt(at + Len(s), t) /\ Len(s \o t) = Len(s) + Len(t)
  <1>1. /\ Len(s \o t) = Len(s) + Len(t) /\ Len(s) \in Nat /\ Len(t) \in Nat
        /\ \A i \in 1 .. Len(s) + Len(t) :
              (s \o t)[i] = IF i <= Len(s) THEN s[i] ELSE t[i - Len(s)]
    BY ConcatProperties
  <1>2. \A i \in 1 .. Len(s) + Len(t) : at + i <= Len(data) /\ data[at + i] = (s \o t)[i]
    BY <1>1, Zenon DEF HoldsAt
  <1>3. ASSUME NEW i \in 1 .. Len(s)
        PROVE  at + i <= Len(data) /\ data[at + i] = s[i]
    <2>1. i \in 1 .. Len(s) + Len(t) /\ i <= Len(s)
      BY <1>1
    <2>2. QED
      BY <1>1, <1>2, <2>1, Zenon
  <1>4. ASSUME NEW i \in 1 .. Len(t)
        PROVE  (at + Len(s)) + i <= Len(data) /\ data[(at + Len(s)) + i] = t[i]
    <2>1. /\ Len(s) + i \in 1 .. Len(s) + Len(t) /\ ~(Len(s) + i <= Len(s))
          /\ (Len(s) + i) - Len(s) = i /\ at + (Len(s) + i) = (at + Len(s)) + i
      BY <1>1
    <2>2. QED
      BY <1>1, <1>2, <2>1, Zenon
  <1>5. QED
    BY <1>1, <1>3, <1>4, Zenon DEF HoldsAt

\* The same as a statement about all offsets.
LEMMA HeldTwo ==
    \A at \in Nat, s, t \in Seq(Char) :
        HoldsAt(at, s \o t) => HoldsAt(at, s) /\ HoldsAt(at + Len(s), t)
  BY HeldParts

\* The same for many parts.
HeldEach(at, f, seqs) ==
    \A i \in 1 .. Len(seqs) : /\ HoldsAt(at + Len(f[i - 1]), seqs[i])
                              /\ Len(f[i]) = Len(f[i - 1]) + Len(seqs[i])

\* Each sequence of a concatenation lies where the one before it ends.
LEMMA HeldJoin ==
    ASSUME NEW at \in Nat, NEW seqs \in Seq(Seq(Char)), NEW f, Joins(f, seqs, Char),
           HoldsAt(at, f[Len(seqs)])
    PROVE  HeldEach(at, f, seqs)
  <1> DEFINE m == Len(seqs)
             Held == {k \in Nat : k <= m => HoldsAt(at, f[m - k])}
  <1>1. m \in Nat /\ \A i \in 1 .. m : seqs[i] \in Seq(Char)
    OBVIOUS
  <1>2. /\ f \in [0 .. m -> Seq(Char)]
        /\ \A i \in 1 .. m : f[i] = f[i - 1] \o seqs[i]
    BY DEF Joins
  <1>3. HoldsAt(at, f[m])
    OBVIOUS
  <1> HIDE DEF m
  <1>4. \A i \in 1 .. m : f[i - 1] \in Seq(Char) /\ seqs[i] \in Seq(Char)
    BY <1>1, <1>2
  <1>5. ASSUME NEW i \in 1 .. m, HoldsAt(at, f[i])
        PROVE  /\ HoldsAt(at, f[i - 1]) /\ HoldsAt(at + Len(f[i - 1]), seqs[i])
               /\ Len(f[i]) = Len(f[i - 1]) + Len(seqs[i])
    <2>1. f[i] = f[i - 1] \o seqs[i] /\ HoldsAt(at, f[i - 1] \o seqs[i])
      BY <1>2, <1>5
    <2>2. f[i - 1] \in Seq(Char) /\ seqs[i] \in Seq(Char)
      BY <1>4
    <2>3. /\ HoldsAt(at, f[i - 1]) /\ HoldsAt(at + Len(f[i - 1]), seqs[i])
          /\ Len(f[i - 1] \o seqs[i]) = Len(f[i - 1]) + Len(seqs[i])
      <3>1. ASSUME NEW a \in Seq(Char), NEW b \in Seq(Char), HoldsAt(at, a \o b)
            PROVE  /\ HoldsAt(at, a) /\ HoldsAt(at + Len(a), b)
                   /\ Len(a \o b) = Len(a) + Len(b)
        BY <3>1, HeldParts
      <3>2. QED
        BY <2>1, <2>2, <3>1, Zenon
    <2>4. QED
      BY <2>1, <2>3, Zenon
  <1>6. 0 \in Held
    <2>1. m - 0 = m
      BY <1>1
    <2>2. QED
      BY <1>3, <2>1
  <1>7. ASSUME NEW k \in Nat, k \in Held
        PROVE  k + 1 \in Held
    <2>1. CASE k + 1 <= m
      <3>1. m - k \in 1 .. m /\ (m - k) - 1 = m - (k + 1) /\ k <= m
        BY <1>1, <2>1
      <3>2. HoldsAt(at, f[m - k])
        BY <1>7, <3>1
      <3>3. HoldsAt(at, f[(m - k) - 1])
        BY <1>5, <3>1, <3>2, Zenon
      <3>4. QED
        BY <3>1, <3>3
    <2>2. QED
      BY <2>1
  <1> HIDE DEF Held
  <1>8. \A k \in Nat : k \in Held
    BY <1>6, <1>7, SetInduction, Zenon
  <1>9. ASSUME NEW i \in 1 .. m
        PROVE  HoldsAt(at, f[i])
    <2>1. m - i \in Nat /\ m - (m - i) = i /\ m - i <= m
      BY <1>1
    <2>2. QED
      BY <1>8, <2>1 DEF Held
  <1>10. QED
    BY <1>5, <1>9, Zenon DEF m, HeldEach

\* Numbers lie in the buffer as they are read.
LEMMA NumberHeld ==
    ASSUME data \in Seq(Char), NEW at \in Nat, NEW w \in Nat
    PROVE  /\ NumberAt(at, w) \in Numbers(w)
           /\ \A number \in Numbers(w) :
                 HoldsAt(at, NumberOut(number)) => NumberAt(at, w) = number
  <1>1. Memcpy(at, w) \in Numbers(w)
    BY MemcpyType
  <1>2. NumberAt(at, w) = Memcpy(at, w)
    BY <1>1, NumberOutIs DEF NumberAt
  <1>3. ASSUME NEW number \in Numbers(w), HoldsAt(at, NumberOut(number))
        PROVE  Memcpy(at, w) = number
    <2>1. number \in Seq(Char) /\ Len(number) = w /\ NumberOut(number) = number
      BY NumberIsSeq, NumberOutIs
    <2>2. QED
      BY <1>3, <2>1, MemcpyHeld
  <1>4. QED
    BY <1>1, <1>2, <1>3

\* Counts are numbers, and are read as they were written.
LEMMA CountHeld ==
    ASSUME data \in Seq(Char), NEW at \in Nat
    PROVE  /\ \A w \in {1, 2, 4} : ValueOf(NumberAt(at, w)) \in Nat
           /\ \A n \in Length : HoldsAt(at, NumberOut(Bytes(n, 2))) =>
                 ValueOf(NumberAt(at, 2)) = n
           /\ \A n \in Count : HoldsAt(at, NumberOut(Bytes(n, 4))) =>
                 ValueOf(NumberAt(at, 4)) = n
  <1>1. ASSUME NEW w \in {1, 2, 4}
        PROVE  ValueOf(NumberAt(at, w)) \in Nat
    <2>1. w \in Nat
      OBVIOUS
    <2>2. NumberAt(at, w) \in Numbers(w)
      BY <2>1, NumberHeld
    <2>3. QED
      BY <2>2, ValueOfWidth
  <1>2. 2 \in Nat /\ 4 \in Nat
    OBVIOUS
  <1>3. ASSUME NEW n \in Length, HoldsAt(at, NumberOut(Bytes(n, 2)))
        PROVE  ValueOf(NumberAt(at, 2)) = n
    <2>1. Bytes(n, 2) \in Numbers(2) /\ ValueOf(Bytes(n, 2)) = n
      BY <1>3, CountReadBack, Zenon
    <2>2. QED
      BY <1>2, <1>3, <2>1, NumberHeld, Zenon
  <1>4. ASSUME NEW n \in Count, HoldsAt(at, NumberOut(Bytes(n, 4)))
        PROVE  ValueOf(NumberAt(at, 4)) = n
    <2>1. Bytes(n, 4) \in Numbers(4) /\ ValueOf(Bytes(n, 4)) = n
      BY <1>4, CountReadBack, SMT
    <2>2. QED
      BY <1>2, <1>4, <2>1, NumberHeld, Zenon
  <1>5. QED
    BY <1>1, <1>3, <1>4, SMT

\* How long a written count is.
LEMMA CountOut ==
    /\ \A n \in Length :
          NumberOut(Bytes(n, 2)) \in Seq(Char) /\ Len(NumberOut(Bytes(n, 2))) = 2
    /\ \A n \in Count :
          NumberOut(Bytes(n, 4)) \in Seq(Char) /\ Len(NumberOut(Bytes(n, 4))) = 4
  <1>1. ASSUME NEW w \in Nat, NEW number \in Numbers(w)
        PROVE  NumberOut(number) \in Seq(Char) /\ Len(NumberOut(number)) = w
    <2>1. NumberOut(number) = number
      BY NumberOutIs
    <2>2. QED
      BY <2>1, NumberIsSeq
  <1>2. 2 \in Nat /\ 4 \in Nat
    OBVIOUS
  <1>3. ASSUME NEW n \in Length
        PROVE  NumberOut(Bytes(n, 2)) \in Seq(Char) /\ Len(NumberOut(Bytes(n, 2))) = 2
    BY <1>1, <1>2, <1>3, CountReadBack, Zenon
  <1>4. ASSUME NEW n \in Count
        PROVE  NumberOut(Bytes(n, 4)) \in Seq(Char) /\ Len(NumberOut(Bytes(n, 4))) = 4
    <2>1. Bytes(n, 4) \in Numbers(4)
      BY <1>4, CountReadBack, SMT
    <2>2. QED
      BY <1>1, <1>2, <2>1, Zenon
  <1>5. QED
    BY <1>3, <1>4, SMT

-----------------------------------------------------------------------------
(* Text.                                                                   *)

\* A set of numbers has a least one.
LEMMA LeastElement ==
    ASSUME NEW Z, Z \subseteq Nat, Z # {}
    PROVE  \E i \in Z : \A j \in Z : i <= j
  <1>1. PICK x \in Z : \A y \in Z : ~ (<<y, x>> \in OpToRel(<, Nat))
    BY NatLessThanWellFounded, WFMin
  <1>2. ASSUME NEW y \in Z
        PROVE  x <= y
    <2>1. x \in Nat /\ y \in Nat /\ ~ (<<y, x>> \in OpToRel(<, Nat))
      BY <1>1
    <2>2. ~ (y < x)
      BY <2>1 DEF OpToRel
    <2>3. x \in Nat /\ y \in Nat
      BY <2>1
    <2>4. QED
      BY <2>2, <2>3
  <1>3. QED
    BY <1>2

\* A C string is the text up to its first zero.
LEMMA CStringIs ==
    ASSUME NEW text \in Seq(Char)
    PROVE  /\ CString(text) \in Seq(Char)
           /\ \A n \in 0 .. Len(text) :
                 (\A i \in 1 .. n : text[i] # 0) /\ (n < Len(text) => text[n + 1] = 0)
                    => CString(text) = SubSeq(text, 1, n)
  <1> DEFINE zeros == {i \in DOMAIN text : text[i] = 0}
             first == CHOOSE i \in zeros : \A j \in zeros : i <= j
  <1>1. /\ Len(text) \in Nat /\ DOMAIN text = 1 .. Len(text)
        /\ \A i \in 1 .. Len(text) : text[i] \in Char
    OBVIOUS
  <1>2. zeros \subseteq Nat /\ \A i \in 1 .. Len(text) : i \in zeros <=> text[i] = 0
    BY <1>1
  <1>3. zeros \subseteq 1 .. Len(text)
    BY <1>1
  <1>4. CString(text) = IF zeros = {} THEN text ELSE SubSeq(text, 1, first - 1)
    BY Zenon DEF CString
  <1> HIDE DEF zeros
  <1>5. zeros # {} => first \in zeros /\ \A j \in zeros : first <= j
    <2>1. zeros # {} => \E i \in zeros : \A j \in zeros : i <= j
      BY <1>2, LeastElement
    <2>2. QED
      BY <2>1, Zenon
  <1> HIDE DEF first
  <1>6. CString(text) \in Seq(Char)
    <2>1. CASE zeros = {}
      BY <1>4, <2>1
    <2>2. CASE zeros # {}
      <3>1. first \in 1 .. Len(text)
        BY <1>3, <1>5, <2>2
      <3>2. first - 1 \in Int /\ 1 \in Int /\ \A i \in 1 .. first - 1 : text[i] \in Char
        BY <1>1, <3>1
      <3>3. SubSeq(text, 1, first - 1) \in Seq(Char)
        BY <3>2, SubSeqProperties
      <3>4. QED
        BY <1>4, <2>2, <3>3
    <2>3. QED
      BY <2>1, <2>2
  <1>7. ASSUME NEW n \in 0 .. Len(text), \A i \in 1 .. n : text[i] # 0,
               n < Len(text) => text[n + 1] = 0
        PROVE  CString(text) = SubSeq(text, 1, n)
    <2>1. CASE n = Len(text)
      <3>1. zeros = {}
        BY <1>2, <1>3, <1>7, <2>1
      <3>2. SubSeq(text, 1, Len(text)) = text
        OBVIOUS
      <3>3. QED
        BY <1>4, <2>1, <3>1, <3>2
    <2>2. CASE n # Len(text)
      <3>1. n + 1 \in 1 .. Len(text) /\ n < Len(text)
        <4>1. Len(text) \in Nat /\ n \in 0 .. Len(text) /\ n # Len(text)
          BY <2>2
        <4>2. QED
          BY <4>1
      <3>2. n + 1 \in zeros
        BY <1>2, <1>7, <3>1
      <3>3. first \in 1 .. Len(text) /\ first <= n + 1 /\ text[first] = 0
        <4>1. zeros # {}
          BY <3>2
        <4>2. first \in zeros /\ first <= n + 1
          BY <1>5, <3>2, <4>1, Zenon
        <4>3. QED
          BY <1>2, <1>3, <4>2
      <3>4. ~ (first <= n)
        BY <1>7, <3>3
      <3>5. first - 1 = n
        BY <1>1, <3>3, <3>4
      <3>6. QED
        BY <1>4, <3>2, <3>5, Zenon
    <2>3. QED
      BY <2>1, <2>2
  <1>8. QED
    BY <1>6, <1>7

\* Text without a zero is a C string, whatever zeros follow it.
LEMMA CStringPadded ==
    ASSUME NEW text \in Seq(Char \ {0}), NEW pad \in Seq({0})
    PROVE  CString(text \o pad) = text
  <1>1. text \in Seq(Char) /\ pad \in Seq(Char)
    <2>1. Char \ {0} \subseteq Char /\ {0} \subseteq Char
      BY Chars
    <2>2. QED
      BY <2>1, SeqMonotonic
  <1>2. /\ text \o pad \in Seq(Char) /\ Len(text \o pad) = Len(text) + Len(pad)
        /\ \A i \in 1 .. Len(text) + Len(pad) :
              (text \o pad)[i] = IF i <= Len(text) THEN text[i] ELSE pad[i - Len(text)]
    BY <1>1, ConcatProperties
  <1>3. Len(text) \in Nat /\ Len(pad) \in Nat
    OBVIOUS
  <1>4. ASSUME NEW i \in 1 .. Len(text)
        PROVE  (text \o pad)[i] = text[i] /\ text[i] # 0
    <2>1. i \in 1 .. Len(text) + Len(pad) /\ i <= Len(text) /\ text[i] \in Char \ {0}
      BY <1>3
    <2>2. QED
      BY <1>2, <2>1
  <1>5. Len(text) < Len(text \o pad) => (text \o pad)[Len(text) + 1] = 0
    <2>1. ASSUME Len(pad) > 0
          PROVE  /\ Len(text) + 1 \in 1 .. Len(text) + Len(pad) /\ ~ (Len(text) + 1 <= Len(text))
                 /\ (Len(text) + 1) - Len(text) = 1 /\ pad[1] = 0
      <3>1. pad[1] \in {0}
        BY <1>3, <2>1
      <3>2. QED
        BY <1>3, <2>1, <3>1
    <2>2. Len(text) < Len(text \o pad) => Len(pad) > 0
      BY <1>2, <1>3
    <2>3. QED
      BY <1>2, <2>1, <2>2, Zenon
  <1>6. Len(text) \in 0 .. Len(text \o pad)
    BY <1>2, <1>3
  <1>7. CString(text \o pad) = SubSeq(text \o pad, 1, Len(text))
    BY <1>2, <1>4, <1>5, <1>6, CStringIs, Zenon
  <1>8. SubSeq(text \o pad, 1, Len(text)) = text
    <2> DEFINE t == SubSeq(text \o pad, 1, Len(text))
    <2>1. \A i \in 1 .. Len(text) : (text \o pad)[i] \in Char
      BY <1>1, <1>4
    <2>2. 1 \in Int /\ Len(text) \in Int
      BY <1>3
    <2>3. /\ t \in Seq(Char) /\ Len(t) = IF 1 <= Len(text) THEN Len(text) - 1 + 1 ELSE 0
          /\ \A i \in 1 .. Len(text) - 1 + 1 : t[i] = (text \o pad)[1 + i - 1]
      <3>1. ASSUME NEW w, NEW m \in Int, NEW n \in Int, \A i \in m .. n : w[i] \in Char
            PROVE  /\ SubSeq(w, m, n) \in Seq(Char)
                   /\ Len(SubSeq(w, m, n)) = IF m <= n THEN n - m + 1 ELSE 0
                   /\ \A i \in 1 .. n - m + 1 : SubSeq(w, m, n)[i] = w[m + i - 1]
        BY <3>1, SubSeqProperties
      <3>2. QED
        BY <2>1, <2>2, <3>1, Zenon
    <2> HIDE DEF t
    <2>4. Len(t) = Len(text) /\ \A i \in 1 .. Len(text) : t[i] = text[i]
      <3>1. Len(t) = Len(text)
        BY <1>3, <2>3
      <3>2. \A i \in 1 .. Len(text) : i \in 1 .. Len(text) - 1 + 1 /\ 1 + i - 1 = i
        BY <1>3
      <3>3. QED
        BY <1>4, <2>3, <3>1, <3>2, Zenon
    <2>5. t = text
      BY <1>1, <2>3, <2>4
    <2>6. QED
      BY <2>5 DEF t
  <1>9. QED
    BY <1>7, <1>8

\* Text without a zero is a C string.
LEMMA CStringClean ==
    ASSUME NEW text \in Seq(Char \ {0})
    PROVE  CString(text) = text
  <1>1. <<>> \in Seq({0}) /\ text \o <<>> = text
    BY EmptySeq, ConcatEmptySeq
  <1>2. QED
    BY <1>1, CStringPadded

\* What a read gives: a value of S and the offset behind it.
Reads(S) == [value : S, next : Nat]

\* The parts of what is read.
LEMMA ReadingIs ==
    ASSUME NEW S, NEW v \in S, NEW n \in Nat
    PROVE  /\ Reading(v, n) \in Reads(S)
           /\ Reading(v, n).value = v /\ Reading(v, n).next = n
  BY DEF Reading, Reads

\* The lesser of two numbers.
LEMMA LeastIs ==
    ASSUME NEW m \in Nat, NEW n \in Nat
    PROVE  /\ Least(m, n) \in Nat /\ Least(m, n) <= m /\ Least(m, n) <= n
           /\ m <= n => Least(m, n) = m
  BY DEF Least

\* As many bytes as a text has, read as a C string.
LEMMA TextHeld ==
    ASSUME data \in Seq(Char), NEW at \in Nat
    PROVE  /\ \A n \in Nat : CString(Memcpy(at, n)) \in Seq(Char)
           /\ \A text \in Seq(Char) :
                 HoldsAt(at, text) => CString(Memcpy(at, Len(text))) = CString(text)
  <1>1. ASSUME NEW n \in Nat
        PROVE  CString(Memcpy(at, n)) \in Seq(Char)
    <2>1. Memcpy(at, n) \in Seq(Char)
      BY MemcpyType, NumberIsSeq
    <2>2. QED
      BY <2>1, CStringIs
  <1>2. ASSUME NEW text \in Seq(Char), HoldsAt(at, text)
        PROVE  CString(Memcpy(at, Len(text))) = CString(text)
    <2>1. Memcpy(at, Len(text)) = text
      BY <1>2, MemcpyHeld
    <2>2. QED
      BY <2>1
  <1>3. QED
    BY <1>1, <1>2

\* Two sequences of bytes, one behind the other.
LEMMA JoinIs ==
    \A s, t \in Seq(Char) : s \o t \in Seq(Char) /\ Len(s \o t) = Len(s) + Len(t)
  BY ConcatProperties

\* A text is written as two bytes for its length and its characters.
LEMMA StringOutIs ==
    ASSUME NEW text, IsText(text)
    PROVE  /\ text \in Seq(Char) /\ Len(text) \in Nat /\ Len(text) \in Length
           /\ NumberOut(Bytes(Len(text), 2)) \in Seq(Char)
           /\ Len(NumberOut(Bytes(Len(text), 2))) = 2
           /\ StringOut(text) \in Seq(Char) /\ Len(StringOut(text)) = 2 + Len(text)
  <1> DEFINE count == NumberOut(Bytes(Len(text), 2))
  <1>1. text \in Seq(Char) /\ Len(text) \in Length /\ Len(text) \in Nat
    BY DEF IsText
  <1>2. count \in Seq(Char) /\ Len(count) = 2
    BY <1>1, CountOut, Zenon
  <1>3. StringOut(text) = count \o text
    BY Zenon DEF StringOut
  <1> HIDE DEF count
  <1>4. count \o text \in Seq(Char) /\ Len(count \o text) = 2 + Len(text)
    BY <1>1, <1>2, JoinIs, Zenon
  <1>5. QED
    BY <1>1, <1>2, <1>3, <1>4, Zenon DEF count

\* A text starts with its length.
LEMMA StringOutHeld ==
    ASSUME data \in Seq(Char), NEW at \in Nat, NEW text, IsText(text),
           HoldsAt(at, StringOut(text))
    PROVE  ValueOf(NumberAt(at, 2)) = Len(text) /\ HoldsAt(at + 2, text)
  <1> DEFINE count == NumberOut(Bytes(Len(text), 2))
  <1>1. /\ text \in Seq(Char) /\ Len(text) \in Length
        /\ count \in Seq(Char) /\ Len(count) = 2
    BY StringOutIs
  <1>2. HoldsAt(at, count \o text)
    BY Zenon DEF StringOut
  <1> HIDE DEF count
  <1>3. HoldsAt(at, count) /\ HoldsAt(at + Len(count), text)
    BY <1>1, <1>2, HeldParts
  <1>4. ValueOf(NumberAt(at, 2)) = Len(text)
    BY <1>1, <1>3, CountHeld, Zenon DEF count
  <1>5. QED
    BY <1>1, <1>3, <1>4, Zenon

\* A text that the reader's buffer holds is read whole, as a C string.
LEMMA StringHeld ==
    ASSUME data \in Seq(Char), NEW at \in Nat
    PROVE  /\ StringIn(at) \in Reads(Seq(Char))
           /\ \A text : IsText(text) /\ FitsText(text) /\ HoldsAt(at, StringOut(text)) =>
                 StringIn(at) = Reading(CString(text), at + Len(StringOut(text)))
  <1> DEFINE len == Least(ValueOf(NumberAt(at, 2)), MaxString - 1)
  <1>1. StringIn(at) = Reading(CString(Memcpy(at + 2, len)), at + 2 + len)
    BY Zenon DEF StringIn
  <1>2. ValueOf(NumberAt(at, 2)) \in Nat /\ MaxString - 1 \in Nat
    <2>1. ValueOf(NumberAt(at, 2)) \in Nat
      BY CountHeld
    <2>2. QED
      BY <2>1, MaxStringAssumption
  <1>3. len \in Nat
    BY <1>2, LeastIs
  <1>4. at + 2 \in Nat /\ \A n \in Nat : at + 2 + n \in Nat /\ at + 2 + n = at + (2 + n)
    OBVIOUS
  <1>5. ASSUME NEW text, IsText(text), FitsText(text), HoldsAt(at, StringOut(text))
        PROVE  StringIn(at) = Reading(CString(text), at + Len(StringOut(text)))
    <2>1. /\ text \in Seq(Char) /\ Len(text) \in Nat
          /\ Len(StringOut(text)) = 2 + Len(text)
      BY <1>5, StringOutIs
    <2>2. ValueOf(NumberAt(at, 2)) = Len(text) /\ HoldsAt(at + 2, text)
      BY <1>5, StringOutHeld
    <2>3. len = Len(text)
      <3>1. Len(text) <= MaxString - 1
        BY <1>5, <2>1, MaxStringAssumption DEF FitsText
      <3>2. QED
        BY <1>2, <2>1, <2>2, <3>1, LeastIs, Zenon
    <2> HIDE DEF len
    <2>4. CString(Memcpy(at + 2, Len(text))) = CString(text)
      BY <1>4, <2>1, <2>2, TextHeld, Zenon
    <2>5. QED
      BY <1>1, <1>4, <2>1, <2>3, <2>4, Zenon
  <1> HIDE DEF len
  <1>6. StringIn(at) \in Reads(Seq(Char))
    <2>1. CString(Memcpy(at + 2, len)) \in Seq(Char)
      BY <1>3, <1>4, TextHeld, Zenon
    <2>2. QED
      BY <1>1, <1>3, <1>4, <2>1, ReadingIs, ZenonT(40)
  <1>7. QED
    BY <1>5, <1>6, Zenon

-----------------------------------------------------------------------------
(* Strings of fixed and bounded length.                                    *)
Clean == Char \ {0}

\* No class keeps more than sixteen characters.
LEMMA CapacityIs ==
    /\ FixedClasses \subseteq DOMAIN Capacity /\ BoundedClasses \subseteq DOMAIN Capacity
    /\ \A class \in DOMAIN Capacity : Capacity[class] \in Nat /\ Capacity[class] <= 16
  BY DEF Capacity, FixedClasses, BoundedClasses

\* The first characters of a text.
LEMMA Prefix ==
    ASSUME NEW S, NEW text \in Seq(S), NEW n \in 0 .. Len(text)
    PROVE  /\ SubSeq(text, 1, n) \in Seq(S) /\ Len(SubSeq(text, 1, n)) = n
           /\ n = Len(text) => SubSeq(text, 1, n) = text
  OBVIOUS

\* What an object holds is a text again, is no longer than its class and the
\* text, and is kept by every class that is long enough.
LEMMA CopyIs ==
    ASSUME NEW class \in DOMAIN Capacity, NEW text \in Seq(Clean)
    PROVE  /\ Copy(class, text) \in Seq(Clean)
           /\ Len(Copy(class, text)) \in Nat /\ Len(Copy(class, text)) <= Capacity[class]
           /\ Len(text) <= Capacity[class] => Copy(class, text) = text
  <1> DEFINE n == Least(Len(text), Capacity[class])
  <1>1. Len(text) \in Nat /\ Capacity[class] \in Nat
    BY CapacityIs
  <1>2. /\ n \in Nat /\ n <= Len(text) /\ n <= Capacity[class]
        /\ Len(text) <= Capacity[class] => n = Len(text)
    BY <1>1, LeastIs, Zenon
  <1>3. Copy(class, text) = SubSeq(text, 1, n)
    BY Zenon DEF Copy
  <1> HIDE DEF n
  <1>4. n \in 0 .. Len(text)
    BY <1>1, <1>2
  <1>5. /\ SubSeq(text, 1, n) \in Seq(Clean) /\ Len(SubSeq(text, 1, n)) = n
        /\ n = Len(text) => SubSeq(text, 1, n) = text
    BY <1>4, Prefix
  <1>6. QED
    BY <1>2, <1>3, <1>5, Zenon

\* Held text is short text.
LEMMA CopyIsText ==
    ASSUME NEW class \in DOMAIN Capacity, NEW text \in Seq(Clean)
    PROVE  IsText(Copy(class, text))
  <1>1. Copy(class, text) \in Seq(Clean) /\ Len(Copy(class, text)) \in Nat
        /\ Len(Copy(class, text)) <= Capacity[class]
    BY CopyIs
  <1>2. Copy(class, text) \in Seq(Char)
    BY <1>1, SeqMonotonic DEF Clean
  <1>3. Len(Copy(class, text)) < 65536
    BY <1>1, CapacityIs, SMT
  <1>4. QED
    BY <1>1, <1>2, <1>3, SMT DEF IsText, Length

\* A text of fixed length is read as what the object held.
LEMMA FixedHeld ==
    ASSUME data \in Seq(Char), NEW at \in Nat, NEW class \in DOMAIN Capacity
    PROVE  /\ FixedIn(class, at) \in Reads(Seq(Char))
           /\ \A text \in Seq(Clean) :
                 /\ FixedOut(class, text) \in Seq(Char)
                 /\ HoldsAt(at, FixedOut(class, text)) =>
                       FixedIn(class, at) = Reading(Copy(class, Copy(class, text)),
                                                    at + Len(FixedOut(class, text)))
  <1>1. Capacity[class] \in Nat /\ at + Capacity[class] \in Nat
    BY CapacityIs
  <1>2. FixedIn(class, at) = Reading(CString(Memcpy(at, Capacity[class])), at + Capacity[class])
    BY Zenon DEF FixedIn
  <1>3. FixedIn(class, at) \in Reads(Seq(Char))
    <2>1. CString(Memcpy(at, Capacity[class])) \in Seq(Char)
      BY <1>1, TextHeld, Zenon
    <2>2. Reading(CString(Memcpy(at, Capacity[class])), at + Capacity[class]) \in Reads(Seq(Char))
      BY <1>1, <2>1, ReadingIs
    <2>3. QED
      BY <1>2, <2>2
  <1>4. ASSUME NEW text \in Seq(Clean)
        PROVE  /\ FixedOut(class, text) \in Seq(Char)
               /\ HoldsAt(at, FixedOut(class, text)) =>
                     FixedIn(class, at) = Reading(Copy(class, Copy(class, text)),
                                                  at + Len(FixedOut(class, text)))
    <2> DEFINE held == Copy(class, text)
               pad == [i \in 1 .. Capacity[class] - Len(held) |-> 0]
               out == held \o pad
    <2>1. FixedOut(class, text) = out
      BY Zenon DEF FixedOut
    <2>2. /\ held \in Seq(Clean) /\ Len(held) \in Nat /\ Len(held) <= Capacity[class]
          /\ Copy(class, held) = held
      <3>1. held \in Seq(Clean) /\ Len(held) \in Nat /\ Len(held) <= Capacity[class]
        BY CopyIs
      <3>2. QED
        BY <3>1, CopyIs
    <2> HIDE DEF held
    <2>3. pad \in Seq({0}) /\ Len(pad) = Capacity[class] - Len(held)
      <3>1. Capacity[class] - Len(held) \in Nat
        BY <1>1, <2>2
      <3>2. QED
        BY <3>1
    <2> HIDE DEF pad
    <2>4. held \in Seq(Char) /\ pad \in Seq(Char)
      <3>1. Clean \subseteq Char /\ {0} \subseteq Char
        BY Chars DEF Clean
      <3>2. QED
        BY <2>2, <2>3, <3>1, SeqMonotonic, Zenon
    <2>5. out \in Seq(Char) /\ Len(out) = Capacity[class]
      <3>1. out \in Seq(Char) /\ Len(out) = Len(held) + Len(pad)
        BY <2>4, JoinIs, Zenon
      <3>2. Len(held) + Len(pad) = Capacity[class]
        BY <1>1, <2>2, <2>3
      <3>3. QED
        BY <3>1, <3>2, Zenon
    <2>6. CString(out) = held
      BY <2>2, <2>3, CStringPadded DEF Clean
    <2> HIDE DEF out
    <2>7. HoldsAt(at, out) => CString(Memcpy(at, Len(out))) = held
      BY <2>5, <2>6, TextHeld, Zenon
    <2>8. HoldsAt(at, out) => FixedIn(class, at) = Reading(Copy(class, held), at + Len(out))
      BY <1>2, <2>2, <2>5, <2>7, Zenon
    <2>9. QED
      BY <2>1, <2>5, <2>8, Zenon DEF held
  <1>5. QED
    BY <1>3, <1>4, Zenon

\* A text of bounded length is read whole by every class that is long enough.
LEMMA BoundedHeld ==
    ASSUME data \in Seq(Char), NEW at \in Nat, NEW as \in DOMAIN Capacity
    PROVE  /\ BoundedIn(as, at) \in Reads(Seq(Char))
           /\ \A class \in DOMAIN Capacity, text \in Seq(Clean) :
                 Len(Copy(class, text)) <= Capacity[as] /\ HoldsAt(at, BoundedOut(class, text)) =>
                    BoundedIn(as, at) = Reading(Copy(as, Copy(class, text)),
                                                at + Len(BoundedOut(class, text)))
  <1> DEFINE len == Least(ValueOf(NumberAt(at, 2)), Capacity[as])
  <1>1. ValueOf(NumberAt(at, 2)) \in Nat /\ Capacity[as] \in Nat
    <2>1. ValueOf(NumberAt(at, 2)) \in Nat
      BY CountHeld
    <2>2. QED
      BY <2>1, CapacityIs
  <1>2. BoundedIn(as, at) = Reading(CString(Memcpy(at + 2, len)), at + 2 + len)
    BY Zenon DEF BoundedIn
  <1>3. len \in Nat
    BY <1>1, LeastIs
  <1>4. at + 2 \in Nat /\ \A n \in Nat : at + 2 + n \in Nat /\ at + 2 + n = at + (2 + n)
    OBVIOUS
  <1>5. ASSUME NEW class \in DOMAIN Capacity, NEW text \in Seq(Clean),
               Len(Copy(class, text)) <= Capacity[as], HoldsAt(at, BoundedOut(class, text))
        PROVE  BoundedIn(as, at) = Reading(Copy(as, Copy(class, text)),
                                           at + Len(BoundedOut(class, text)))
    <2> DEFINE held == Copy(class, text)
    <2>1. /\ held \in Seq(Clean) /\ Len(held) <= Capacity[as] /\ IsText(held)
          /\ HoldsAt(at, StringOut(held)) /\ BoundedOut(class, text) = StringOut(held)
      BY <1>5, CopyIs, CopyIsText, Zenon DEF BoundedOut
    <2> HIDE DEF held
    <2>2. Copy(as, held) = held /\ CString(held) = held
      BY <2>1, CopyIs, CStringClean DEF Clean
    <2>3. held \in Seq(Char) /\ Len(held) \in Nat /\ Len(StringOut(held)) = 2 + Len(held)
      BY <2>1, StringOutIs
    <2>4. ValueOf(NumberAt(at, 2)) = Len(held) /\ HoldsAt(at + 2, held)
      BY <2>1, StringOutHeld
    <2>5. len = Len(held)
      BY <1>1, <2>1, <2>3, <2>4, LeastIs, Zenon
    <2> HIDE DEF len
    <2>6. CString(Memcpy(at + 2, Len(held))) = held
      BY <1>4, <2>2, <2>3, <2>4, TextHeld, Zenon
    <2>7. BoundedIn(as, at) = Reading(Copy(as, held), at + Len(StringOut(held)))
      BY <1>2, <1>4, <2>2, <2>3, <2>5, <2>6, Zenon
    <2>8. QED
      BY <2>1, <2>7, Zenon DEF held
  <1> HIDE DEF len
  <1>6. BoundedIn(as, at) \in Reads(Seq(Char))
    <2>1. CString(Memcpy(at + 2, len)) \in Seq(Char)
      BY <1>3, <1>4, TextHeld, Zenon
    <2>2. QED
      BY <1>2, <1>3, <1>4, <2>1, ReadingIs, Zenon
  <1>7. QED
    BY <1>5, <1>6, Zenon

-----------------------------------------------------------------------------
(* Loops that read one value behind the other.                             *)

\* g[i] is what is read when i values of V are appended to those before;
\* read tells of a number of a value and an offset what is read there.
Loop(g, V, before, at, read, n) ==
    /\ g \in [0 .. n -> Reads(Seq(V))]
    /\ g[0] = Reading(before, at)
    /\ \A i \in 1 .. n : g[i] = Extended(g[i - 1], read[<<i, g[i - 1].next>>])

HasLoop(V, before, at, read, n) == \E g : Loop(g, V, before, at, read, n)

Readers(V) == [Nat \X Nat -> Reads(V)]

\* The parts of a reading with one value more.
LEMMA ExtendedIs ==
    ASSUME NEW V, NEW r \in Reads(Seq(V)), NEW s \in Reads(V)
    PROVE  /\ Extended(r, s) \in Reads(Seq(V))
           /\ Extended(r, s) = Reading(Append(r.value, s.value), s.next)
           /\ r.next \in Nat /\ r.value \in Seq(V) /\ Len(Extended(r, s).value) = Len(r.value) + 1
  <1>1. r.value \in Seq(V) /\ r.next \in Nat /\ s.value \in V /\ s.next \in Nat
    BY DEF Reads
  <1>2. Extended(r, s) = Reading(Append(r.value, s.value), s.next)
    BY Zenon DEF Extended
  <1>3. Append(r.value, s.value) \in Seq(V) /\ Len(Append(r.value, s.value)) = Len(r.value) + 1
    BY <1>1, AppendProperties
  <1>4. /\ Reading(Append(r.value, s.value), s.next) \in Reads(Seq(V))
        /\ Reading(Append(r.value, s.value), s.next).value = Append(r.value, s.value)
    BY <1>1, <1>3, ReadingIs
  <1>5. QED
    BY <1>1, <1>2, <1>3, <1>4, Zenon

\* Every loop over a reader has its readings.
LEMMA LoopExists ==
    ASSUME NEW V, NEW before \in Seq(V), NEW at \in Nat, NEW n \in Nat, NEW read \in Readers(V)
    PROVE  HasLoop(V, before, at, read, n)
  <1> DEFINE R == Reads(Seq(V))
             step == [p \in Nat \X R |-> Extended(p[2], read[<<p[1], p[2].next>>])]
  <1>1. ASSUME NEW i \in Nat, NEW r \in R
        PROVE  Extended(r, read[<<i, r.next>>]) \in R
    <2>1. r.next \in Nat
      BY DEF Reads
    <2>2. read[<<i, r.next>>] \in Reads(V)
      BY <2>1 DEF Readers
    <2>3. QED
      BY <2>2, ExtendedIs
  <1>2. Reading(before, at) \in R
    BY ReadingIs
  <1> HIDE DEF R
  <1>3. step \in [Nat \X R -> R]
    BY <1>1
  <1>4. \A i \in Nat, r \in R : step[<<i, r>>] = Extended(r, read[<<i, r.next>>])
    BY Zenon
  <1> HIDE DEF step
  <1>5. HasSteps(R, Reading(before, at), step, n)
    BY <1>2, <1>3, RecursionSteps
  <1>6. PICK g \in [0 .. n -> R] : g[0] = Reading(before, at) /\ \A i \in 1 .. n : g[i] = step[<<i, g[i - 1]>>]
    BY <1>5, Zenon DEF HasSteps
  <1>7. \A i \in 1 .. n : i \in Nat /\ i - 1 \in 0 .. n
    OBVIOUS
  <1>8. \A i \in 1 .. n : g[i] = Extended(g[i - 1], read[<<i, g[i - 1].next>>])
    <2>1. \A i \in 1 .. n : g[i - 1] \in R
      BY <1>7
    <2>2. QED
      BY <1>4, <1>6, <1>7, <2>1, Zenon
  <1>9. Loop(g, V, before, at, read, n)
    BY <1>6, <1>8, Zenon DEF Loop, R
  <1>10. QED
    BY <1>9, Zenon DEF HasLoop

\* What is defined by a recursive equation with these steps is such a loop.
LEMMA LoopOf ==
    ASSUME NEW V, NEW before \in Seq(V), NEW at \in Nat, NEW n \in Nat, NEW read \in Readers(V),
           NEW g, g = [i \in 0 .. n |-> g[i]], g[0] = Reading(before, at),
           \A i \in 1 .. n : g[i - 1].next \in Nat =>
               g[i] = Extended(g[i - 1], read[<<i, g[i - 1].next>>])
    PROVE  Loop(g, V, before, at, read, n)
  <1>1. g[0] \in Reads(Seq(V))
    BY ReadingIs
  <1>2. ASSUME NEW i \in 1 .. n, g[i - 1] \in Reads(Seq(V))
        PROVE  g[i] \in Reads(Seq(V)) /\ g[i] = Extended(g[i - 1], read[<<i, g[i - 1].next>>])
    <2>1. g[i - 1].next \in Nat /\ i \in Nat
      BY <1>2 DEF Reads
    <2>2. read[<<i, g[i - 1].next>>] \in Reads(V)
      BY <2>1 DEF Readers
    <2>3. Extended(g[i - 1], read[<<i, g[i - 1].next>>]) \in Reads(Seq(V))
      BY <1>2, <2>2, ExtendedIs
    <2>4. QED
      BY <2>1, <2>3
  <1>3. g \in [0 .. n -> Reads(Seq(V))]
    <2>1. \A i \in 1 .. n : g[i - 1] \in Reads(Seq(V)) => g[i] \in Reads(Seq(V))
      BY <1>2, Zenon
    <2> DEFINE R == Reads(Seq(V))
    <2> HIDE DEF R
    <2>2. g[0] \in R /\ \A i \in 1 .. n : g[i - 1] \in R => g[i] \in R
      BY <1>1, <2>1, Zenon DEF R
    <2>3. g \in [0 .. n -> R]
      BY <2>2, StepsType, Zenon
    <2>4. QED
      BY <2>3 DEF R
  <1>4. \A i \in 1 .. n : g[i - 1] \in Reads(Seq(V))
    BY <1>3
  <1>5. QED
    BY <1>2, <1>3, <1>4, Zenon DEF Loop

\* Each turn appends one value.
LEMMA LoopLen ==
    ASSUME NEW V, NEW before \in Seq(V), NEW at \in Nat, NEW n \in Nat, NEW read \in Readers(V),
           NEW g, Loop(g, V, before, at, read, n)
    PROVE  g[n] \in Reads(Seq(V)) /\ Len(g[n].value) = Len(before) + n
  <1> DEFINE Counted == {i \in Nat : Len(g[i].value) = Len(before) + i}
  <1>1. /\ g \in [0 .. n -> Reads(Seq(V))] /\ g[0] = Reading(before, at)
        /\ \A i \in 1 .. n : g[i] = Extended(g[i - 1], read[<<i, g[i - 1].next>>])
    BY DEF Loop
  <1>2. 0 \in Counted
    <2>1. g[0].value = before
      BY <1>1, ReadingIs
    <2>2. QED
      BY <2>1
  <1>3. ASSUME NEW i \in 0 .. n - 1, i \in Counted
        PROVE  i + 1 \in Counted
    <2>1. i + 1 \in 1 .. n /\ (i + 1) - 1 = i /\ i \in 0 .. n /\ i + 1 \in Nat
      OBVIOUS
    <2>2. g[i] \in Reads(Seq(V)) /\ g[i].next \in Nat
      BY <1>1, <2>1 DEF Reads
    <2>3. read[<<i + 1, g[i].next>>] \in Reads(V)
      BY <2>1, <2>2 DEF Readers
    <2>4. g[i + 1] = Extended(g[i], read[<<i + 1, g[i].next>>])
      BY <1>1, <2>1, Zenon
    <2>5. Len(g[i + 1].value) = Len(g[i].value) + 1
      <3>1. Len(Extended(g[i], read[<<i + 1, g[i].next>>]).value) = Len(g[i].value) + 1
        BY <2>2, <2>3, ExtendedIs
      <3>2. QED
        BY <2>4, <3>1, Zenon
    <2>6. Len(g[i].value) = Len(before) + i
      BY <1>3
    <2>7. Len(g[i + 1].value) = Len(before) + (i + 1)
      BY <2>5, <2>6, LenProperties, SMT
    <2>8. QED
      BY <2>1, <2>7
  <1> HIDE DEF Counted
  <1>4. \A i \in 0 .. n : i \in Counted
    BY <1>2, <1>3, BoundedInduction
  <1>5. n \in Counted
    BY <1>4
  <1>6. QED
    BY <1>1, <1>5 DEF Counted

\* One value more of W.
LEMMA OneMore ==
    ASSUME NEW V, NEW before \in Seq(V), NEW W \in Seq(V), NEW i \in 0 .. Len(W) - 1
    PROVE  Append(before \o SubSeq(W, 1, i), W[i + 1]) = before \o SubSeq(W, 1, i + 1)
  <1> DEFINE a == SubSeq(W, 1, i)
             b == SubSeq(W, 1, i + 1)
  <1>1. i + 1 \in 1 .. Len(W) /\ i \in 0 .. Len(W) /\ i \in Nat
    OBVIOUS
  <1>2. W[i + 1] \in V
    BY <1>1
  <1>3. a \in Seq(V) /\ b \in Seq(V) /\ Append(a, W[i + 1]) = b
    BY <1>1
  <1> HIDE DEF a, b
  <1>4. Append(before \o a, W[i + 1]) = before \o Append(a, W[i + 1])
    <2>1. ASSUME NEW c \in Seq(V), NEW d \in Seq(V), NEW e \in V
          PROVE  Append(c \o d, e) = c \o Append(d, e)
      <3>1. <<e>> \in Seq(V) /\ c \o d \in Seq(V)
        BY ConcatProperties
      <3>2. Append(d, e) = d \o <<e>> /\ Append(c \o d, e) = (c \o d) \o <<e>>
        BY <3>1, AppendIsConcat
      <3>3. (c \o d) \o <<e>> = c \o (d \o <<e>>)
        <4>1. \A f \in Seq(V) : (c \o d) \o f = c \o (d \o f)
          BY SMTT(30)
        <4>2. QED
          BY <3>1, <4>1, Zenon
      <3>4. QED
        BY <3>2, <3>3, Zenon
    <2>2. QED
      BY <1>2, <1>3, <2>1, Zenon
  <1>5. QED
    BY <1>3, <1>4 DEF a, b

\* A loop over bytes that lie there, each turn of which gives the value that
\* its part of them stands for, gives these values and ends behind the bytes.
ReadsEach(read, at, f, W, n) ==
    \A i \in 1 .. n : read[<<i, at + Len(f[i - 1])>>] = Reading(W[i], at + Len(f[i]))

\* A loop whose steps read the values W one behind the other reads W.
LEMMA LoopReads ==
    ASSUME NEW V, NEW before \in Seq(V), NEW at \in Nat, NEW n \in Nat, NEW read \in Readers(V),
           NEW g, Loop(g, V, before, at, read, n),
           NEW outs \in Seq(Seq(Char)), n <= Len(outs), NEW f, Joins(f, outs, Char),
           NEW W \in Seq(V), Len(W) = n,
           ReadsEach(read, at, f, W, n)
    PROVE  g[n] = Reading(before \o W, at + Len(f[n]))
  <1> DEFINE Done == {i \in Nat : g[i] = Reading(before \o SubSeq(W, 1, i), at + Len(f[i]))}
  <1>1. /\ g \in [0 .. n -> Reads(Seq(V))] /\ g[0] = Reading(before, at)
        /\ \A i \in 1 .. n : g[i] = Extended(g[i - 1], read[<<i, g[i - 1].next>>])
    BY DEF Loop
  <1>2. /\ f[0] = <<>> /\ f \in [0 .. Len(outs) -> Seq(Char)]
    BY DEF Joins
  <1>3. \A i \in 0 .. n : f[i] \in Seq(Char) /\ at + Len(f[i]) \in Nat
    <2>1. \A i \in 0 .. n : i \in 0 .. Len(outs)
      OBVIOUS
    <2>2. \A i \in 0 .. n : f[i] \in Seq(Char)
      BY <1>2, <2>1
    <2>3. QED
      BY <2>2
  <1>4. \A i \in 0 .. n : SubSeq(W, 1, i) \in Seq(V) /\ before \o SubSeq(W, 1, i) \in Seq(V)
    OBVIOUS
  <1>5. 0 \in Done
    <2>1. SubSeq(W, 1, 0) = <<>> /\ before \o <<>> = before
      BY SubSeqEmpty, ConcatEmptySeq
    <2>2. at + Len(f[0]) = at
      BY <1>2
    <2>3. QED
      BY <1>1, <2>1, <2>2
  <1>6. ASSUME NEW i \in 0 .. n - 1, i \in Done
        PROVE  i + 1 \in Done
    <2> DEFINE b == before \o SubSeq(W, 1, i)
    <2>1. i + 1 \in 1 .. n /\ (i + 1) - 1 = i /\ i \in 0 .. n /\ i + 1 \in Nat
      OBVIOUS
    <2>2. g[i] = Reading(b, at + Len(f[i])) /\ b \in Seq(V) /\ at + Len(f[i]) \in Nat
      BY <1>3, <1>4, <1>6, <2>1
    <2>3. Append(b, W[i + 1]) = before \o SubSeq(W, 1, i + 1)
      <3>1. i \in 0 .. Len(W) - 1
        OBVIOUS
      <3>2. QED
        BY <3>1, OneMore
    <2> HIDE DEF b
    <2>4. g[i].value = b /\ g[i].next = at + Len(f[i])
      <3>1. /\ Reading(b, at + Len(f[i])).value = b
            /\ Reading(b, at + Len(f[i])).next = at + Len(f[i])
        BY <2>2, ReadingIs
      <3>2. QED
        BY <2>2, <3>1, Zenon
    <2>5. g[i + 1] = Extended(g[i], Reading(W[i + 1], at + Len(f[i + 1])))
      BY <1>1, <2>1, <2>4, Zenon DEF ReadsEach
    <2>6. W[i + 1] \in V /\ at + Len(f[i + 1]) \in Nat
      BY <1>3, <2>1
    <2>7. /\ Reading(W[i + 1], at + Len(f[i + 1])).value = W[i + 1]
          /\ Reading(W[i + 1], at + Len(f[i + 1])).next = at + Len(f[i + 1])
      BY <2>6, ReadingIs
    <2>8. g[i + 1] = Reading(Append(b, W[i + 1]), at + Len(f[i + 1]))
      BY <2>4, <2>5, <2>7, Zenon DEF Extended
    <2>9. QED
      BY <2>1, <2>3, <2>8
  <1> HIDE DEF Done
  <1>7. \A i \in 0 .. n : i \in Done
    BY <1>5, <1>6, BoundedInduction
  <1>8. n \in Done /\ SubSeq(W, 1, n) = W
    BY <1>7
  <1>9. QED
    BY <1>8 DEF Done

\* The same in terms of the bytes of all turns.
ReadsHeld(read, outs, W, n) ==
    \A i \in 1 .. n : \A a \in Nat :
        HoldsAt(a, outs[i]) => read[<<i, a>>] = Reading(W[i], a + Len(outs[i]))

\* The same, if each value is read wherever its bytes lie.
LEMMA LoopHeld ==
    ASSUME NEW V, NEW before \in Seq(V), NEW at \in Nat, NEW n \in Nat, NEW read \in Readers(V),
           NEW g, Loop(g, V, before, at, read, n),
           NEW outs \in Seq(Seq(Char)), Len(outs) = n, HoldsAt(at, FlattenSeq(outs)),
           NEW W \in Seq(V), Len(W) = n,
           ReadsHeld(read, outs, W, n)
    PROVE  g[n] = Reading(before \o W, at + Len(FlattenSeq(outs)))
  <1>1. PICK f : Joins(f, outs, Char) /\ FlattenSeq(outs) = f[Len(outs)]
    BY FlattenPrefixes
  <1>2. HoldsAt(at, f[Len(outs)])
    BY <1>1
  <1>3. HeldEach(at, f, outs)
    BY <1>1, <1>2, HeldJoin
  <1>4. \A i \in 1 .. n : /\ HoldsAt(at + Len(f[i - 1]), outs[i])
                          /\ Len(f[i]) = Len(f[i - 1]) + Len(outs[i])
    BY <1>3, Zenon DEF HeldEach
  <1>5. ASSUME NEW i \in 1 .. n
        PROVE  read[<<i, at + Len(f[i - 1])>>] = Reading(W[i], at + Len(f[i]))
    <2>1. i \in 1 .. Len(outs) /\ i - 1 \in 0 .. Len(outs)
      OBVIOUS
    <2>2. f[i - 1] \in Seq(Char) /\ outs[i] \in Seq(Char)
      <3>1. f \in [0 .. Len(outs) -> Seq(Char)]
        BY <1>1 DEF Joins
      <3>2. QED
        BY <2>1, <3>1
    <2>3. Len(f[i - 1]) \in Nat /\ Len(outs[i]) \in Nat /\ Len(f[i]) = Len(f[i - 1]) + Len(outs[i])
      BY <1>4, <2>2, LenProperties
    <2>4. at + Len(f[i - 1]) \in Nat /\ (at + Len(f[i - 1])) + Len(outs[i]) = at + Len(f[i])
      BY <2>3
    <2>5. QED
      BY <1>4, <2>4, Zenon DEF ReadsHeld
  <1>6. n <= Len(outs) /\ ReadsEach(read, at, f, W, n)
    <2>1. ReadsEach(read, at, f, W, n)
      BY <1>5, Zenon DEF ReadsEach
    <2>2. QED
      BY <2>1
  <1>7. g[n] = Reading(before \o W, at + Len(f[n]))
    <2>1. Joins(f, outs, Char)
      BY <1>1
    <2>2. QED
      BY <1>6, <2>1, LoopReads
  <1>8. QED
    BY <1>1, <1>7, Zenon

-----------------------------------------------------------------------------
(* Lists of strings, buckets and tables.                                   *)
StringReader == [p \in Nat \X Nat |-> StringIn(p[2])]

\* The strings of a bucket or of a row are read by such a loop.
LEMMA StringsLoop ==
    ASSUME data \in Seq(Char), NEW before \in Seq(Seq(Char)), NEW at \in Nat, NEW n \in Nat
    PROVE  /\ StringReader \in Readers(Seq(Char))
           /\ \A i, a \in Nat : StringReader[<<i, a>>] = StringIn(a)
           /\ \E g : Loop(g, Seq(Char), before, at, StringReader, n) /\ StringsIn(before, n, at) = g[n]
  <1> DEFINE V == Seq(Char)
             IsStrings(g) == g = [i \in 0 .. n |-> IF i = 0 THEN Reading(before, at)
                                                   ELSE Extended(g[i - 1], StringIn(g[i - 1].next))]
             g == CHOOSE g : IsStrings(g)
  <1>1. \A a \in Nat : StringIn(a) \in Reads(V)
    BY StringHeld
  <1>2. StringReader \in Readers(V)
    <2> HIDE DEF V
    <2>1. QED
      BY <1>1 DEF StringReader, Readers
  <1>3. \A i, a \in Nat : StringReader[<<i, a>>] = StringIn(a)
    BY DEF StringReader
  <1>4. StringsIn(before, n, at) = g[n]
    BY Zenon DEF StringsIn
  <1>5. before \in Seq(V)
    OBVIOUS
  <1> HIDE DEF V
  <1>6. HasLoop(V, before, at, StringReader, n)
    BY <1>2, <1>5, LoopExists
  <1>7. PICK r : Loop(r, V, before, at, StringReader, n)
    BY <1>6, Zenon DEF HasLoop
  <1>8. \A i \in 0 .. n : i = 0 \/ i \in 1 .. n
    OBVIOUS
  <1>9. IsStrings(r)
    <2>1. /\ r \in [0 .. n -> Reads(Seq(V))] /\ r[0] = Reading(before, at)
          /\ \A i \in 1 .. n : r[i] = Extended(r[i - 1], StringReader[<<i, r[i - 1].next>>])
      BY <1>7 DEF Loop
    <2>2. \A i \in 1 .. n : i \in Nat /\ r[i - 1].next \in Nat
      <3>1. \A i \in 1 .. n : i \in Nat /\ r[i - 1] \in Reads(Seq(V))
        BY <2>1
      <3>2. QED
        BY <3>1 DEF Reads
    <2>3. \A i \in 1 .. n : r[i] = Extended(r[i - 1], StringIn(r[i - 1].next))
      BY <1>3, <2>1, <2>2, Zenon
    <2>4. \A i \in 0 .. n : r[i] = IF i = 0 THEN Reading(before, at)
                                  ELSE Extended(r[i - 1], StringIn(r[i - 1].next))
      BY <1>8, <2>1, <2>3, Zenon
    <2>5. r = [i \in 0 .. n |-> r[i]]
      BY <2>1
    <2>6. QED
      BY <2>4, <2>5, Zenon
  <1>10. IsStrings(g)
    BY <1>9, Zenon
  <1> HIDE DEF g
  <1>11. \A i \in 0 .. n : g[i] = IF i = 0 THEN Reading(before, at)
                                 ELSE Extended(g[i - 1], StringIn(g[i - 1].next))
    BY <1>10, Zenon
  <1>12. g = [i \in 0 .. n |-> g[i]]
    BY <1>10, <1>11, Zenon
  <1>13. 0 \in 0 .. n /\ \A i \in 1 .. n : i \in 0 .. n /\ i # 0 /\ i \in Nat
    OBVIOUS
  <1>14. g[0] = Reading(before, at)
    BY <1>11, <1>13, Zenon
  <1>15. \A i \in 1 .. n : g[i - 1].next \in Nat =>
            g[i] = Extended(g[i - 1], StringReader[<<i, g[i - 1].next>>])
    BY <1>3, <1>11, <1>13, Zenon
  <1>16. Loop(g, V, before, at, StringReader, n)
    BY <1>2, <1>5, <1>12, <1>14, <1>15, LoopOf, Zenon
  <1>17. QED
    BY <1>2, <1>3, <1>4, <1>16, Zenon DEF V

\* A function on 1 .. n is a sequence.
LEMMA FunctionIsSeq ==
    ASSUME NEW n \in Nat, NEW S, NEW s \in [1 .. n -> S]
    PROVE  s \in Seq(S) /\ Len(s) = n
  OBVIOUS

\* Sequences with the same elements are the same.
LEMMA SameSeq ==
    ASSUME NEW S, NEW s \in Seq(S), NEW t \in Seq(S), NEW n \in Nat, Len(s) = n, Len(t) = n,
           \A i \in 1 .. n : s[i] = t[i]
    PROVE  s = t
  OBVIOUS

\* The bytes and the C strings of a list of texts.
AreTexts(texts) == texts \in Seq(Seq(Char)) /\ \A i \in DOMAIN texts : IsText(texts[i])
FitTexts(texts) == \A i \in DOMAIN texts : FitsText(texts[i])

\* Lists of texts and what is written and read of each.
LEMMA TextsAre ==
    ASSUME NEW texts, AreTexts(texts)
    PROVE  /\ texts \in Seq(Seq(Char)) /\ Len(texts) \in Nat
           /\ \A i \in 1 .. Len(texts) : IsText(texts[i])
           /\ Mapped(StringOut, texts) \in Seq(Seq(Char))
           /\ Len(Mapped(StringOut, texts)) = Len(texts)
           /\ \A i \in 1 .. Len(texts) : Mapped(StringOut, texts)[i] = StringOut(texts[i])
           /\ Mapped(CString, texts) \in Seq(Seq(Char))
           /\ Len(Mapped(CString, texts)) = Len(texts)
           /\ \A i \in 1 .. Len(texts) : Mapped(CString, texts)[i] = CString(texts[i])
  <1>1. /\ texts \in Seq(Seq(Char)) /\ Len(texts) \in Nat /\ DOMAIN texts = 1 .. Len(texts)
        /\ \A i \in 1 .. Len(texts) : IsText(texts[i])
    BY DEF AreTexts
  <1>2. \A i \in 1 .. Len(texts) : StringOut(texts[i]) \in Seq(Char) /\ CString(texts[i]) \in Seq(Char)
    BY <1>1, StringOutIs, CStringIs
  <1>4. /\ Mapped(StringOut, texts) = [i \in 1 .. Len(texts) |-> StringOut(texts[i])]
        /\ Mapped(CString, texts) = [i \in 1 .. Len(texts) |-> CString(texts[i])]
    BY <1>1, Zenon DEF Mapped
  <1>5. \A i \in 1 .. Len(texts) : /\ Mapped(StringOut, texts)[i] = StringOut(texts[i])
                                   /\ Mapped(CString, texts)[i] = CString(texts[i])
    BY <1>4, Zenon
  <1>6. /\ Mapped(StringOut, texts) \in [1 .. Len(texts) -> Seq(Char)]
        /\ Mapped(CString, texts) \in [1 .. Len(texts) -> Seq(Char)]
    BY <1>2, <1>4, Zenon
  <1>7. /\ Mapped(StringOut, texts) \in Seq(Seq(Char)) /\ Len(Mapped(StringOut, texts)) = Len(texts)
        /\ Mapped(CString, texts) \in Seq(Seq(Char)) /\ Len(Mapped(CString, texts)) = Len(texts)
    BY <1>1, <1>6, FunctionIsSeq
  <1>8. QED
    BY <1>1, <1>5, <1>7, Zenon

\* A list of texts that fit is read as the list of their C strings.
LEMMA StringsHeld ==
    ASSUME data \in Seq(Char), NEW before \in Seq(Seq(Char)), NEW at \in Nat
    PROVE  /\ \A n \in Nat : StringsIn(before, n, at) \in Reads(Seq(Seq(Char)))
           /\ \A texts : /\ AreTexts(texts) /\ FitTexts(texts)
                         /\ HoldsAt(at, FlattenSeq(Mapped(StringOut, texts)))
                 => StringsIn(before, Len(texts), at) =
                       Reading(before \o Mapped(CString, texts),
                               at + Len(FlattenSeq(Mapped(StringOut, texts))))
  <1>1. ASSUME NEW n \in Nat
        PROVE  StringsIn(before, n, at) \in Reads(Seq(Seq(Char)))
    <2>1. PICK g : Loop(g, Seq(Char), before, at, StringReader, n) /\ StringsIn(before, n, at) = g[n]
      BY StringsLoop
    <2>2. StringReader \in Readers(Seq(Char)) /\ before \in Seq(Seq(Char))
      BY StringsLoop
    <2>3. g[n] \in Reads(Seq(Seq(Char)))
      BY <2>1, <2>2, LoopLen
    <2>4. QED
      BY <2>1, <2>3
  <1>2. ASSUME NEW texts, AreTexts(texts), FitTexts(texts),
               HoldsAt(at, FlattenSeq(Mapped(StringOut, texts)))
        PROVE  StringsIn(before, Len(texts), at) =
                   Reading(before \o Mapped(CString, texts),
                           at + Len(FlattenSeq(Mapped(StringOut, texts))))
    <2> DEFINE n == Len(texts)
               outs == Mapped(StringOut, texts)
               W == Mapped(CString, texts)
    <2>1. /\ n \in Nat /\ outs \in Seq(Seq(Char)) /\ Len(outs) = n
          /\ W \in Seq(Seq(Char)) /\ Len(W) = n
          /\ \A i \in 1 .. n : /\ IsText(texts[i]) /\ FitsText(texts[i])
                               /\ outs[i] = StringOut(texts[i]) /\ W[i] = CString(texts[i])
      <3>1. \A i \in 1 .. n : FitsText(texts[i])
        BY <1>2, TextsAre DEF FitTexts
      <3>2. QED
        BY <1>2, <3>1, TextsAre
    <2>2. HoldsAt(at, FlattenSeq(outs))
      BY <1>2
    <2> HIDE DEF n, outs, W
    <2>3. PICK g : Loop(g, Seq(Char), before, at, StringReader, n) /\ StringsIn(before, n, at) = g[n]
      BY <2>1, StringsLoop
    <2>4. /\ StringReader \in Readers(Seq(Char))
          /\ \A i, a \in Nat : StringReader[<<i, a>>] = StringIn(a)
      BY StringsLoop
    <2>5. ASSUME NEW i \in 1 .. n, NEW a \in Nat, HoldsAt(a, outs[i])
          PROVE  StringReader[<<i, a>>] = Reading(W[i], a + Len(outs[i]))
      <3>1. i \in Nat /\ HoldsAt(a, StringOut(texts[i]))
        BY <2>1, <2>5
      <3>2. StringIn(a) = Reading(CString(texts[i]), a + Len(StringOut(texts[i])))
        BY <2>1, <3>1, StringHeld, Zenon
      <3>3. QED
        BY <2>1, <2>4, <3>1, <3>2, Zenon
    <2>6. ReadsHeld(StringReader, outs, W, n)
      BY <2>5, Zenon DEF ReadsHeld
    <2>7. g[n] = Reading(before \o W, at + Len(FlattenSeq(outs)))
      BY <2>1, <2>2, <2>3, <2>4, <2>6, LoopHeld
    <2>8. QED
      BY <2>3, <2>7, Zenon DEF n, outs, W
  <1>3. QED
    BY <1>1, <1>2, Zenon

\* A bucket is read behind the strings that are there.
LEMMA BucketHeld ==
    ASSUME data \in Seq(Char), bucket \in Seq(Seq(Char)), NEW at \in Nat
    PROVE  /\ BucketIn(at) \in Reads(Seq(Seq(Char)))
           /\ \A texts : AreTexts(texts) /\ Len(texts) \in Count =>
                 /\ BucketOut(texts) \in Seq(Char)
                 /\ FitTexts(texts) /\ HoldsAt(at, BucketOut(texts)) =>
                       BucketIn(at) = Reading(bucket \o Mapped(CString, texts),
                                              at + Len(BucketOut(texts)))
  <1>1. at + 4 \in Nat /\ ValueOf(NumberAt(at, 4)) \in Nat
    <2>1. ValueOf(NumberAt(at, 4)) \in Nat
      BY CountHeld
    <2>2. QED
      BY <2>1
  <1>2. BucketIn(at) = StringsIn(bucket, ValueOf(NumberAt(at, 4)), at + 4)
    BY Zenon DEF BucketIn
  <1>3. BucketIn(at) \in Reads(Seq(Seq(Char)))
    BY <1>1, <1>2, StringsHeld, Zenon
  <1>4. ASSUME NEW texts, AreTexts(texts), Len(texts) \in Count
        PROVE  /\ BucketOut(texts) \in Seq(Char)
               /\ FitTexts(texts) /\ HoldsAt(at, BucketOut(texts)) =>
                     BucketIn(at) = Reading(bucket \o Mapped(CString, texts),
                                            at + Len(BucketOut(texts)))
    <2> DEFINE count == NumberOut(Bytes(Len(texts), 4))
               flat == FlattenSeq(Mapped(StringOut, texts))
    <2>1. BucketOut(texts) = count \o flat
      BY Zenon DEF BucketOut
    <2>2. count \in Seq(Char) /\ Len(count) = 4
      BY <1>4, CountOut, Zenon
    <2>3. flat \in Seq(Char)
      BY <1>4, TextsAre, FlattenType
    <2>4. HoldsAt(at, count) => ValueOf(NumberAt(at, 4)) = Len(texts)
      BY <1>4, CountHeld, Zenon
    <2>5. FitTexts(texts) /\ HoldsAt(at + 4, flat) =>
              StringsIn(bucket, Len(texts), at + 4) =
                  Reading(bucket \o Mapped(CString, texts), (at + 4) + Len(flat))
      BY <1>1, <1>4, StringsHeld, Zenon
    <2> HIDE DEF count, flat
    <2>6. count \o flat \in Seq(Char) /\ Len(count \o flat) = 4 + Len(flat)
      BY <2>2, <2>3, JoinIs, Zenon
    <2>7. HoldsAt(at, count \o flat) => HoldsAt(at, count) /\ HoldsAt(at + 4, flat)
      BY <2>2, <2>3, HeldTwo, Zenon
    <2>8. (at + 4) + Len(flat) = at + (4 + Len(flat))
      BY <2>3
    <2>9. QED
      BY <1>2, <2>1, <2>4, <2>5, <2>6, <2>7, <2>8, Zenon
  <1>5. QED
    BY <1>3, <1>4, Zenon

\* Two lists of texts, one behind the other.
LEMMA TextsJoin ==
    ASSUME NEW s, AreTexts(s), NEW t, AreTexts(t)
    PROVE  /\ AreTexts(s \o t)
           /\ FlattenSeq(Mapped(StringOut, s \o t)) =
                  FlattenSeq(Mapped(StringOut, s)) \o FlattenSeq(Mapped(StringOut, t))
  <1> DEFINE m == Len(s)
             n == Len(t)
             u == s \o t
             a == Mapped(StringOut, s)
             b == Mapped(StringOut, t)
             c == Mapped(StringOut, u)
  <1>1. /\ s \in Seq(Seq(Char)) /\ m \in Nat /\ a \in Seq(Seq(Char)) /\ Len(a) = m
        /\ \A i \in 1 .. m : IsText(s[i]) /\ a[i] = StringOut(s[i])
    BY TextsAre, Zenon
  <1>2. /\ t \in Seq(Seq(Char)) /\ n \in Nat /\ b \in Seq(Seq(Char)) /\ Len(b) = n
        /\ \A i \in 1 .. n : IsText(t[i]) /\ b[i] = StringOut(t[i])
    BY TextsAre, Zenon
  <1>3. /\ u \in Seq(Seq(Char)) /\ Len(u) = m + n
        /\ \A i \in 1 .. m + n : u[i] = IF i <= m THEN s[i] ELSE t[i - m]
    BY <1>1, <1>2, ConcatProperties
  <1>4. /\ a \o b \in Seq(Seq(Char)) /\ Len(a \o b) = m + n
        /\ \A i \in 1 .. m + n : (a \o b)[i] = IF i <= m THEN a[i] ELSE b[i - m]
    <2>1. /\ a \o b \in Seq(Seq(Char)) /\ Len(a \o b) = Len(a) + Len(b)
          /\ \A i \in 1 .. Len(a) + Len(b) : (a \o b)[i] = IF i <= Len(a) THEN a[i] ELSE b[i - Len(a)]
      <3> HIDE DEF a, b
      <3>1. \A x, y \in Seq(Seq(Char)) :
               /\ x \o y \in Seq(Seq(Char)) /\ Len(x \o y) = Len(x) + Len(y)
               /\ \A i \in 1 .. Len(x) + Len(y) :
                     (x \o y)[i] = IF i <= Len(x) THEN x[i] ELSE y[i - Len(x)]
        BY ConcatProperties
      <3>2. QED
        BY <1>1, <1>2, <3>1, Zenon
    <2> HIDE DEF a, b, m, n
    <2>2. QED
      BY <1>1, <1>2, <2>1
  <1> HIDE DEF a, b, u, m, n
  <1>5. ASSUME NEW i \in 1 .. m + n
        PROVE  \/ i <= m /\ i \in 1 .. m
               \/ ~ (i <= m) /\ i - m \in 1 .. n
    BY <1>1, <1>2
  <1>6. ASSUME NEW i \in 1 .. m + n
        PROVE  IsText(u[i]) /\ (a \o b)[i] = StringOut(u[i])
    <2>1. CASE i <= m /\ i \in 1 .. m
      BY <1>1, <1>3, <1>4, <2>1, Zenon
    <2>2. CASE ~ (i <= m) /\ i - m \in 1 .. n
      BY <1>2, <1>3, <1>4, <2>2, Zenon
    <2>3. QED
      BY <1>5, <2>1, <2>2
  <1>7. AreTexts(u)
    <2>1. DOMAIN u = 1 .. m + n
      BY <1>3
    <2>2. QED
      BY <1>3, <1>6, <2>1, Zenon DEF AreTexts
  <1>8. c \in Seq(Seq(Char)) /\ Len(c) = m + n /\ \A i \in 1 .. m + n : c[i] = StringOut(u[i])
    <2>1. /\ c \in Seq(Seq(Char)) /\ Len(c) = Len(u)
          /\ \A i \in 1 .. Len(u) : c[i] = StringOut(u[i])
      BY <1>7, TextsAre, Zenon
    <2>2. QED
      BY <1>3, <2>1, Zenon
  <1> HIDE DEF c
  <1>9. c = a \o b
    <2>1. \A i \in 1 .. m + n : c[i] = (a \o b)[i]
      BY <1>6, <1>8, Zenon
    <2>2. m + n \in Nat
      BY <1>1, <1>2
    <2>3. QED
      BY <1>4, <1>8, <2>1, <2>2, SameSeq, Zenon
  <1>10. FlattenSeq(a \o b) = FlattenSeq(a) \o FlattenSeq(b)
    BY <1>1, <1>2, FlattenConcat
  <1>11. QED
    BY <1>7, <1>9, <1>10, Zenon DEF a, b, c, u

\* The bytes of a row.
RowOut(row) == FlattenSeq(Mapped(StringOut, row))
RowOuts(rows) == [i \in DOMAIN rows |-> RowOut(rows[i])]
AreRows(rows) == rows \in Seq(Seq(Seq(Char))) /\ \A i \in DOMAIN rows : AreTexts(rows[i])

\* Writing all strings of a table is writing its rows.
LEMMA RowsFlat ==
    ASSUME NEW rows, AreRows(rows)
    PROVE  /\ RowOuts(rows) \in Seq(Seq(Char)) /\ Len(RowOuts(rows)) = Len(rows)
           /\ \A i \in 1 .. Len(rows) : RowOuts(rows)[i] = RowOut(rows[i])
           /\ FlattenSeq(Mapped(StringOut, FlattenSeq(rows))) = FlattenSeq(RowOuts(rows))
           /\ FlattenSeq(rows) \in Seq(Seq(Char))
           /\ AreTexts(FlattenSeq(rows))
  <1> DEFINE n == Len(rows)
             outs == RowOuts(rows)
  <1>1. /\ rows \in Seq(Seq(Seq(Char))) /\ n \in Nat /\ DOMAIN rows = 1 .. n
        /\ \A i \in 1 .. n : AreTexts(rows[i])
    BY DEF AreRows
  <1>2. outs = [i \in 1 .. n |-> RowOut(rows[i])]
    BY <1>1, Zenon DEF RowOuts
  <1>3. \A i \in 1 .. n : RowOut(rows[i]) \in Seq(Char)
    BY <1>1, TextsAre, FlattenType DEF RowOut
  <1> HIDE DEF outs, n
  <1>4. outs \in Seq(Seq(Char)) /\ Len(outs) = n /\ \A i \in 1 .. n : outs[i] = RowOut(rows[i])
    <2>1. outs \in [1 .. n -> Seq(Char)] /\ \A i \in 1 .. n : outs[i] = RowOut(rows[i])
      BY <1>2, <1>3, Zenon
    <2>2. QED
      BY <1>1, <2>1, FunctionIsSeq
  <1>5. PICK e : Joins(e, rows, Seq(Char)) /\ FlattenSeq(rows) = e[Len(rows)]
    BY <1>1, FlattenPrefixes
  <1>6. PICK f : Joins(f, outs, Char) /\ FlattenSeq(outs) = f[Len(outs)]
    BY <1>4, FlattenPrefixes
  <1>7. /\ e[0] = <<>> /\ \A i \in 1 .. n : e[i] = e[i - 1] \o rows[i]
        /\ f[0] = <<>> /\ \A i \in 1 .. n : f[i] = f[i - 1] \o outs[i]
    BY <1>4, <1>5, <1>6, Zenon DEF Joins, n
  <1> DEFINE Same == {i \in Nat : AreTexts(e[i]) /\ RowOut(e[i]) = f[i]}
  <1>8. 0 \in Same
    <2>1. AreTexts(<<>>) /\ RowOut(<<>>) = <<>>
      <3>1. AreTexts(<<>>)
        BY DEF AreTexts
      <3>2. Mapped(StringOut, <<>>) = <<>>
        BY DEF Mapped
      <3>3. FlattenSeq(<<>>) = <<>>
        BY FlattenEmpty
      <3>4. QED
        BY <3>1, <3>2, <3>3, Zenon DEF RowOut
    <2>2. QED
      BY <1>7, <2>1
  <1>9. ASSUME NEW i \in 0 .. n - 1, i \in Same
        PROVE  i + 1 \in Same
    <2>1. i + 1 \in 1 .. n /\ (i + 1) - 1 = i /\ i + 1 \in Nat
      BY <1>1
    <2>2. e[i + 1] = e[i] \o rows[i + 1] /\ f[i + 1] = f[i] \o RowOut(rows[i + 1])
      BY <1>4, <1>7, <2>1, Zenon
    <2>3. AreTexts(e[i]) /\ RowOut(e[i]) = f[i] /\ AreTexts(rows[i + 1])
      BY <1>1, <1>9, <2>1
    <2>4. AreTexts(e[i] \o rows[i + 1]) /\ RowOut(e[i] \o rows[i + 1]) = RowOut(e[i]) \o RowOut(rows[i + 1])
      BY <2>3, TextsJoin, Zenon DEF RowOut
    <2>5. AreTexts(e[i + 1]) /\ RowOut(e[i + 1]) = f[i + 1]
      BY <2>2, <2>3, <2>4, Zenon
    <2>6. QED
      BY <2>1, <2>5
  <1> HIDE DEF Same
  <1>10. \A i \in 0 .. n : i \in Same
    BY <1>1, <1>8, <1>9, BoundedInduction
  <1>11. n \in Same
    BY <1>1, <1>10
  <1>12. AreTexts(FlattenSeq(rows)) /\ RowOut(FlattenSeq(rows)) = FlattenSeq(outs)
    <2>1. AreTexts(e[n]) /\ RowOut(e[n]) = f[n]
      BY <1>11 DEF Same
    <2>2. QED
      BY <1>4, <1>5, <1>6, <2>1, Zenon DEF n
  <1>13. QED
    BY <1>4, <1>12, Zenon DEF n, outs, RowOut, AreTexts

RowReader(columns) == [p \in Nat \X Nat |-> StringsIn(<<>>, columns, p[2])]

\* The rows of a table are read by such a loop, too.
LEMMA TableLoop ==
    ASSUME data \in Seq(Char), NEW at \in Nat, NEW n \in Nat, n = ValueOf(NumberAt(at, 4)),
           NEW columns \in Nat, columns = ValueOf(NumberAt(at + 4, 4))
    PROVE  /\ RowReader(columns) \in Readers(Seq(Seq(Char)))
           /\ \A i, a \in Nat : RowReader(columns)[<<i, a>>] = StringsIn(<<>>, columns, a)
           /\ \E g : /\ Loop(g, Seq(Seq(Char)), <<>>, at + 8, RowReader(columns), n)
                     /\ TableIn(at) = g[n]
  <1> DEFINE V == Seq(Seq(Char))
             IsRows(g) == g = [i \in 0 .. n |-> IF i = 0 THEN Reading(<<>>, at + 8)
                                   ELSE Extended(g[i - 1], StringsIn(<<>>, columns, g[i - 1].next))]
             g == CHOOSE g : IsRows(g)
             reader == RowReader(columns)
  <1>1. \A a \in Nat : StringsIn(<<>>, columns, a) \in Reads(V)
    BY StringsHeld, EmptySeq
  <1>2. reader \in Readers(V)
    <2> HIDE DEF V
    <2>1. QED
      BY <1>1 DEF RowReader, Readers
  <1>3. \A i, a \in Nat : reader[<<i, a>>] = StringsIn(<<>>, columns, a)
    BY DEF RowReader
  <1>4. TableIn(at) = g[n]
    BY Zenon DEF TableIn
  <1>5. <<>> \in Seq(V) /\ at + 8 \in Nat
    BY EmptySeq
  <1> HIDE DEF V, reader
  <1>6. HasLoop(V, <<>>, at + 8, reader, n)
    BY <1>2, <1>5, LoopExists
  <1>7. PICK r : Loop(r, V, <<>>, at + 8, reader, n)
    BY <1>6, Zenon DEF HasLoop
  <1>8. \A i \in 0 .. n : i = 0 \/ i \in 1 .. n
    OBVIOUS
  <1>9. IsRows(r)
    <2>1. /\ r \in [0 .. n -> Reads(Seq(V))] /\ r[0] = Reading(<<>>, at + 8)
          /\ \A i \in 1 .. n : r[i] = Extended(r[i - 1], reader[<<i, r[i - 1].next>>])
      BY <1>7 DEF Loop
    <2>2. \A i \in 1 .. n : i \in Nat /\ r[i - 1].next \in Nat
      <3>1. \A i \in 1 .. n : i \in Nat /\ r[i - 1] \in Reads(Seq(V))
        BY <2>1, SMTT(40)
      <3>2. QED
        BY <3>1 DEF Reads
    <2>3. \A i \in 1 .. n : r[i] = Extended(r[i - 1], StringsIn(<<>>, columns, r[i - 1].next))
      BY <1>3, <2>1, <2>2, Zenon
    <2>4. \A i \in 0 .. n : r[i] = IF i = 0 THEN Reading(<<>>, at + 8)
                                  ELSE Extended(r[i - 1], StringsIn(<<>>, columns, r[i - 1].next))
      BY <1>8, <2>1, <2>3, Zenon
    <2>5. r = [i \in 0 .. n |-> r[i]]
      BY <2>1
    <2>6. QED
      BY <2>4, <2>5, Zenon
  <1>10. IsRows(g)
    BY <1>9, Zenon
  <1> HIDE DEF g
  <1>11. \A i \in 0 .. n : g[i] = IF i = 0 THEN Reading(<<>>, at + 8)
                                 ELSE Extended(g[i - 1], StringsIn(<<>>, columns, g[i - 1].next))
    BY <1>10, Zenon
  <1>12. g = [i \in 0 .. n |-> g[i]]
    BY <1>10, <1>11, Zenon
  <1>13. 0 \in 0 .. n /\ \A i \in 1 .. n : i \in 0 .. n /\ i # 0 /\ i \in Nat
    OBVIOUS
  <1>14. g[0] = Reading(<<>>, at + 8)
    BY <1>11, <1>13, Zenon
  <1>15. ASSUME NEW i \in 1 .. n, g[i - 1].next \in Nat
         PROVE  g[i] = Extended(g[i - 1], reader[<<i, g[i - 1].next>>])
    <2>1. g[i] = Extended(g[i - 1], StringsIn(<<>>, columns, g[i - 1].next)) /\ i \in Nat
      BY <1>11, <1>13, Zenon
    <2>2. reader[<<i, g[i - 1].next>>] = StringsIn(<<>>, columns, g[i - 1].next)
      BY <1>3, <1>15, <2>1, Zenon
    <2>3. QED
      BY <2>1, <2>2, Zenon
  <1>16. Loop(g, V, <<>>, at + 8, reader, n)
    BY <1>2, <1>5, <1>12, <1>14, <1>15, LoopOf, Zenon
  <1>17. QED
    BY <1>2, <1>3, <1>4, <1>16, Zenon DEF V, reader

\* A table whose rows are all as long as the first one is read as its C strings.
FitRows(rows) == \A i \in DOMAIN rows : Len(rows[i]) = Columns(rows) /\ FitTexts(rows[i])
RowsKept(rows) == [i \in DOMAIN rows |-> Mapped(CString, rows[i])]
IsTable(rows) == AreRows(rows) /\ Len(rows) \in Count /\ Columns(rows) \in Count

\* A table is written as the numbers of its rows and columns and its rows.
LEMMA TableParts ==
    ASSUME NEW rows, IsTable(rows)
    PROVE  /\ TableOut(rows) \in Seq(Char)
           /\ Len(TableOut(rows)) = 8 + Len(FlattenSeq(RowOuts(rows)))
           /\ Len(FlattenSeq(RowOuts(rows))) \in Nat
           /\ \A at \in Nat : HoldsAt(at, TableOut(rows)) =>
                 /\ HoldsAt(at, NumberOut(Bytes(Len(rows), 4)))
                 /\ HoldsAt(at + 4, NumberOut(Bytes(Columns(rows), 4)))
                 /\ HoldsAt(at + 8, FlattenSeq(RowOuts(rows)))
  <1> DEFINE p == NumberOut(Bytes(Len(rows), 4))
             q == NumberOut(Bytes(Columns(rows), 4))
             flat == FlattenSeq(RowOuts(rows))
  <1>1. p \in Seq(Char) /\ Len(p) = 4 /\ q \in Seq(Char) /\ Len(q) = 4
    BY CountOut, Zenon DEF IsTable
  <1>2. RowOuts(rows) \in Seq(Seq(Char)) /\ FlattenSeq(Mapped(StringOut, FlattenSeq(rows))) = flat
    BY RowsFlat, Zenon DEF IsTable
  <1>3. flat \in Seq(Char)
    BY <1>2, FlattenType
  <1>4. TableOut(rows) = p \o q \o flat
    BY <1>2, Zenon DEF TableOut
  <1> HIDE DEF p, q, flat
  <1>5. Len(flat) \in Nat
    BY <1>3
  <1>6. p \o q \in Seq(Char) /\ Len(p \o q) = 8
    <2>1. p \o q \in Seq(Char) /\ Len(p \o q) = Len(p) + Len(q)
      BY <1>1, JoinIs, Zenon
    <2>2. Len(p) + Len(q) = 8
      BY <1>1
    <2>3. QED
      BY <2>1, <2>2, Zenon
  <1>7. (p \o q) \o flat \in Seq(Char) /\ Len((p \o q) \o flat) = 8 + Len(flat)
    BY <1>3, <1>6, JoinIs, Zenon
  <1>8. ASSUME NEW at \in Nat, HoldsAt(at, (p \o q) \o flat)
        PROVE  HoldsAt(at, p) /\ HoldsAt(at + 4, q) /\ HoldsAt(at + 8, flat)
    <2>1. HoldsAt(at, p \o q) /\ HoldsAt(at + Len(p \o q), flat)
      BY <1>3, <1>6, <1>8, HeldTwo, Zenon
    <2>2. HoldsAt(at, p) /\ HoldsAt(at + Len(p), q)
      BY <1>1, <2>1, HeldTwo, Zenon
    <2>3. QED
      BY <1>1, <1>6, <2>1, <2>2, Zenon
  <1>9. QED
    BY <1>4, <1>5, <1>7, <1>8, Zenon DEF p, q, flat

\* A table whose rows are as long as the first is read as its rows.
LEMMA TableHeld ==
    ASSUME data \in Seq(Char), NEW at \in Nat
    PROVE  /\ TableIn(at) \in Reads(Seq(Seq(Seq(Char))))
           /\ \A rows : IsTable(rows) /\ FitRows(rows) /\ HoldsAt(at, TableOut(rows)) =>
                 TableIn(at) = Reading(RowsKept(rows), at + Len(TableOut(rows)))
  <1> DEFINE V == Seq(Seq(Char))
             n == ValueOf(NumberAt(at, 4))
             columns == ValueOf(NumberAt(at + 4, 4))
             reader == RowReader(columns)
  <1>1. at + 4 \in Nat /\ at + 8 \in Nat /\ n \in Nat /\ columns \in Nat
    <2>1. at + 4 \in Nat /\ at + 8 \in Nat
      OBVIOUS
    <2>2. n \in Nat /\ columns \in Nat
      BY <2>1, CountHeld
    <2>3. QED
      BY <2>1, <2>2
  <1>2. /\ reader \in Readers(V)
        /\ \A i, a \in Nat : reader[<<i, a>>] = StringsIn(<<>>, columns, a)
        /\ \E g : Loop(g, V, <<>>, at + 8, reader, n) /\ TableIn(at) = g[n]
    BY <1>1, TableLoop
  <1> HIDE DEF n, columns, reader
  <1>3. PICK g : Loop(g, V, <<>>, at + 8, reader, n) /\ TableIn(at) = g[n]
    BY <1>2
  <1>4. <<>> \in Seq(V)
    BY EmptySeq
  <1>5. TableIn(at) \in Reads(Seq(V))
    <2> HIDE DEF V
    <2>1. g[n] \in Reads(Seq(V))
      BY <1>1, <1>2, <1>3, <1>4, LoopLen
    <2>2. QED
      BY <1>3, <2>1
  <1>6. ASSUME NEW rows, IsTable(rows), FitRows(rows), HoldsAt(at, TableOut(rows))
        PROVE  TableIn(at) = Reading(RowsKept(rows), at + Len(TableOut(rows)))
    <2> DEFINE outs == RowOuts(rows)
               W == RowsKept(rows)
    <2>1. /\ outs \in Seq(Seq(Char)) /\ Len(outs) = Len(rows)
          /\ \A i \in 1 .. Len(rows) : outs[i] = RowOut(rows[i])
      BY <1>6, RowsFlat, Zenon DEF IsTable
    <2>2. /\ rows \in Seq(V) /\ DOMAIN rows = 1 .. Len(rows) /\ Len(rows) \in Nat
          /\ Len(rows) \in Count /\ Columns(rows) \in Count
          /\ \A i \in 1 .. Len(rows) : AreTexts(rows[i]) /\ FitTexts(rows[i])
                                       /\ Len(rows[i]) = Columns(rows)
      BY <1>6 DEF IsTable, AreRows, FitRows
    <2>3. n = Len(rows) /\ columns = Columns(rows) /\ HoldsAt(at + 8, FlattenSeq(outs))
      <3>1. /\ HoldsAt(at, NumberOut(Bytes(Len(rows), 4)))
            /\ HoldsAt(at + 4, NumberOut(Bytes(Columns(rows), 4)))
            /\ HoldsAt(at + 8, FlattenSeq(outs))
        BY <1>6, TableParts, Zenon
      <3>2. QED
        BY <1>1, <2>2, <3>1, CountHeld, Zenon DEF n, columns
    <2> HIDE DEF outs
    <2>4. W \in Seq(V) /\ Len(W) = n /\ \A i \in 1 .. n : W[i] = Mapped(CString, rows[i])
      <3>1. W = [i \in 1 .. n |-> Mapped(CString, rows[i])]
        BY <2>2, <2>3, Zenon DEF RowsKept
      <3>2. \A i \in 1 .. n : Mapped(CString, rows[i]) \in V
        BY <2>2, <2>3, TextsAre, Zenon
      <3> HIDE DEF V, W
      <3>3. W \in [1 .. n -> V] /\ \A i \in 1 .. n : W[i] = Mapped(CString, rows[i])
        BY <3>1, <3>2, Zenon
      <3>4. QED
        BY <1>1, <3>3, FunctionIsSeq
    <2> HIDE DEF W
    <2>5. ASSUME NEW i \in 1 .. n, NEW a \in Nat, HoldsAt(a, outs[i])
          PROVE  reader[<<i, a>>] = Reading(W[i], a + Len(outs[i]))
      <3>1. i \in Nat /\ i \in 1 .. Len(rows)
        BY <2>3
      <3>2. HoldsAt(a, FlattenSeq(Mapped(StringOut, rows[i])))
        BY <2>1, <2>5, <3>1, Zenon DEF RowOut
      <3>3. StringsIn(<<>>, Len(rows[i]), a) =
                Reading(<<>> \o Mapped(CString, rows[i]), a + Len(RowOut(rows[i])))
        <4>1. <<>> \in Seq(Seq(Char))
          BY EmptySeq
        <4>2. QED
          BY <2>2, <3>1, <3>2, <4>1, StringsHeld, Zenon DEF RowOut
      <3>4. <<>> \o Mapped(CString, rows[i]) = Mapped(CString, rows[i])
        <4>1. Mapped(CString, rows[i]) \in Seq(Seq(Char))
          BY <2>2, <3>1, TextsAre, Zenon
        <4>2. QED
          BY <4>1, ConcatEmptySeq
      <3>5. QED
        BY <1>2, <2>1, <2>2, <2>3, <2>4, <3>1, <3>3, <3>4, Zenon
    <2>6. ReadsHeld(reader, outs, W, n)
      BY <2>5, Zenon DEF ReadsHeld
    <2>7. g[n] = Reading(<<>> \o W, (at + 8) + Len(FlattenSeq(outs)))
      <3> HIDE DEF V
      <3>1. Len(outs) = n
        BY <2>1, <2>3
      <3>2. /\ Loop(g, V, <<>>, at + 8, reader, n) /\ HoldsAt(at + 8, FlattenSeq(outs))
            /\ W \in Seq(V) /\ Len(W) = n /\ reader \in Readers(V)
            /\ outs \in Seq(Seq(Char))
        BY <1>2, <1>3, <2>1, <2>3, <2>4
      <3> DEFINE none == <<>>
                 from == at + 8
      <3>3. none \in Seq(V) /\ from \in Nat
        BY <1>1, <1>4
      <3>4. Loop(g, V, none, from, reader, n) /\ HoldsAt(from, FlattenSeq(outs))
        BY <3>2
      <3> HIDE DEF none, from
      <3>5. g[n] = Reading(none \o W, from + Len(FlattenSeq(outs)))
        BY <1>1, <2>6, <3>1, <3>2, <3>3, <3>4, LoopHeld
      <3>6. QED
        BY <3>5, Zenon DEF none, from
    <2>8. <<>> \o W = W
      <3> HIDE DEF V
      <3>1. QED
        BY <2>4, ConcatEmptySeq
    <2>9. (at + 8) + Len(FlattenSeq(outs)) = at + Len(TableOut(rows))
      <3>1. /\ Len(TableOut(rows)) = 8 + Len(FlattenSeq(outs))
            /\ Len(FlattenSeq(outs)) \in Nat
        BY <1>6, TableParts, Zenon DEF outs
      <3>2. QED
        BY <3>1
    <2>10. QED
      BY <1>3, <2>7, <2>8, <2>9, Zenon DEF W
  <1>7. QED
    BY <1>5, <1>6, Zenon

-----------------------------------------------------------------------------
(* Fields: what is written and read of each kind.                          *)
SimpleKinds == {"bool", "string", "bucket", "table", "position", "rotation"}
FieldKinds == DOMAIN Width \cup SimpleKinds \cup FixedClasses \cup BoundedClasses

\* The kinds of fields, by name.
LEMMA KindsAre ==
    /\ DOMAIN Width = {"U8", "U16", "U32", "int", "U64"}
    /\ FixedClasses = {"FixedStringTiny"} /\ BoundedClasses = {"BoundedStringTiny", "BoundedString16"}
    /\ DOMAIN Capacity = FixedClasses \cup BoundedClasses
  BY DEF Width, FixedClasses, BoundedClasses, Capacity

\* A width is a number.
LEMMA WidthIs ==
    ASSUME NEW kind \in DOMAIN Width
    PROVE  Width[kind] \in Nat
  BY DEF Width

\* The fields that are written, kind by kind.
LEMMA FieldOuts ==
    ASSUME NEW value
    PROVE  /\ \A kind \in DOMAIN Width : FieldOut(kind, value) = NumberOut(value)
           /\ FieldOut("bool", value) = <<IF value THEN 1 ELSE 0>>
           /\ FieldOut("string", value) = StringOut(value)
           /\ \A kind \in FixedClasses : FieldOut(kind, value) = FixedOut(kind, value)
           /\ \A kind \in BoundedClasses : FieldOut(kind, value) = BoundedOut(kind, value)
           /\ FieldOut("bucket", value) = BucketOut(value)
           /\ FieldOut("table", value) = TableOut(value)
           /\ FieldOut("rotation", value) = NumberOut(Bytes(SetRotation(value), 4))
           /\ FieldOut("position", value) = NumberOut(LongOf(PackPosition(value)))
  <1>1. \A kind \in DOMAIN Width : FieldOut(kind, value) = NumberOut(value)
    BY KindsAre, SMT DEF FieldOut
  <1>2. /\ FieldOut("string", value) = StringOut(value)
        /\ FieldOut("bucket", value) = BucketOut(value)
        /\ FieldOut("table", value) = TableOut(value)
        /\ FieldOut("rotation", value) = NumberOut(Bytes(SetRotation(value), 4))
    BY KindsAre, SMT DEF FieldOut
  <1>3. /\ \A kind \in FixedClasses : FieldOut(kind, value) = FixedOut(kind, value)
        /\ \A kind \in BoundedClasses : FieldOut(kind, value) = BoundedOut(kind, value)
    BY KindsAre, SMT DEF FieldOut
  <1>4. FieldOut("bool", value) = <<IF value THEN 1 ELSE 0>>
    BY KindsAre, SMT DEF FieldOut
  <1>5. FieldOut("position", value) = NumberOut(LongOf(PackPosition(value)))
    BY KindsAre, SMT DEF FieldOut, LongOf
  <1>6. QED
    BY <1>1, <1>2, <1>3, <1>4, <1>5, Zenon

\* And those that are read.
LEMMA FieldIns ==
    ASSUME NEW at
    PROVE  /\ \A kind \in DOMAIN Width :
                 FieldIn(kind, at) = Reading(NumberAt(at, Width[kind]), at + Width[kind])
           /\ FieldIn("bool", at) = Reading(Memcpy(at, 1)[1] # 0, at + 1)
           /\ FieldIn("string", at) = StringIn(at)
           /\ \A kind \in FixedClasses : FieldIn(kind, at) = FixedIn(kind, at)
           /\ \A kind \in BoundedClasses : FieldIn(kind, at) = BoundedIn(kind, at)
           /\ FieldIn("bucket", at) = BucketIn(at)
           /\ FieldIn("table", at) = TableIn(at)
           /\ FieldIn("rotation", at) = Reading(GetRotation(ValueOf(NumberAt(at, 4))), at + 4)
           /\ FieldIn("position", at) = Reading(UnpackPosition(BitsOfLong(NumberAt(at, 8))), at + 8)
  <1>1. \A kind \in DOMAIN Width :
            FieldIn(kind, at) = Reading(NumberAt(at, Width[kind]), at + Width[kind])
    BY KindsAre, SMT DEF FieldIn
  <1>2. /\ FieldIn("string", at) = StringIn(at)
        /\ FieldIn("bucket", at) = BucketIn(at)
        /\ FieldIn("table", at) = TableIn(at)
        /\ FieldIn("rotation", at) = Reading(GetRotation(ValueOf(NumberAt(at, 4))), at + 4)
    BY KindsAre, SMT DEF FieldIn
  <1>3. /\ \A kind \in FixedClasses : FieldIn(kind, at) = FixedIn(kind, at)
        /\ \A kind \in BoundedClasses : FieldIn(kind, at) = BoundedIn(kind, at)
    BY KindsAre, SMT DEF FieldIn
  <1>4. FieldIn("bool", at) = Reading(Memcpy(at, 1)[1] # 0, at + 1)
    BY KindsAre, SMT DEF FieldIn
  <1>5. FieldIn("position", at) = Reading(UnpackPosition(BitsOfLong(NumberAt(at, 8))), at + 8)
    BY KindsAre, SMT DEF FieldIn, BitsOfLong
  <1>6. QED
    BY <1>1, <1>2, <1>3, <1>4, <1>5, Zenon

\* What a program may write, kind by kind.
LEMMA FieldsAre ==
    ASSUME NEW kind, NEW value, IsField(kind, value)
    PROVE  /\ kind \in FieldKinds
           /\ kind \in DOMAIN Width => value \in Numbers(Width[kind])
           /\ kind = "bool" => value \in BOOLEAN
           /\ kind = "string" => IsText(value)
           /\ kind \in FixedClasses \cup BoundedClasses => value \in Seq(Clean)
           /\ kind = "bucket" => AreTexts(value) /\ Len(value) \in Count
           /\ kind = "table" => IsTable(value)
           /\ kind \in {"position", "rotation"} => value \in Vectors
  <1>1. kind \in FieldKinds
    BY SMT DEF IsField, FieldKinds, SimpleKinds
  <1>2. kind \in DOMAIN Width => value \in Numbers(Width[kind])
    BY KindsAre, SMT DEF IsField, Numbers
  <1>3. kind = "bool" => value \in BOOLEAN
    BY KindsAre, SMT DEF IsField
  <1>4. kind = "string" => IsText(value)
    BY KindsAre, SMT DEF IsField
  <1>5. kind \in FixedClasses \cup BoundedClasses => value \in Seq(Clean)
    BY KindsAre, SMT DEF IsField, Clean
  <1>6. ASSUME kind = "bucket"
        PROVE  AreTexts(value) /\ Len(value) \in Count
    BY <1>6, KindsAre, SMT DEF IsField, AreTexts
  <1>7. ASSUME kind = "table"
        PROVE  IsTable(value)
    <2>1. /\ value \in Seq(Seq(Seq(Char))) /\ Len(value) \in Count /\ Columns(value) \in Count
          /\ \A i \in DOMAIN value : \A j \in DOMAIN value[i] : IsText(value[i][j])
      BY <1>7, KindsAre, SMT DEF IsField
    <2>2. \A i \in DOMAIN value : value[i] \in Seq(Seq(Char))
      BY <2>1
    <2>3. QED
      BY <2>1, <2>2, Zenon DEF IsTable, AreRows, AreTexts
  <1>8. kind \in {"position", "rotation"} => value \in Vectors
    BY KindsAre, SMT DEF IsField, Vectors
  <1>9. QED
    BY <1>1, <1>2, <1>3, <1>4, <1>5, <1>6, <1>7, <1>8, Zenon

\* Everything that a field may be read as.
Angles == [{"x", "y", "z"} -> Int]
Value == BOOLEAN \cup Seq(Char) \cup Seq(Seq(Char)) \cup Seq(Seq(Seq(Char))) \cup Vectors \cup Angles

\* Every type that a field is read as is among the values.
LEMMA ValuesAre ==
    /\ BOOLEAN \subseteq Value /\ Seq(Char) \subseteq Value /\ Seq(Seq(Char)) \subseteq Value
    /\ Seq(Seq(Seq(Char))) \subseteq Value /\ Vectors \subseteq Value /\ Angles \subseteq Value
  BY Zenon DEF Value

\* What is read of a set is read of a larger one.
LEMMA ReadsMore ==
    ASSUME NEW S, NEW T, S \subseteq T, NEW r \in Reads(S)
    PROVE  r \in Reads(T)
  BY DEF Reads

\* Whatever lies in the buffer, reading a field gives a value and an offset.
LEMMA FieldType ==
    ASSUME data \in Seq(Char), bucket \in Seq(Seq(Char)), NEW kind \in FieldKinds, NEW at \in Nat
    PROVE  FieldIn(kind, at) \in Reads(Value)
  <1>1. CASE kind \in DOMAIN Width
    <2>1. Width[kind] \in Nat
      BY <1>1, WidthIs
    <2>2. NumberAt(at, Width[kind]) \in Seq(Char)
      BY <2>1, NumberHeld, NumberIsSeq
    <2>3. NumberAt(at, Width[kind]) \in Value /\ at + Width[kind] \in Nat
      BY <2>1, <2>2, ValuesAre
    <2>4. Reading(NumberAt(at, Width[kind]), at + Width[kind]) \in Reads(Value)
      BY <2>3, ReadingIs
    <2>5. QED
      BY <1>1, <2>4, FieldIns, Zenon
  <1>2. CASE kind = "bool"
    <2>1. (Memcpy(at, 1)[1] # 0) \in Value
      BY ValuesAre, Zenon
    <2>2. at + 1 \in Nat
      OBVIOUS
    <2>3. Reading(Memcpy(at, 1)[1] # 0, at + 1) \in Reads(Value)
      BY <2>1, <2>2, ReadingIs, Zenon
    <2>4. QED
      BY <1>2, <2>3, FieldIns, Zenon
  <1>3. CASE kind = "string"
    <2>1. StringIn(at) \in Reads(Value)
      BY StringHeld, ValuesAre, ReadsMore, Zenon
    <2>2. QED
      BY <1>3, <2>1, FieldIns, Zenon
  <1>4. CASE kind \in FixedClasses
    <2>1. kind \in DOMAIN Capacity
      BY <1>4, CapacityIs
    <2>2. FixedIn(kind, at) \in Reads(Seq(Char))
      BY <2>1, FixedHeld
    <2>3. FixedIn(kind, at) \in Reads(Value)
      BY <2>2, ValuesAre, ReadsMore, Zenon
    <2>4. QED
      BY <1>4, <2>3, FieldIns, Zenon
  <1>5. CASE kind \in BoundedClasses
    <2>1. kind \in DOMAIN Capacity
      BY <1>5, CapacityIs
    <2>2. BoundedIn(kind, at) \in Reads(Seq(Char))
      BY <2>1, BoundedHeld
    <2>3. BoundedIn(kind, at) \in Reads(Value)
      BY <2>2, ValuesAre, ReadsMore, Zenon
    <2>4. QED
      BY <1>5, <2>3, FieldIns, Zenon
  <1>6. CASE kind = "bucket"
    <2>1. BucketIn(at) \in Reads(Seq(Seq(Char)))
      BY BucketHeld
    <2>2. BucketIn(at) \in Reads(Value)
      BY <2>1, ValuesAre, ReadsMore, Zenon
    <2>3. QED
      BY <1>6, <2>2, FieldIns, Zenon
  <1>7. CASE kind = "table"
    <2>1. TableIn(at) \in Reads(Seq(Seq(Seq(Char))))
      BY TableHeld
    <2>2. TableIn(at) \in Reads(Value)
      BY <2>1, ValuesAre, ReadsMore, Zenon
    <2>3. QED
      BY <1>7, <2>2, FieldIns, Zenon
  <1>8. CASE kind = "rotation"
    <2>1. ValueOf(NumberAt(at, 4)) \in Nat
      BY CountHeld
    <2>2. GetRotation(ValueOf(NumberAt(at, 4))) \in Value
      BY <2>1, GetRotationType, ValuesAre, Zenon DEF Angles
    <2>3. at + 4 \in Nat
      OBVIOUS
    <2>4. Reading(GetRotation(ValueOf(NumberAt(at, 4))), at + 4) \in Reads(Value)
      BY <2>2, <2>3, ReadingIs
    <2>5. QED
      BY <1>8, <2>4, FieldIns, Zenon
  <1>9. CASE kind = "position"
    <2>1. UnpackPosition(BitsOfLong(NumberAt(at, 8))) \in Value
      BY UnpackType, ValuesAre, Zenon
    <2>2. at + 8 \in Nat
      OBVIOUS
    <2>3. Reading(UnpackPosition(BitsOfLong(NumberAt(at, 8))), at + 8) \in Reads(Value)
      BY <2>1, <2>2, ReadingIs
    <2>4. QED
      BY <1>9, <2>3, FieldIns, Zenon
  <1>10. QED
    BY <1>1, <1>2, <1>3, <1>4, <1>5, <1>6, <1>7, <1>8, <1>9 DEF FieldKinds, SimpleKinds

\* What a field is read as, and when the reader takes it whole.
Back(as, kind, value) ==
    CASE kind = "string" -> CString(value)
      [] kind \in DOMAIN Capacity -> Copy(as, Copy(kind, value))
      [] kind = "bucket" -> bucket \o Mapped(CString, value)
      [] kind = "table" -> RowsKept(value)
      [] kind = "rotation" -> GetRotation(SetRotation(value))
      [] kind = "position" -> UnpackPosition(PackPosition(value))
      [] OTHER -> value

FieldFits(as, kind, value) ==
    /\ kind = "string" => FitsText(value)
    /\ kind \in BoundedClasses => Len(Copy(kind, value)) <= Capacity[as]
    /\ kind = "bucket" => FitTexts(value)
    /\ kind = "table" => FitRows(value)

ReadableAs(as, kind) == as = kind \/ {kind, as} \subseteq BoundedClasses

\* What is read back, kind by kind.
LEMMA Backs ==
    ASSUME NEW as, NEW value
    PROVE  /\ \A kind \in DOMAIN Width : Back(as, kind, value) = value
           /\ Back(as, "bool", value) = value
           /\ Back(as, "string", value) = CString(value)
           /\ \A kind \in FixedClasses : Back(as, kind, value) = Copy(as, Copy(kind, value))
           /\ \A kind \in BoundedClasses : Back(as, kind, value) = Copy(as, Copy(kind, value))
           /\ Back(as, "bucket", value) = bucket \o Mapped(CString, value)
           /\ Back(as, "table", value) = RowsKept(value)
           /\ Back(as, "rotation", value) = GetRotation(SetRotation(value))
           /\ Back(as, "position", value) = UnpackPosition(PackPosition(value))
  <1>1. /\ \A kind \in DOMAIN Width : Back(as, kind, value) = value
        /\ Back(as, "bool", value) = value
    BY KindsAre, SMT DEF Back
  <1>2. /\ Back(as, "string", value) = CString(value)
        /\ \A kind \in FixedClasses : Back(as, kind, value) = Copy(as, Copy(kind, value))
        /\ \A kind \in BoundedClasses : Back(as, kind, value) = Copy(as, Copy(kind, value))
    BY KindsAre, SMT DEF Back
  <1>3. /\ Back(as, "bucket", value) = bucket \o Mapped(CString, value)
        /\ Back(as, "table", value) = RowsKept(value)
    BY KindsAre, SMT DEF Back
  <1>4. /\ Back(as, "rotation", value) = GetRotation(SetRotation(value))
        /\ Back(as, "position", value) = UnpackPosition(PackPosition(value))
    BY KindsAre, SMT DEF Back
  <1>5. QED
    BY <1>1, <1>2, <1>3, <1>4, Zenon

\* The classes of limited length copy twice: when written and when read.
LEMMA BackOfCopy ==
    ASSUME NEW as, NEW value, NEW kind \in DOMAIN Capacity
    PROVE  Back(as, kind, value) = Copy(as, Copy(kind, value))
  <1>1. /\ kind \in DOMAIN Capacity /\ kind # "string" /\ kind # "bucket" /\ kind # "table"
        /\ kind # "rotation" /\ kind # "position"
    BY KindsAre
  <1>2. QED
    BY <1>1, SMT DEF Back

\* A field that fits is read as what was written.
LEMMA FieldHeld ==
    ASSUME data \in Seq(Char), bucket \in Seq(Seq(Char)),
           NEW kind, NEW value, IsField(kind, value), NEW as, ReadableAs(as, kind)
    PROVE  /\ FieldOut(kind, value) \in Seq(Char) /\ as \in FieldKinds
           /\ \A at \in Nat : FieldFits(as, kind, value) /\ HoldsAt(at, FieldOut(kind, value)) =>
                 FieldIn(as, at) = Reading(Back(as, kind, value), at + Len(FieldOut(kind, value)))
  <1> DEFINE Goal ==
                /\ FieldOut(kind, value) \in Seq(Char)
                /\ \A at \in Nat : FieldFits(as, kind, value) /\ HoldsAt(at, FieldOut(kind, value)) =>
                      FieldIn(as, at) = Reading(Back(as, kind, value), at + Len(FieldOut(kind, value)))
  <1>1. kind \in FieldKinds /\ as \in FieldKinds
    BY FieldsAre DEF ReadableAs, FieldKinds
  <1>2. kind \notin BoundedClasses => as = kind
    BY DEF ReadableAs
  <1> SUFFICES Goal
    BY <1>1, Zenon
  <1>3. CASE kind \in DOMAIN Width
    <2> DEFINE w == Width[kind]
    <2>1. value \in Numbers(w) /\ w \in Nat /\ as = kind
      BY <1>2, <1>3, FieldsAre, WidthIs, KindsAre
    <2>2. FieldOut(kind, value) = NumberOut(value) /\ Back(as, kind, value) = value
      BY <1>3, FieldOuts, Backs, Zenon
    <2>3. \A at \in Nat : FieldIn(as, at) = Reading(NumberAt(at, w), at + w)
      BY <1>3, <2>1, FieldIns, Zenon
    <2> HIDE DEF w
    <2>4. NumberOut(value) \in Seq(Char) /\ Len(NumberOut(value)) = w
      <3>1. NumberOut(value) = value
        BY <2>1, NumberOutIs
      <3>2. QED
        BY <2>1, <3>1, NumberIsSeq
    <2>5. \A at \in Nat : HoldsAt(at, NumberOut(value)) => NumberAt(at, w) = value
      BY <2>1, NumberHeld
    <2>6. ASSUME NEW at \in Nat, FieldFits(as, kind, value), HoldsAt(at, NumberOut(value))
          PROVE  FieldIn(as, at) = Reading(value, at + Len(NumberOut(value)))
      BY <2>3, <2>4, <2>5, <2>6, Zenon
    <2>7. QED
      BY <2>2, <2>4, <2>6, Zenon
  <1>4. CASE kind = "bool"
    <2> DEFINE byte == IF value THEN 1 ELSE 0
    <2>1. value \in BOOLEAN /\ as = "bool"
      BY <1>2, <1>4, FieldsAre, KindsAre
    <2>2. FieldOut(kind, value) = <<byte>> /\ Back(as, kind, value) = value
      BY <1>4, FieldOuts, Backs, Zenon
    <2>3. byte \in Char /\ (byte # 0 <=> value)
      BY <2>1, Chars
    <2> HIDE DEF byte
    <2>4. <<byte>> \in Seq(Char) /\ Len(<<byte>>) = 1 /\ <<byte>>[1] = byte
      BY <2>3
    <2>5. ASSUME NEW at \in Nat, HoldsAt(at, <<byte>>)
          PROVE  FieldIn(as, at) = Reading(value, at + 1)
      <3>1. Memcpy(at, 1) = <<byte>>
        BY <2>4, <2>5, MemcpyHeld
      <3>2. (Memcpy(at, 1)[1] # 0) = value
        BY <2>1, <2>3, <2>4, <3>1, Zenon
      <3>3. FieldIn(as, at) = Reading(Memcpy(at, 1)[1] # 0, at + 1)
        BY <2>1, FieldIns, Zenon
      <3>4. QED
        BY <3>2, <3>3, Zenon
    <2>6. ASSUME NEW at \in Nat, FieldFits(as, kind, value), HoldsAt(at, <<byte>>)
          PROVE  FieldIn(as, at) = Reading(value, at + Len(<<byte>>))
      BY <2>4, <2>5, <2>6, Zenon
    <2>7. QED
      BY <2>2, <2>4, <2>6, Zenon
  <1>5. CASE kind = "string"
    <2>1. IsText(value) /\ as = "string"
      BY <1>2, <1>5, FieldsAre, KindsAre
    <2>2. FieldOut(kind, value) = StringOut(value) /\ Back(as, kind, value) = CString(value)
      BY <1>5, FieldOuts, Backs, Zenon
    <2>3. StringOut(value) \in Seq(Char)
      BY <2>1, StringOutIs
    <2>4. FieldFits(as, kind, value) => FitsText(value)
      BY <1>5 DEF FieldFits
    <2>5. \A at \in Nat : FieldIn(as, at) = StringIn(at)
      BY <2>1, FieldIns, Zenon
    <2>6. ASSUME NEW at \in Nat, FieldFits(as, kind, value), HoldsAt(at, StringOut(value))
          PROVE  FieldIn(as, at) = Reading(CString(value), at + Len(StringOut(value)))
      BY <2>1, <2>4, <2>5, <2>6, StringHeld, Zenon
    <2>7. QED
      BY <2>2, <2>3, <2>6, Zenon
  <1>6. CASE kind \in FixedClasses
    <2>1. value \in Seq(Clean) /\ as = kind /\ kind \in DOMAIN Capacity
      BY <1>2, <1>6, FieldsAre, KindsAre
    <2>2. /\ FieldOut(kind, value) = FixedOut(kind, value)
          /\ Back(as, kind, value) = Copy(as, Copy(kind, value))
      <3>1. FieldOut(kind, value) = FixedOut(kind, value)
        BY <1>6, FieldOuts, Zenon
      <3>2. Back(as, kind, value) = Copy(as, Copy(kind, value))
        BY <1>6, KindsAre, SMT DEF Back
      <3>3. QED
        BY <3>1, <3>2
    <2>3. \A at \in Nat : FieldIn(as, at) = FixedIn(kind, at)
      BY <1>6, <2>1, FieldIns, Zenon
    <2>4. FixedOut(kind, value) \in Seq(Char)
      <3>1. 0 \in Nat
        OBVIOUS
      <3>2. QED
        BY <2>1, <3>1, FixedHeld, Zenon
    <2>5. ASSUME NEW at \in Nat, FieldFits(as, kind, value), HoldsAt(at, FixedOut(kind, value))
          PROVE  FieldIn(as, at) = Reading(Copy(as, Copy(kind, value)), at + Len(FixedOut(kind, value)))
      BY <2>1, <2>3, <2>5, FixedHeld, Zenon
    <2>6. QED
      BY <2>2, <2>4, <2>5, Zenon
  <1>7. CASE kind \in BoundedClasses
    <2>1. value \in Seq(Clean) /\ as \in BoundedClasses /\ as \in DOMAIN Capacity /\ kind \in DOMAIN Capacity
      BY <1>7, FieldsAre, KindsAre DEF ReadableAs
    <2>2. /\ FieldOut(kind, value) = BoundedOut(kind, value)
          /\ Back(as, kind, value) = Copy(as, Copy(kind, value))
      <3>1. FieldOut(kind, value) = BoundedOut(kind, value)
        BY <1>7, FieldOuts, Zenon
      <3>2. Back(as, kind, value) = Copy(as, Copy(kind, value))
        BY <1>7, BackOfCopy, KindsAre
      <3>3. QED
        BY <3>1, <3>2
    <2>3. \A at \in Nat : FieldIn(as, at) = BoundedIn(as, at)
      BY <2>1, FieldIns, Zenon
    <2>4. BoundedOut(kind, value) \in Seq(Char)
      <3>1. IsText(Copy(kind, value))
        BY <2>1, CopyIsText
      <3>2. QED
        BY <3>1, StringOutIs DEF BoundedOut
    <2>5. FieldFits(as, kind, value) => Len(Copy(kind, value)) <= Capacity[as]
      BY <1>7, Zenon DEF FieldFits
    <2>6. ASSUME NEW at \in Nat, FieldFits(as, kind, value), HoldsAt(at, BoundedOut(kind, value))
          PROVE  FieldIn(as, at) = Reading(Copy(as, Copy(kind, value)), at + Len(BoundedOut(kind, value)))
      BY <2>1, <2>3, <2>5, <2>6, BoundedHeld, Zenon
    <2>7. QED
      BY <2>2, <2>4, <2>6, Zenon
  <1>8. CASE kind = "bucket"
    <2>1. AreTexts(value) /\ Len(value) \in Count /\ as = "bucket"
      BY <1>2, <1>8, FieldsAre, KindsAre
    <2>2. /\ FieldOut(kind, value) = BucketOut(value)
          /\ Back(as, kind, value) = bucket \o Mapped(CString, value)
      BY <1>8, FieldOuts, Backs, Zenon
    <2>3. \A at \in Nat : FieldIn(as, at) = BucketIn(at)
      BY <2>1, FieldIns, Zenon
    <2>4. FieldFits(as, kind, value) => FitTexts(value)
      BY <1>8, Zenon DEF FieldFits
    <2>5. BucketOut(value) \in Seq(Char)
      <3>1. 0 \in Nat
        OBVIOUS
      <3>2. QED
        BY <2>1, <3>1, BucketHeld, Zenon
    <2>6. ASSUME NEW at \in Nat, FieldFits(as, kind, value), HoldsAt(at, BucketOut(value))
          PROVE  FieldIn(as, at) = Reading(bucket \o Mapped(CString, value), at + Len(BucketOut(value)))
      BY <2>1, <2>3, <2>4, <2>6, BucketHeld, Zenon
    <2>7. QED
      BY <2>2, <2>5, <2>6, Zenon
  <1>9. CASE kind = "table"
    <2>1. IsTable(value) /\ as = "table"
      BY <1>2, <1>9, FieldsAre, KindsAre
    <2>2. FieldOut(kind, value) = TableOut(value) /\ Back(as, kind, value) = RowsKept(value)
      BY <1>9, FieldOuts, Backs, Zenon
    <2>3. \A at \in Nat : FieldIn(as, at) = TableIn(at)
      BY <2>1, FieldIns, Zenon
    <2>4. FieldFits(as, kind, value) => FitRows(value)
      BY <1>9, Zenon DEF FieldFits
    <2>5. TableOut(value) \in Seq(Char)
      BY <2>1, TableParts
    <2>6. ASSUME NEW at \in Nat, FieldFits(as, kind, value), HoldsAt(at, TableOut(value))
          PROVE  FieldIn(as, at) = Reading(RowsKept(value), at + Len(TableOut(value)))
      BY <2>1, <2>3, <2>4, <2>6, TableHeld, Zenon
    <2>7. QED
      BY <2>2, <2>5, <2>6, Zenon
  <1>10. CASE kind = "rotation"
    <2> DEFINE n == SetRotation(value)
    <2>1. value \in Vectors /\ as = "rotation"
      BY <1>2, <1>10, FieldsAre, KindsAre
    <2>2. n \in Count
      <3>1. n \in Nat /\ n < 1073741824
        BY <2>1, RotationClose, SMT
      <3> HIDE DEF n
      <3>2. QED
        BY <3>1, SMT DEF Count
    <2>3. FieldOut(kind, value) = NumberOut(Bytes(n, 4)) /\ Back(as, kind, value) = GetRotation(n)
      BY <1>10, FieldOuts, Backs, Zenon
    <2>4. \A at \in Nat : FieldIn(as, at) = Reading(GetRotation(ValueOf(NumberAt(at, 4))), at + 4)
      BY <2>1, FieldIns, Zenon
    <2> HIDE DEF n
    <2>5. NumberOut(Bytes(n, 4)) \in Seq(Char) /\ Len(NumberOut(Bytes(n, 4))) = 4
      BY <2>2, CountOut, Zenon
    <2>6. \A at \in Nat : HoldsAt(at, NumberOut(Bytes(n, 4))) => ValueOf(NumberAt(at, 4)) = n
      BY <2>2, CountHeld, Zenon
    <2>7. ASSUME NEW at \in Nat, FieldFits(as, kind, value), HoldsAt(at, NumberOut(Bytes(n, 4)))
          PROVE  FieldIn(as, at) = Reading(GetRotation(n), at + Len(NumberOut(Bytes(n, 4))))
      BY <2>4, <2>5, <2>6, <2>7, Zenon
    <2>8. QED
      BY <2>3, <2>5, <2>7, Zenon
  <1>11. CASE kind = "position"
    <2> DEFINE bits == PackPosition(value)
    <2>1. value \in Vectors /\ as = "position"
      BY <1>2, <1>11, FieldsAre, KindsAre
    <2>2. bits \in SUBSET (0 .. 63)
      BY PackBits
    <2>3. FieldOut(kind, value) = NumberOut(LongOf(bits)) /\ Back(as, kind, value) = UnpackPosition(bits)
      BY <1>11, FieldOuts, Backs, Zenon
    <2>4. \A at \in Nat : FieldIn(as, at) = Reading(UnpackPosition(BitsOfLong(NumberAt(at, 8))), at + 8)
      BY <2>1, FieldIns, Zenon
    <2> HIDE DEF bits
    <2>5. LongOf(bits) \in Numbers(8) /\ BitsOfLong(LongOf(bits)) = bits /\ 8 \in Nat
      BY <2>2, LongReadBack DEF Numbers
    <2>6. NumberOut(LongOf(bits)) \in Seq(Char) /\ Len(NumberOut(LongOf(bits))) = 8
      <3>1. NumberOut(LongOf(bits)) = LongOf(bits)
        BY <2>5, NumberOutIs
      <3>2. QED
        BY <2>5, <3>1, NumberIsSeq
    <2>7. \A at \in Nat : HoldsAt(at, NumberOut(LongOf(bits))) => NumberAt(at, 8) = LongOf(bits)
      BY <2>5, NumberHeld, Zenon
    <2>8. ASSUME NEW at \in Nat, FieldFits(as, kind, value), HoldsAt(at, NumberOut(LongOf(bits)))
          PROVE  FieldIn(as, at) = Reading(UnpackPosition(bits), at + Len(NumberOut(LongOf(bits))))
      BY <2>4, <2>5, <2>6, <2>7, <2>8, Zenon
    <2>9. QED
      BY <2>3, <2>6, <2>8, Zenon
  <1>12. Goal
    BY <1>1, <1>3, <1>4, <1>5, <1>6, <1>7, <1>8, <1>9, <1>10, <1>11 DEF FieldKinds, SimpleKinds
  <1>13. QED
    BY <1>12

-----------------------------------------------------------------------------
(* Packets and other items: fields, one behind the other.                  *)
FieldReader(kinds) ==
    [p \in Nat \X Nat |-> IF p[1] \in 1 .. Len(kinds) THEN FieldIn(kinds[p[1]], p[2])
                          ELSE Reading(TRUE, 0)]

\* The loop over fields has a reader.
LEMMA FieldReaderIs ==
    ASSUME data \in Seq(Char), bucket \in Seq(Seq(Char)), NEW kinds \in Seq(FieldKinds)
    PROVE  /\ FieldReader(kinds) \in Readers(Value)
           /\ \A i \in 1 .. Len(kinds), a \in Nat :
                 FieldReader(kinds)[<<i, a>>] = FieldIn(kinds[i], a)
  <1>1. Len(kinds) \in Nat /\ \A i \in 1 .. Len(kinds) : i \in Nat /\ kinds[i] \in FieldKinds
    OBVIOUS
  <1>2. Reading(TRUE, 0) \in Reads(Value)
    <2>1. TRUE \in Value /\ 0 \in Nat
      BY ValuesAre, Zenon
    <2>2. QED
      BY <2>1, ReadingIs, Zenon
  <1>3. ASSUME NEW i \in Nat, NEW a \in Nat
        PROVE  (IF i \in 1 .. Len(kinds) THEN FieldIn(kinds[i], a) ELSE Reading(TRUE, 0)) \in Reads(Value)
    <2>1. i \in 1 .. Len(kinds) => FieldIn(kinds[i], a) \in Reads(Value)
      BY <1>1, FieldType, Zenon
    <2>2. QED
      BY <1>2, <2>1, Zenon
  <1>4. FieldReader(kinds) \in Readers(Value)
    BY <1>3 DEF FieldReader, Readers
  <1>5. \A i, a \in Nat : FieldReader(kinds)[<<i, a>>] =
            IF i \in 1 .. Len(kinds) THEN FieldIn(kinds[i], a) ELSE Reading(TRUE, 0)
    BY DEF FieldReader
  <1>6. QED
    BY <1>1, <1>4, <1>5, Zenon

\* FieldsFrom is a loop over fields.
LEMMA FieldsLoop ==
    ASSUME data \in Seq(Char), bucket \in Seq(Seq(Char)), NEW kinds \in Seq(FieldKinds), NEW at \in Nat
    PROVE  \E g : /\ Loop(g, Value, <<>>, at, FieldReader(kinds), Len(kinds))
                  /\ FieldsFrom(kinds, at) = g[Len(kinds)]
  <1> DEFINE n == Len(kinds)
             IsFields(g) == g = [i \in 0 .. n |-> IF i = 0 THEN Reading(<<>>, at)
                                     ELSE Extended(g[i - 1], FieldIn(kinds[i], g[i - 1].next))]
             g == CHOOSE g : IsFields(g)
             reader == FieldReader(kinds)
             V == Value
  <1>1. reader \in Readers(V)
    BY FieldReaderIs
  <1>2. \A i \in 1 .. n, a \in Nat : reader[<<i, a>>] = FieldIn(kinds[i], a)
    BY FieldReaderIs
  <1>3. FieldsFrom(kinds, at) = g[n]
    BY Zenon DEF FieldsFrom
  <1>4. <<>> \in Seq(V) /\ n \in Nat
    BY EmptySeq
  <1> HIDE DEF V, reader, n
  <1>5. HasLoop(V, <<>>, at, reader, n)
    BY <1>1, <1>4, LoopExists
  <1>6. PICK r : Loop(r, V, <<>>, at, reader, n)
    BY <1>5, Zenon DEF HasLoop
  <1>7. 0 \in 0 .. n /\ \A i \in 0 .. n : i = 0 \/ i \in 1 .. n
    BY <1>4
  <1>8. IsFields(r)
    <2>1. /\ r \in [0 .. n -> Reads(Seq(V))] /\ r[0] = Reading(<<>>, at)
          /\ \A i \in 1 .. n : r[i] = Extended(r[i - 1], reader[<<i, r[i - 1].next>>])
      BY <1>6 DEF Loop
    <2>2. ASSUME NEW i \in 1 .. n
          PROVE  r[i] = Extended(r[i - 1], FieldIn(kinds[i], r[i - 1].next))
      <3>1. r[i - 1] \in Reads(Seq(V))
        BY <1>4, <2>1
      <3>2. r[i - 1].next \in Nat
        BY <3>1 DEF Reads
      <3>3. QED
        BY <1>2, <2>1, <3>2, Zenon
    <2>3. \A i \in 0 .. n : r[i] = IF i = 0 THEN Reading(<<>>, at)
                                  ELSE Extended(r[i - 1], FieldIn(kinds[i], r[i - 1].next))
      BY <1>7, <2>1, <2>2, Zenon
    <2>4. r = [i \in 0 .. n |-> r[i]]
      BY <2>1
    <2>5. QED
      BY <2>3, <2>4, Zenon
  <1>9. IsFields(g)
    BY <1>8, Zenon
  <1> HIDE DEF g
  <1>10. \A i \in 0 .. n : g[i] = IF i = 0 THEN Reading(<<>>, at)
                                 ELSE Extended(g[i - 1], FieldIn(kinds[i], g[i - 1].next))
    BY <1>9, Zenon
  <1>11. g = [i \in 0 .. n |-> g[i]]
    BY <1>9, <1>10, Zenon
  <1>12. \A i \in 1 .. n : i \in 0 .. n /\ i # 0
    BY <1>4
  <1>13. g[0] = Reading(<<>>, at)
    BY <1>7, <1>10, Zenon
  <1>14. ASSUME NEW i \in 1 .. n, g[i - 1].next \in Nat
         PROVE  g[i] = Extended(g[i - 1], reader[<<i, g[i - 1].next>>])
    <2>1. g[i] = Extended(g[i - 1], FieldIn(kinds[i], g[i - 1].next))
      BY <1>10, <1>12, Zenon
    <2>2. reader[<<i, g[i - 1].next>>] = FieldIn(kinds[i], g[i - 1].next)
      BY <1>2, <1>14, Zenon
    <2>3. QED
      BY <2>1, <2>2, Zenon
  <1>15. Loop(g, V, <<>>, at, reader, n)
    BY <1>1, <1>4, <1>11, <1>13, <1>14, LoopOf, Zenon
  <1>16. QED
    BY <1>3, <1>15, Zenon DEF V, reader, n

\* As many values as there are kinds are read, whatever lies in the buffer.
LEMMA FieldsType ==
    ASSUME data \in Seq(Char), bucket \in Seq(Seq(Char)), NEW kinds \in Seq(FieldKinds), NEW at \in Nat
    PROVE  /\ FieldsFrom(kinds, at) \in Reads(Seq(Value))
           /\ Len(FieldsFrom(kinds, at).value) = Len(kinds)
  <1> DEFINE n == Len(kinds)
             none == <<>>
             reader == FieldReader(kinds)
  <1>1. PICK g : Loop(g, Value, none, at, reader, n) /\ FieldsFrom(kinds, at) = g[n]
    BY FieldsLoop
  <1>2. none \in Seq(Value) /\ n \in Nat /\ Len(none) = 0
    BY EmptySeq
  <1>3. reader \in Readers(Value)
    BY FieldReaderIs
  <1> HIDE DEF n, none, reader
  <1>4. Loop(g, Value, none, at, reader, n)
    BY <1>1
  <1>5. g[n] \in Reads(Seq(Value)) /\ Len(g[n].value) = Len(none) + n
    <2>1. none \in Seq(Value) /\ n \in Nat
      BY <1>2
    <2>2. QED
      BY <1>3, <1>4, <2>1, LoopLen
  <1>6. Len(g[n].value) = n
    BY <1>2, <1>5
  <1>7. QED
    BY <1>1, <1>5, <1>6, Zenon DEF n

\* The fields that lie at an offset and are read by their kinds, or by the
\* first of them, are what was written.
FieldsAsHeld(kinds, outs, W) ==
    \A i \in 1 .. Len(kinds) : \A a \in Nat :
        HoldsAt(a, outs[i]) => FieldIn(kinds[i], a) = Reading(W[i], a + Len(outs[i]))

\* Fields that lie one behind the other are read as their values, all or the first of them.
LEMMA FieldsHeld ==
    ASSUME data \in Seq(Char), bucket \in Seq(Seq(Char)), NEW kinds \in Seq(FieldKinds), NEW at \in Nat,
           NEW outs \in Seq(Seq(Char)), Len(kinds) <= Len(outs), HoldsAt(at, FlattenSeq(outs)),
           NEW W, W = [i \in 1 .. Len(kinds) |-> W[i]], FieldsAsHeld(kinds, outs, W)
    PROVE  /\ FieldsFrom(kinds, at).value = W
           /\ Len(kinds) = Len(outs) => FieldsFrom(kinds, at) = Reading(W, at + Len(FlattenSeq(outs)))
  <1> DEFINE n == Len(kinds)
             none == <<>>
             reader == FieldReader(kinds)
             m == Len(outs)
  <1>1. PICK g : Loop(g, Value, none, at, reader, n) /\ FieldsFrom(kinds, at) = g[n]
    BY FieldsLoop
  <1>2. none \in Seq(Value) /\ n \in Nat /\ m \in Nat /\ n <= m
    BY EmptySeq
  <1>3. /\ reader \in Readers(Value)
        /\ \A i \in 1 .. n, a \in Nat : reader[<<i, a>>] = FieldIn(kinds[i], a)
    BY FieldReaderIs
  <1>4. PICK f : Joins(f, outs, Char) /\ FlattenSeq(outs) = f[m]
    BY FlattenPrefixes
  <1>5. HoldsAt(at, f[Len(outs)])
    BY <1>4
  <1>6. HeldEach(at, f, outs)
    BY <1>4, <1>5, HeldJoin
  <1>7. ASSUME NEW i \in 1 .. n
        PROVE  /\ reader[<<i, at + Len(f[i - 1])>>] = Reading(W[i], at + Len(f[i]))
               /\ W[i] \in Value /\ at + Len(f[i]) \in Nat
    <2>1. i \in 1 .. m /\ i - 1 \in 0 .. m /\ i \in 0 .. m /\ i \in Nat
      BY <1>2
    <2>2. f \in [0 .. m -> Seq(Char)]
      BY <1>4 DEF Joins
    <2>3. f[i - 1] \in Seq(Char) /\ f[i] \in Seq(Char) /\ outs[i] \in Seq(Char) /\ kinds[i] \in FieldKinds
      BY <2>1, <2>2, SMTT(40)
    <2>4. HoldsAt(at + Len(f[i - 1]), outs[i]) /\ Len(f[i]) = Len(f[i - 1]) + Len(outs[i])
      BY <1>6, <2>1, Zenon DEF HeldEach
    <2>5. /\ at + Len(f[i - 1]) \in Nat /\ at + Len(f[i]) \in Nat
          /\ (at + Len(f[i - 1])) + Len(outs[i]) = at + Len(f[i])
      <3>1. Len(f[i - 1]) \in Nat /\ Len(f[i]) \in Nat /\ Len(outs[i]) \in Nat
        BY <2>3, LenProperties
      <3> DEFINE a == Len(f[i - 1])
                 b == Len(f[i])
                 c == Len(outs[i])
      <3>2. a \in Nat /\ b \in Nat /\ c \in Nat /\ b = a + c
        BY <2>4, <3>1, Zenon
      <3> HIDE DEF a, b, c
      <3>3. at + a \in Nat /\ at + b \in Nat /\ (at + a) + c = at + b
        BY <3>2, SMTT(40)
      <3>4. QED
        BY <3>3, Zenon DEF a, b, c
    <2>6. FieldIn(kinds[i], at + Len(f[i - 1])) = Reading(W[i], at + Len(f[i]))
      BY <2>4, <2>5, Zenon DEF FieldsAsHeld
    <2>7. Reading(W[i], at + Len(f[i])) \in Reads(Value)
      BY <2>3, <2>5, <2>6, FieldType, Zenon
    <2>8. W[i] \in Value
      BY <2>7 DEF Reading, Reads
    <2>9. QED
      BY <1>3, <2>5, <2>6, <2>8, Zenon
  <1>8. W \in Seq(Value) /\ Len(W) = n
    <2>1. W \in [1 .. n -> Value]
      BY <1>7
    <2> HIDE DEF n
    <2>2. QED
      BY <1>2, <2>1, FunctionIsSeq
  <1> HIDE DEF n, none, reader
  <1>9. ReadsEach(reader, at, f, W, n)
    BY <1>7, Zenon DEF ReadsEach
  <1>10. Loop(g, Value, none, at, reader, n) /\ Joins(f, outs, Char) /\ n <= Len(outs)
    BY <1>1, <1>2, <1>4
  <1>11. g[n] = Reading(none \o W, at + Len(f[n]))
    <2>1. none \in Seq(Value) /\ n \in Nat /\ n <= Len(outs)
      BY <1>2, <1>10
    <2>2. Loop(g, Value, none, at, reader, n) /\ Joins(f, outs, Char)
      BY <1>10
    <2>3. \A b \in Seq(Value), w \in Seq(Value), r \in Readers(Value) :
              /\ Loop(g, Value, b, at, r, n) /\ Len(w) = n /\ ReadsEach(r, at, f, w, n)
              => g[n] = Reading(b \o w, at + Len(f[n]))
      BY <2>1, <2>2, LoopReads
    <2>4. QED
      BY <1>3, <1>8, <1>9, <2>1, <2>2, <2>3, Zenon
  <1>12. none \o W = W
    BY <1>8, ConcatEmptySeq DEF none
  <1>13. FieldsFrom(kinds, at) = Reading(W, at + Len(f[n]))
    BY <1>1, <1>11, <1>12, Zenon
  <1>14. FieldsFrom(kinds, at).value = W
    BY <1>13 DEF Reading
  <1>15. n = m => FieldsFrom(kinds, at) = Reading(W, at + Len(FlattenSeq(outs)))
    BY <1>4, <1>13, Zenon
  <1>16. QED
    BY <1>14, <1>15, Zenon DEF n

-----------------------------------------------------------------------------
(* Packets and other items.                                                *)
PacketKinds == {"U8", "U16", "position", "rotation"}

\* The fields of a packet: those of BasePacket, and more.
LEMMA LayoutIs ==
    /\ Classes = {"BasePacket", "ConnectionCommsPacket", "PositionPacket", "MovementPacket"}
    /\ PacketKinds \subseteq FieldKinds
    /\ Header \in Seq(PacketKinds) /\ Len(Header) = 6 /\ Header[1] = "U8" /\ Header[2] = "U8"
    /\ Layout["BasePacket"] = Header
    /\ \A c \in Classes : /\ Layout[c] \in Seq(PacketKinds) /\ Len(Layout[c]) \in Nat
                          /\ Len(Layout[c]) >= 6
                          /\ \A i \in 1 .. 6 : Layout[c][i] = Header[i]
  <1>1. /\ Classes = {"BasePacket", "ConnectionCommsPacket", "PositionPacket", "MovementPacket"}
        /\ Layout["BasePacket"] = Header
        /\ Layout["ConnectionCommsPacket"] = Header \o <<"U16">>
        /\ Layout["PositionPacket"] = PositionPacket
        /\ Layout["MovementPacket"] = PositionPacket \o <<"position">>
    BY DEF Classes, Layout
  <1>2. PacketKinds \subseteq FieldKinds
    BY DEF PacketKinds, FieldKinds, SimpleKinds, Width
  <1>3. Header \in Seq(PacketKinds) /\ Len(Header) = 6 /\ Header[1] = "U8" /\ Header[2] = "U8"
    BY DEF Header, PacketKinds
  <1>4. <<"U16">> \in Seq(PacketKinds) /\ <<"position">> \in Seq(PacketKinds)
        /\ <<"position", "rotation">> \in Seq(PacketKinds)
    BY DEF PacketKinds
  <1> DEFINE IsPacket(kinds) == /\ kinds \in Seq(PacketKinds) /\ Len(kinds) \in Nat
                                /\ Len(kinds) >= 6 /\ \A i \in 1 .. 6 : kinds[i] = Header[i]
  <1>5. IsPacket(Header)
    BY <1>3
  <1>6. ASSUME NEW s, IsPacket(s), NEW t \in Seq(PacketKinds)
        PROVE  IsPacket(s \o t)
    <2>1. /\ s \o t \in Seq(PacketKinds) /\ Len(s \o t) = Len(s) + Len(t)
          /\ \A i \in 1 .. Len(s) : (s \o t)[i] = s[i]
      BY <1>6, ConcatProperties
    <2>2. Len(t) \in Nat /\ \A i \in 1 .. 6 : i \in 1 .. Len(s)
      BY <1>6
    <2>3. QED
      BY <1>6, <2>1, <2>2
  <1> HIDE DEF IsPacket
  <1>7. IsPacket(Header \o <<"U16">>) /\ IsPacket(PositionPacket)
    BY <1>4, <1>5, <1>6, Zenon DEF PositionPacket, ServerTickPacket
  <1>8. IsPacket(PositionPacket \o <<"position">>)
    BY <1>4, <1>6, <1>7, Zenon
  <1>9. \A c \in Classes : IsPacket(Layout[c])
    BY <1>1, <1>5, <1>7, <1>8
  <1>10. QED
    BY <1>1, <1>2, <1>3, <1>9, Zenon DEF IsPacket

\* The fields of packets and of single fields.
LEMMA KindsOf ==
    /\ Classes \cap FieldKinds = {}
    /\ \A c \in Classes : /\ Kinds(c) \in Seq(FieldKinds) /\ Len(Kinds(c)) \in Nat
                          /\ \A k \in 1 .. Len(Kinds(c)) : Kinds(c)[k] \in PacketKinds
    /\ \A kind : kind \notin Classes =>
          Kinds(kind) = <<kind>> /\ Len(Kinds(kind)) = 1 /\ Kinds(kind)[1] = kind
    /\ \A kind \in FieldKinds : Kinds(kind) \in Seq(FieldKinds)
  <1>1. Classes \cap FieldKinds = {}
    BY LayoutIs DEF FieldKinds, SimpleKinds, FixedClasses, BoundedClasses, Width
  <1>2. ASSUME NEW c \in Classes
        PROVE  /\ Kinds(c) \in Seq(FieldKinds) /\ Len(Kinds(c)) \in Nat
               /\ \A k \in 1 .. Len(Kinds(c)) : Kinds(c)[k] \in PacketKinds
    <2>1. Kinds(c) = Layout[c]
      BY DEF Kinds
    <2>2. Layout[c] \in Seq(PacketKinds) /\ PacketKinds \subseteq FieldKinds
      BY LayoutIs, Zenon
    <2> HIDE DEF Layout, PacketKinds, FieldKinds
    <2>3. QED
      BY <2>1, <2>2
  <1>3. \A kind : kind \notin Classes =>
            Kinds(kind) = <<kind>> /\ Len(Kinds(kind)) = 1 /\ Kinds(kind)[1] = kind
    BY DEF Kinds
  <1>4. ASSUME NEW kind \in FieldKinds
        PROVE  Kinds(kind) \in Seq(FieldKinds)
    <2>1. Kinds(kind) = <<kind>>
      BY <1>1, <1>3, <1>4
    <2>2. <<kind>> \in Seq(FieldKinds)
      BY <1>4
    <2>3. QED
      BY <2>1, <2>2, Zenon
  <1>5. QED
    BY <1>1, <1>2, <1>3, <1>4, Zenon

\* An item has as many values as there are fields of its kind and of the
\* class it is read as, and each is read by a field that may read it.
LEMMA ItemIs ==
    ASSUME NEW item, IsItem(item)
    PROVE  /\ Len(item.values) \in Nat /\ DOMAIN item.values = 1 .. Len(item.values)
           /\ Kinds(item.kind) \in Seq(FieldKinds) /\ Len(Kinds(item.kind)) = Len(item.values)
           /\ Kinds(item.as) \in Seq(FieldKinds) /\ Len(Kinds(item.as)) = Len(item.values)
           /\ \A k \in 1 .. Len(item.values) :
                 /\ ReadableAs(Kinds(item.as)[k], Kinds(item.kind)[k])
                 /\ IsField(Kinds(item.kind)[k], item.values[k])
           /\ item.kind \in Classes \cup FieldKinds
           /\ item.kind \in Classes => item.as = item.kind
           /\ item.kind \notin Classes => Len(item.values) = 1
           /\ item.as = "bucket" <=> item.kind = "bucket"
  <1> DEFINE n == Len(item.values)
             kind == item.kind
             as == item.as
  <1>1. /\ n = Len(Kinds(kind)) /\ DOMAIN item.values = DOMAIN Kinds(kind)
        /\ \A k \in DOMAIN item.values : IsField(Kinds(kind)[k], item.values[k])
        /\ as # kind => kind \in BoundedClasses /\ as \in BoundedClasses
    BY DEF IsItem
  <1>2. BoundedClasses \subseteq FieldKinds
    BY DEF FieldKinds
  <1>3. CASE kind \in Classes
    <2>1. kind \notin FieldKinds
      BY <1>3, KindsOf
    <2>2. as = kind /\ as # "bucket" /\ kind # "bucket"
      BY <1>1, <1>2, <1>3, <2>1, LayoutIs
    <2>3. Kinds(kind) \in Seq(FieldKinds)
      BY <1>3, KindsOf
    <2>4. n \in Nat /\ DOMAIN item.values = 1 .. n
      BY <1>1, <2>3, LenProperties, Zenon
    <2> HIDE DEF n, as, kind
    <2>5. \A k \in 1 .. n : ReadableAs(Kinds(as)[k], Kinds(kind)[k])
      BY <2>2, Zenon DEF ReadableAs
    <2>6. QED
      BY <1>1, <1>3, <2>2, <2>3, <2>4, <2>5, Zenon DEF n, as, kind
  <1>4. CASE kind \notin Classes
    <2>1. Kinds(kind) = <<kind>> /\ Len(Kinds(kind)) = 1 /\ Kinds(kind)[1] = kind
      BY <1>4, KindsOf
    <2>2. DOMAIN Kinds(kind) = {1}
      BY <2>1
    <2>3. IsField(kind, item.values[1])
      BY <1>1, <2>1, <2>2
    <2>4. kind \in FieldKinds
      BY <2>3, FieldsAre
    <2>5. as \in FieldKinds /\ ReadableAs(as, kind)
      BY <1>1, <1>2, <2>4 DEF ReadableAs
    <2>6. as \notin Classes
      BY <2>5, KindsOf
    <2>7. Kinds(as) = <<as>> /\ Len(Kinds(as)) = 1 /\ Kinds(as)[1] = as
      BY <2>6, KindsOf
    <2>8. Kinds(as) \in Seq(FieldKinds) /\ Kinds(kind) \in Seq(FieldKinds)
      BY <2>4, <2>5, KindsOf
    <2>9. as = "bucket" <=> kind = "bucket"
      BY <1>1, KindsAre
    <2>10. n = 1 /\ DOMAIN item.values = 1 .. n
      BY <1>1, <2>1, <2>2
    <2> HIDE DEF n, as, kind
    <2>11. \A k \in 1 .. n : k = 1
      BY <2>10
    <2>12. \A k \in 1 .. n : /\ ReadableAs(Kinds(as)[k], Kinds(kind)[k])
                             /\ IsField(Kinds(kind)[k], item.values[k])
      BY <2>1, <2>3, <2>5, <2>7, <2>11, Zenon
    <2>13. kind \in Classes \cup FieldKinds /\ n \in Nat
      BY <2>4, <2>10
    <2>14. QED
      BY <1>4, <2>1, <2>7, <2>8, <2>9, <2>10, <2>12, <2>13, Zenon DEF n, as, kind
  <1>5. QED
    BY <1>3, <1>4, Zenon

\* The bytes of the fields of an item, and what they are read as.
Outs(item) == [i \in DOMAIN item.values |-> FieldOut(Kinds(item.kind)[i], item.values[i])]
AllBack(item) ==
    [k \in 1 .. Len(item.values) |-> Back(Kinds(item.as)[k], Kinds(item.kind)[k], item.values[k])]

ItemFits(item) ==
    \A k \in 1 .. Len(item.values) :
        FieldFits(Kinds(item.as)[k], Kinds(item.kind)[k], item.values[k])

\* The bytes of an item are those of its fields.
LEMMA OutsAre ==
    ASSUME data \in Seq(Char), bucket \in Seq(Seq(Char)), NEW item, IsItem(item)
    PROVE  /\ Outs(item) \in Seq(Seq(Char)) /\ Len(Outs(item)) = Len(item.values)
           /\ \A k \in 1 .. Len(item.values) :
                 Outs(item)[k] = FieldOut(Kinds(item.kind)[k], item.values[k])
           /\ FieldsOut(item) = FlattenSeq(Outs(item))
           /\ FieldsOut(item) \in Seq(Char)
  <1> DEFINE n == Len(item.values)
             outs == Outs(item)
  <1>1. n \in Nat /\ DOMAIN item.values = 1 .. n
    BY ItemIs
  <1>2. ASSUME NEW k \in 1 .. n
        PROVE  FieldOut(Kinds(item.kind)[k], item.values[k]) \in Seq(Char)
    <2>1. /\ ReadableAs(Kinds(item.as)[k], Kinds(item.kind)[k])
          /\ IsField(Kinds(item.kind)[k], item.values[k])
      BY ItemIs, Zenon
    <2>2. QED
      BY <2>1, FieldHeld
  <1>3. outs = [k \in 1 .. n |-> FieldOut(Kinds(item.kind)[k], item.values[k])]
    BY <1>1, Zenon DEF Outs
  <1> HIDE DEF n, outs
  <1>4. outs \in [1 .. n -> Seq(Char)]
    BY <1>2, <1>3
  <1>5. outs \in Seq(Seq(Char)) /\ Len(outs) = n
    BY <1>1, <1>4, FunctionIsSeq
  <1>6. \A k \in 1 .. n : outs[k] = FieldOut(Kinds(item.kind)[k], item.values[k])
    BY <1>3
  <1>7. FieldsOut(item) = FlattenSeq(outs)
    BY Zenon DEF FieldsOut, Outs, outs
  <1>8. FieldsOut(item) \in Seq(Char)
    BY <1>5, <1>7, FlattenType
  <1>9. QED
    BY <1>5, <1>6, <1>7, <1>8, Zenon DEF n, outs

\* Every field of an item that fits is read as what was written.
LEMMA ItemFieldsHeld ==
    ASSUME data \in Seq(Char), bucket \in Seq(Seq(Char)), NEW item, IsItem(item), ItemFits(item)
    PROVE  FieldsAsHeld(Kinds(item.as), Outs(item), AllBack(item))
  <1> DEFINE n == Len(item.values)
             kinds == Kinds(item.kind)
             as == Kinds(item.as)
             outs == Outs(item)
             W == AllBack(item)
  <1>1. Len(as) = n
    BY ItemIs
  <1>2. ASSUME NEW k \in 1 .. n, NEW a \in Nat, HoldsAt(a, outs[k])
        PROVE  FieldIn(as[k], a) = Reading(W[k], a + Len(outs[k]))
    <2>1. ReadableAs(as[k], kinds[k]) /\ IsField(kinds[k], item.values[k])
      BY ItemIs, Zenon
    <2>2. FieldFits(as[k], kinds[k], item.values[k])
      BY Zenon DEF ItemFits
    <2>3. outs[k] = FieldOut(kinds[k], item.values[k])
      BY OutsAre, Zenon
    <2>4. W[k] = Back(as[k], kinds[k], item.values[k])
      BY Zenon DEF AllBack
    <2>5. HoldsAt(a, FieldOut(kinds[k], item.values[k]))
      BY <1>2, <2>3, Zenon
    <2>6. FieldIn(as[k], a) = Reading(Back(as[k], kinds[k], item.values[k]),
                                      a + Len(FieldOut(kinds[k], item.values[k])))
      <3> HIDE DEF as, kinds, outs, W, n
      <3>1. QED
        BY <2>1, <2>2, <2>5, FieldHeld
    <2>7. QED
      BY <2>3, <2>4, <2>6, Zenon
  <1> HIDE DEF n, as, outs, W
  <1>3. QED
    BY <1>1, <1>2, Zenon DEF FieldsAsHeld, n, as, outs, W

\* An item that lies at an offset is read as its values, by the class that reads it.
LEMMA ItemHeld ==
    ASSUME data \in Seq(Char), bucket \in Seq(Seq(Char)), NEW item, IsItem(item), ItemFits(item),
           NEW at \in Nat, HoldsAt(at, FieldsOut(item))
    PROVE  FieldsIn(item.as, at) = Reading(AllBack(item), at + Len(FieldsOut(item)))
  <1> DEFINE kinds == Kinds(item.as)
             outs == Outs(item)
             W == AllBack(item)
             n == Len(kinds)
  <1>1. /\ outs \in Seq(Seq(Char)) /\ FieldsOut(item) = FlattenSeq(outs)
        /\ Len(outs) = n /\ n = Len(item.values) /\ kinds \in Seq(FieldKinds) /\ n \in Nat
    BY ItemIs, OutsAre
  <1>2. HoldsAt(at, FlattenSeq(outs))
    BY <1>1, Zenon
  <1>3. FieldsAsHeld(kinds, outs, W)
    BY ItemFieldsHeld
  <1>4. W = [i \in 1 .. n |-> W[i]]
    <2>1. DOMAIN W = 1 .. n /\ W = [i \in DOMAIN W |-> W[i]]
      BY <1>1 DEF AllBack
    <2> HIDE DEF W, n
    <2>2. QED
      BY <2>1, Zenon
  <1>5. FieldsIn(item.as, at) = FieldsFrom(kinds, at)
    BY DEF FieldsIn
  <1> HIDE DEF kinds, outs, W
  <1>6. kinds \in Seq(FieldKinds) /\ outs \in Seq(Seq(Char)) /\ Len(kinds) <= Len(outs)
    BY <1>1
  <1>7. Len(kinds) = Len(outs)
    BY <1>1
  <1>8. FieldsFrom(kinds, at) = Reading(W, at + Len(FlattenSeq(outs)))
    BY <1>2, <1>3, <1>4, <1>6, <1>7, FieldsHeld
  <1>9. QED
    BY <1>1, <1>5, <1>8, Zenon DEF W

\* An item fits if each of its fields does.
LEMMA FitsIs ==
    ASSUME NEW item, IsItem(item), Fits(item)
    PROVE  ItemFits(item)
  <1> DEFINE kind == item.kind
             value == item.values[1]
             as == item.as
  <1>1. CASE kind \in Classes
    <2>1. ASSUME NEW k \in 1 .. Len(item.values), NEW a, NEW v
          PROVE  FieldFits(a, Kinds(kind)[k], v)
      <3>1. Kinds(kind)[k] \in PacketKinds
        <4>1. Len(Kinds(kind)) = Len(item.values)
          BY ItemIs
        <4> HIDE DEF kind
        <4>2. QED
          BY <1>1, <4>1, KindsOf, Zenon
      <3> HIDE DEF kind
      <3>2. QED
        BY <3>1, KindsAre DEF PacketKinds, FieldFits
    <2>2. QED
      BY <2>1, Zenon DEF ItemFits
  <1>2. CASE kind \notin Classes
    <2>1. /\ Kinds(kind)[1] = kind
          /\ as \notin Classes => Kinds(as)[1] = as
          /\ Len(item.values) = 1
      BY <1>2, KindsOf, ItemIs, Zenon
    <2>2. as \notin Classes
      <3>1. as # kind => as \in BoundedClasses
        BY DEF IsItem
      <3>2. QED
        BY <1>2, <3>1, KindsOf DEF FieldKinds
    <2>3. FieldFits(as, kind, value)
      <3> HIDE DEF kind, value, as
      <3>1. /\ kind = "string" => FitsText(value)
            /\ kind \in BoundedClasses => Len(Copy(kind, value)) <= Capacity[as]
            /\ kind = "bucket" => \A i \in DOMAIN value : FitsText(value[i])
            /\ kind = "table" => \A i \in DOMAIN value :
                  Len(value[i]) = Columns(value) /\ \A j \in DOMAIN value[i] : FitsText(value[i][j])
        <4>1. kind = "string" => FitsText(value)
          BY SMT DEF Fits, kind, value, as
        <4>2. kind \in BoundedClasses => Len(Copy(kind, value)) <= Capacity[as]
          BY KindsAre, SMT DEF Fits, kind, value, as
        <4>3. kind = "bucket" => \A i \in DOMAIN value : FitsText(value[i])
          BY SMT DEF Fits, kind, value, as
        <4>4. kind = "table" => \A i \in DOMAIN value :
                  Len(value[i]) = Columns(value) /\ \A j \in DOMAIN value[i] : FitsText(value[i][j])
          BY SMT DEF Fits, kind, value, as
        <4>5. QED
          BY <4>1, <4>2, <4>3, <4>4, Zenon
      <3>2. QED
        BY <3>1, Zenon DEF FieldFits, FitTexts, FitRows
    <2> HIDE DEF kind, value, as
    <2>4. \A k \in 1 .. Len(item.values) : k = 1
      BY <2>1
    <2>5. QED
      BY <2>1, <2>2, <2>3, <2>4, Zenon DEF ItemFits, kind, value, as
  <1>3. QED
    BY <1>1, <1>2, Zenon

\* A packet that lies at an offset is sampled as what it is.
LEMMA SampledIs ==
    ASSUME data \in Seq(Char), bucket \in Seq(Seq(Char)), NEW item, IsItem(item),
           item.kind \in Classes, TypeOfClass[item.kind] = <<item.values[1][1], item.values[2][1]>>,
           NEW at \in Nat, HoldsAt(at, FieldsOut(item)), ItemFits(item)
    PROVE  Sampled(at, Classes) = {item.kind}
  <1> DEFINE outs == Outs(item)
             W == [k \in 1 .. 6 |-> item.values[k]]
             n == Len(item.values)
  <1>1. /\ outs \in Seq(Seq(Char)) /\ FieldsOut(item) = FlattenSeq(outs)
        /\ Len(outs) = n /\ n = Len(Layout[item.kind]) /\ n \in Nat /\ item.as = item.kind
        /\ Kinds(item.kind) = Layout[item.kind]
    BY ItemIs, OutsAre, Zenon DEF Kinds
  <1>2. /\ Header \in Seq(FieldKinds) /\ Len(Header) = 6 /\ n >= 6
        /\ \A k \in 1 .. 6 : Layout[item.kind][k] = Header[k]
        /\ Kinds("BasePacket") = Header
        /\ \A k \in 1 .. 6 : Header[k] \in DOMAIN Width
    <2>1. Header \in Seq(FieldKinds)
      BY KindsOf, LayoutIs DEF Kinds
    <2>2. \A k \in 1 .. 6 : Header[k] \in DOMAIN Width
      BY KindsAre DEF Header
    <2>3. QED
      BY <1>1, <2>1, <2>2, LayoutIs DEF Kinds
  <1>3. FieldsAsHeld(Kinds(item.as), outs, AllBack(item))
    BY ItemFieldsHeld
  <1>4. \A k \in 1 .. 6 : k \in 1 .. n
    <2>1. n \in Nat /\ n >= 6
      BY <1>1, <1>2
    <2> HIDE DEF n
    <2>2. QED
      BY <2>1
  <1>5. \A k \in 1 .. 6 : AllBack(item)[k] = item.values[k] /\ W[k] = item.values[k]
    <2>1. ASSUME NEW k \in 1 .. 6
          PROVE  AllBack(item)[k] = item.values[k]
      <3>1. AllBack(item)[k] = Back(Kinds(item.as)[k], Kinds(item.kind)[k], item.values[k])
        BY <1>4, Zenon DEF AllBack
      <3>2. Kinds(item.kind)[k] \in DOMAIN Width
        BY <1>1, <1>2, Zenon
      <3>3. \A a, v : \A kind \in DOMAIN Width : Back(a, kind, v) = v
        BY Backs, ZenonT(40)
      <3>4. QED
        BY <3>1, <3>2, <3>3, Zenon
    <2>2. QED
      BY <2>1
  <1>6. FieldsAsHeld(Header, outs, W)
    <2>1. Len(Kinds(item.as)) = n
      BY ItemIs
    <2>2. \A k \in 1 .. 6 : Kinds(item.as)[k] = Header[k] /\ k \in 1 .. Len(Kinds(item.as))
      BY <1>1, <1>2, <1>4, <2>1, Zenon
    <2> HIDE DEF outs, W, n
    <2>3. ASSUME NEW k \in 1 .. 6, NEW a \in Nat, HoldsAt(a, outs[k])
          PROVE  FieldIn(Header[k], a) = Reading(W[k], a + Len(outs[k]))
      <3>1. FieldIn(Kinds(item.as)[k], a) = Reading(AllBack(item)[k], a + Len(outs[k]))
        BY <1>3, <2>2, <2>3, Zenon DEF FieldsAsHeld
      <3>2. QED
        BY <1>5, <2>2, <3>1, Zenon
    <2>4. Len(Header) = 6
      BY <1>2
    <2>5. QED
      BY <2>3, <2>4, Zenon DEF FieldsAsHeld
  <1>7. W = [i \in 1 .. Len(Header) |-> W[i]]
    BY <1>2
  <1>8. FieldsIn("BasePacket", at) = FieldsFrom(Header, at)
    BY <1>2, Zenon DEF FieldsIn
  <1> HIDE DEF outs, W
  <1>9. FieldsFrom(Header, at).value = W
    <2>1. Header \in Seq(FieldKinds) /\ outs \in Seq(Seq(Char)) /\ Len(Header) <= Len(outs)
      BY <1>1, <1>2
    <2>2. HoldsAt(at, FlattenSeq(outs))
      BY <1>1, Zenon
    <2>3. QED
      BY <1>6, <1>7, <2>1, <2>2, FieldsHeld
  <1>10. W[1] = item.values[1] /\ W[2] = item.values[2]
    BY <1>5
  <1>11. Sampled(at, Classes) = {c \in Classes : TypeOfClass[c] = TypeOfClass[item.kind]}
    BY <1>8, <1>9, <1>10, Zenon DEF Sampled
  <1>12. \A c, d \in Classes : TypeOfClass[c] = TypeOfClass[d] => c = d
    <2>1. /\ TypeOfClass["BasePacket"] = <<0, 0>> /\ TypeOfClass["ConnectionCommsPacket"] = <<0, 2>>
          /\ TypeOfClass["PositionPacket"] = <<2, 1>> /\ TypeOfClass["MovementPacket"] = <<2, 2>>
      BY DEF TypeOfClass
    <2>2. \A a, b, c, d \in Nat : <<a, b>> = <<c, d>> => a = c /\ b = d
      OBVIOUS
    <2>3. ~(<<0, 0>> = <<0, 2>>) /\ ~(<<0, 0>> = <<2, 1>>) /\ ~(<<0, 0>> = <<2, 2>>)
          /\ ~(<<0, 2>> = <<2, 1>>) /\ ~(<<0, 2>> = <<2, 2>>) /\ ~(<<2, 1>> = <<2, 2>>)
      BY <2>2
    <2>4. Classes = {"BasePacket", "ConnectionCommsPacket", "PositionPacket", "MovementPacket"}
      BY LayoutIs
    <2>5. ASSUME NEW c \in Classes, NEW d \in Classes, TypeOfClass[c] = TypeOfClass[d]
          PROVE  c = d
      <3>1. CASE c = "BasePacket"
        BY <2>1, <2>3, <2>4, <2>5, <3>1, Zenon
      <3>2. CASE c = "ConnectionCommsPacket"
        BY <2>1, <2>3, <2>4, <2>5, <3>2, Zenon
      <3>3. CASE c = "PositionPacket"
        BY <2>1, <2>3, <2>4, <2>5, <3>3, Zenon
      <3>4. CASE c = "MovementPacket"
        BY <2>1, <2>3, <2>4, <2>5, <3>4, Zenon
      <3>5. QED
        BY <2>4, <3>1, <3>2, <3>3, <3>4
    <2>6. QED
      BY <2>5
  <1>13. QED
    BY <1>11, <1>12

\* Whatever lies in the buffer, a packet or an item is read as that many values.
LEMMA FieldsInIs ==
    ASSUME data \in Seq(Char), bucket \in Seq(Seq(Char)),
           NEW kind \in Classes \cup FieldKinds, NEW at \in Nat
    PROVE  /\ FieldsIn(kind, at) \in Reads(Seq(Value))
           /\ Len(FieldsIn(kind, at).value) = Len(Kinds(kind))
           /\ kind = "bucket" => FieldsIn(kind, at).value[1] \in Seq(Seq(Char))
  <1>1. Kinds(kind) \in Seq(FieldKinds)
    BY KindsOf
  <1>2. FieldsIn(kind, at) = FieldsFrom(Kinds(kind), at)
    BY DEF FieldsIn
  <1>3. /\ FieldsFrom(Kinds(kind), at) \in Reads(Seq(Value))
        /\ Len(FieldsFrom(Kinds(kind), at).value) = Len(Kinds(kind))
    BY <1>1, FieldsType
  <1>4. ASSUME kind = "bucket"
        PROVE  FieldsFrom(Kinds(kind), at).value[1] \in Seq(Seq(Char))
    <2> DEFINE kinds == <<kind>>
               none == <<>>
               reader == FieldReader(kinds)
    <2>1. kind \notin Classes
      BY <1>4, LayoutIs
    <2>2. Kinds(kind) = kinds /\ Len(kinds) = 1 /\ kinds[1] = kind
      BY <2>1, KindsOf, Zenon
    <2>3. kinds \in Seq(FieldKinds)
      BY <1>1, <2>2, Zenon
    <2> HIDE DEF kinds
    <2>4. PICK g : Loop(g, Value, none, at, reader, Len(kinds)) /\ FieldsFrom(kinds, at) = g[Len(kinds)]
      BY <2>3, FieldsLoop
    <2>5. \A i \in 1 .. Len(kinds), a \in Nat : reader[<<i, a>>] = FieldIn(kinds[i], a)
      BY <2>3, FieldReaderIs
    <2>6. g[0] = Reading(none, at) /\ g[1] = Extended(g[0], reader[<<1, g[0].next>>])
      <3>1. Loop(g, Value, none, at, reader, 1)
        BY <2>2, <2>4, Zenon
      <3>2. 1 \in 1 .. 1 /\ 1 - 1 = 0
        OBVIOUS
      <3>3. QED
        BY <3>1, <3>2 DEF Loop
    <2>7. g[0].next = at /\ g[0].value = none
      BY <2>6 DEF Reading
    <2>8. reader[<<1, at>>] = BucketIn(at)
      <3>1. 1 \in 1 .. Len(kinds)
        BY <2>2
      <3>2. reader[<<1, at>>] = FieldIn("bucket", at)
        BY <1>4, <2>2, <2>5, <3>1, Zenon
      <3>3. QED
        BY <3>2, FieldIns, Zenon
    <2>9. g[1] = Reading(Append(none, BucketIn(at).value), BucketIn(at).next)
      BY <2>6, <2>7, <2>8, Zenon DEF Extended
    <2>10. Append(none, BucketIn(at).value)[1] = BucketIn(at).value
      OBVIOUS
    <2>11. g[1].value[1] = BucketIn(at).value
      BY <2>9, <2>10 DEF Reading
    <2>12. BucketIn(at).value \in Seq(Seq(Char))
      <3>1. BucketIn(at) \in Reads(Seq(Seq(Char)))
        BY BucketHeld
      <3>2. QED
        BY <3>1 DEF Reads
    <2>13. QED
      BY <2>2, <2>4, <2>11, <2>12, Zenon
  <1>5. QED
    BY <1>2, <1>3, <1>4, Zenon

\* A SizePacket: the type, the size and the packet behind them.
LEMMA SizeIs ==
    ASSUME NEW n \in Nat
    PROVE  NumberOut(Bytes(n, 2)) \in Seq(Char) /\ Len(NumberOut(Bytes(n, 2))) = 2
  <1>1. Bytes(n, 2) \in Numbers(2)
    <2>1. \A i \in 1 .. 2 : Bytes(n, 2)[i] \in Char
      <3>1. n \div 256 \in Int
        OBVIOUS
      <3>2. Bytes(n, 2)[1] = (n \div 256) % 256 /\ Bytes(n, 2)[2] = n % 256
        BY SMT DEF Bytes
      <3>3. Bytes(n, 2)[1] \in Char /\ Bytes(n, 2)[2] \in Char
        BY <3>1, <3>2, Chars
      <3>4. QED
        BY <3>3
    <2>2. Bytes(n, 2) = [i \in 1 .. 2 |-> Bytes(n, 2)[i]]
      BY Zenon DEF Bytes
    <2>3. QED
      BY <2>1, <2>2 DEF Numbers
  <1>2. NumberOut(Bytes(n, 2)) = Bytes(n, 2)
    BY <1>1, NumberOutIs
  <1>3. QED
    BY <1>1, <1>2, NumberIsSeq

\* The bytes of an item, and where its fields lie in a frame.
LEMMA ItemOutIs ==
    ASSUME data \in Seq(Char), bucket \in Seq(Seq(Char)), NEW item, IsItem(item)
    PROVE  /\ ItemOut(item) \in Seq(Char) /\ Len(FieldsOut(item)) \in Nat
           /\ ~item.framed => ItemOut(item) = FieldsOut(item)
           /\ item.framed =>
                 /\ Len(ItemOut(item)) = 3 + Len(FieldsOut(item))
                 /\ \A at \in Nat : HoldsAt(at, ItemOut(item)) =>
                       /\ HoldsAt(at + 1, NumberOut(Bytes(Len(FieldsOut(item)), 2)))
                       /\ HoldsAt(at + 3, FieldsOut(item))
  <1> DEFINE fields == FieldsOut(item)
             type == <<3>>
             size == NumberOut(Bytes(Len(fields), 2))
  <1>1. fields \in Seq(Char) /\ Len(fields) \in Nat
    BY OutsAre
  <1>2. size \in Seq(Char) /\ Len(size) = 2
    BY <1>1, SizeIs
  <1>3. type \in Seq(Char) /\ Len(type) = 1
    BY DEF Char
  <1>4. /\ ~item.framed => ItemOut(item) = fields
        /\ item.framed => ItemOut(item) = (type \o size) \o fields
    BY Zenon DEF ItemOut
  <1> HIDE DEF fields, type, size
  <1>5. /\ type \o size \in Seq(Char) /\ Len(type \o size) = 3
        /\ (type \o size) \o fields \in Seq(Char)
        /\ Len((type \o size) \o fields) = 3 + Len(fields)
    <2>1. type \o size \in Seq(Char) /\ Len(type \o size) = Len(type) + Len(size)
      BY <1>2, <1>3, JoinIs, Zenon
    <2>2. Len(type \o size) = 3
      BY <1>2, <1>3, <2>1
    <2>3. /\ (type \o size) \o fields \in Seq(Char)
          /\ Len((type \o size) \o fields) = Len(type \o size) + Len(fields)
      BY <1>1, <2>1, JoinIs, Zenon
    <2>4. QED
      BY <2>1, <2>2, <2>3, Zenon
  <1>6. ASSUME NEW at \in Nat, HoldsAt(at, (type \o size) \o fields)
        PROVE  HoldsAt(at + 1, size) /\ HoldsAt(at + 3, fields)
    <2>1. HoldsAt(at, type \o size) /\ HoldsAt(at + Len(type \o size), fields)
      BY <1>1, <1>5, <1>6, HeldTwo, Zenon
    <2>2. HoldsAt(at + Len(type), size)
      BY <1>2, <1>3, <2>1, HeldTwo, Zenon
    <2>3. QED
      BY <1>3, <1>5, <2>1, <2>2, Zenon
  <1>7. item.framed => /\ Len(ItemOut(item)) = 3 + Len(fields)
                       /\ \A at \in Nat : HoldsAt(at, ItemOut(item)) =>
                             HoldsAt(at + 1, size) /\ HoldsAt(at + 3, fields)
    BY <1>4, <1>5, <1>6, Zenon
  <1>8. ItemOut(item) \in Seq(Char)
    BY <1>1, <1>4, <1>5, Zenon
  <1>9. QED
    BY <1>1, <1>4, <1>7, <1>8, Zenon DEF fields, size

-----------------------------------------------------------------------------
(* The bytes of a script and the strings of its buckets.                   *)

\* What is in the buffer after each item.
Ends == CHOOSE f : Joins(f, Mapped(ItemOut, Items), Char)

\* The items of a script are what ScriptAssumption says.
LEMMA ItemsAre ==
    ASSUME script \in DOMAIN Scripts
    PROVE  /\ Len(Items) \in Nat /\ DOMAIN Items = 1 .. Len(Items)
           /\ \A i \in 1 .. Len(Items) : IsItem(Items[i])
           /\ Items # <<>> /\ Items[1].framed =>
                 /\ \A i \in 1 .. Len(Items) : Items[i].framed
                 /\ Len(FlattenSeq(Mapped(ItemOut, Items))) <= num
  <1>1. IsScript(Items)
    BY ScriptAssumption, Zenon DEF Items
  <1>2. Len(Items) \in Nat /\ DOMAIN Items = 1 .. Len(Items)
    <2>1. Items \in Seq(Range(Items))
      BY <1>1, Zenon DEF IsScript
    <2>2. QED
      BY <2>1, LenProperties, Zenon
  <1>3. QED
    BY <1>1, <1>2, Zenon DEF IsScript

\* The bytes up to each item.
LEMMA EndsAre ==
    ASSUME script \in DOMAIN Scripts, data \in Seq(Char), bucket \in Seq(Seq(Char))
    PROVE  /\ Mapped(ItemOut, Items) \in Seq(Seq(Char)) /\ Len(Mapped(ItemOut, Items)) = Len(Items)
           /\ \A i \in 1 .. Len(Items) : Mapped(ItemOut, Items)[i] = ItemOut(Items[i])
           /\ Joins(Ends, Mapped(ItemOut, Items), Char)
           /\ Ends \in [0 .. Len(Items) -> Seq(Char)] /\ Ends[0] = <<>>
           /\ \A i \in 1 .. Len(Items) : Ends[i] = Ends[i - 1] \o ItemOut(Items[i])
           /\ FlattenSeq(Mapped(ItemOut, Items)) = Ends[Len(Items)]
  <1> DEFINE n == Len(Items)
             outs == Mapped(ItemOut, Items)
  <1>1. n \in Nat /\ DOMAIN Items = 1 .. n /\ \A i \in 1 .. n : ItemOut(Items[i]) \in Seq(Char)
    BY ItemsAre, ItemOutIs
  <1>2. outs = [i \in 1 .. n |-> ItemOut(Items[i])]
    BY <1>1, Zenon DEF Mapped
  <1> HIDE DEF n, outs
  <1>3. outs \in [1 .. n -> Seq(Char)] /\ \A i \in 1 .. n : outs[i] = ItemOut(Items[i])
    BY <1>1, <1>2
  <1>4. outs \in Seq(Seq(Char)) /\ Len(outs) = n
    BY <1>1, <1>3, FunctionIsSeq
  <1>5. \E f : Joins(f, outs, Char)
    BY <1>4, FlattenPrefixes
  <1>6. Joins(Ends, outs, Char)
    BY <1>5, Zenon DEF Ends, outs
  <1>7. FlattenSeq(outs) = Ends[Len(outs)]
    BY <1>4, <1>6, FlattenIs
  <1>8. /\ Ends \in [0 .. n -> Seq(Char)] /\ Ends[0] = <<>>
        /\ \A i \in 1 .. n : Ends[i] = Ends[i - 1] \o ItemOut(Items[i])
    BY <1>3, <1>4, <1>6, Zenon DEF Joins
  <1>9. QED
    BY <1>3, <1>4, <1>6, <1>7, <1>8, Zenon DEF n, outs

\* The offsets at which the items start and end.
LEMMA OffsetsAre ==
    ASSUME script \in DOMAIN Scripts, data \in Seq(Char), bucket \in Seq(Seq(Char))
    PROVE  /\ Len(Ends[0]) = 0
           /\ \A i \in 0 .. Len(Items) : Len(Ends[i]) \in Nat
           /\ \A i \in 1 .. Len(Items) : Len(Ends[i]) = Len(Ends[i - 1]) + Len(ItemOut(Items[i]))
  <1>1. Ends[0] = <<>>
    BY EndsAre
  <1>2. \A i \in 0 .. Len(Items) : Ends[i] \in Seq(Char)
    BY EndsAre
  <1>3. ASSUME NEW i \in 1 .. Len(Items)
        PROVE  Len(Ends[i]) = Len(Ends[i - 1]) + Len(ItemOut(Items[i]))
    <2>1. i - 1 \in 0 .. Len(Items) /\ Len(Items) \in Nat
      BY ItemsAre
    <2>2. ItemOut(Items[i]) \in Seq(Char)
      BY ItemsAre, ItemOutIs
    <2>3. Ends[i - 1] \in Seq(Char)
      BY <1>2, <2>1, Zenon
    <2>4. Ends[i] = Ends[i - 1] \o ItemOut(Items[i])
      BY EndsAre
    <2>5. QED
      BY <2>2, <2>3, <2>4, JoinIs, Zenon
  <1>4. QED
    BY <1>1, <1>2, <1>3, LenProperties, EmptySeq, Zenon

\* After the first m items, each of them lies where the one before it ends.
LEMMA PrefixHeld ==
    ASSUME script \in DOMAIN Scripts, data \in Seq(Char), bucket \in Seq(Seq(Char)),
           NEW m \in 0 .. Len(Items), data = Ends[m], NEW i \in 1 .. m
    PROVE  HoldsAt(Len(Ends[i - 1]), ItemOut(Items[i]))
  <1> DEFINE outs == Mapped(ItemOut, Items)
             some == SubSeq(outs, 1, m)
             f == [j \in 0 .. m |-> Ends[j]]
  <1>1. /\ outs \in Seq(Seq(Char)) /\ Len(outs) = Len(Items)
        /\ \A j \in 1 .. Len(Items) : outs[j] = ItemOut(Items[j])
        /\ Joins(Ends, outs, Char)
    BY EndsAre
  <1>2. Len(Items) \in Nat
    BY ItemsAre
  <1> HIDE DEF outs
  <1>3. some \in Seq(Seq(Char)) /\ Len(some) = m /\ \A j \in 1 .. m : some[j] = outs[j]
    BY <1>1, <1>2
  <1> HIDE DEF some
  <1>4. Joins(f, some, Char)
    <2>1. Ends \in [0 .. Len(Items) -> Seq(Char)] /\ Ends[0] = <<>>
          /\ \A j \in 1 .. Len(Items) : Ends[j] = Ends[j - 1] \o outs[j]
      BY <1>1 DEF Joins
    <2>2. f \in [0 .. m -> Seq(Char)] /\ f[0] = <<>>
      BY <1>2, <2>1, SMTT(40)
    <2>3. \A j \in 1 .. m : j \in 1 .. Len(Items) /\ f[j] = Ends[j] /\ f[j - 1] = Ends[j - 1]
      BY <1>2
    <2>4. \A j \in 1 .. m : f[j] = f[j - 1] \o some[j]
      BY <1>3, <2>1, <2>3, Zenon
    <2>5. QED
      BY <1>3, <2>2, <2>4, Zenon DEF Joins
  <1>5. m \in 0 .. m /\ i - 1 \in 0 .. m /\ i \in 1 .. Len(Items) /\ m \in Nat
    BY <1>2
  <1>6. f[m] = data /\ f[i - 1] = Ends[i - 1]
    BY <1>5
  <1> HIDE DEF f
  <1>7. HoldsAt(0, f[Len(some)])
    <2>1. HoldsAt(0, data)
      BY DEF HoldsAt
    <2>2. QED
      BY <1>3, <1>6, <2>1, Zenon
  <1>8. HeldEach(0, f, some)
    BY <1>3, <1>4, <1>7, HeldJoin
  <1>9. HoldsAt(0 + Len(Ends[i - 1]), ItemOut(Items[i]))
    BY <1>1, <1>3, <1>5, <1>6, <1>8, Zenon DEF HeldEach
  <1>10. i - 1 \in 0 .. Len(Items)
    BY <1>2
  <1>11. Len(Ends[i - 1]) \in Nat
    BY <1>10, OffsetsAre
  <1>12. 0 + Len(Ends[i - 1]) = Len(Ends[i - 1])
    BY <1>11
  <1>13. QED
    BY <1>9, <1>12, Zenon

\* The strings that the reader's bucket holds after the first i items.
BucketOf(j) == IF Items[j].kind = "bucket" THEN Mapped(CString, Items[j].values[1]) ELSE <<>>
BucketsOf(i) == FlattenSeq([j \in 1 .. i |-> BucketOf(j)])

\* One sequence is its own concatenation.
LEMMA FlattenOne ==
    ASSUME NEW S, NEW s \in Seq(S)
    PROVE  FlattenSeq(<<s>>) = s
  <1>1. <<s>> \in Seq(Seq(S)) /\ Len(<<s>>) = 1 /\ <<s>>[1] = s
    OBVIOUS
  <1>2. PICK f : Joins(f, <<s>>, S) /\ FlattenSeq(<<s>>) = f[Len(<<s>>)]
    BY <1>1, FlattenPrefixes
  <1>3. 1 \in 1 .. 1 /\ 1 - 1 = 0
    OBVIOUS
  <1>4. f[0] = <<>> /\ f[1] = f[0] \o <<s>>[1]
    BY <1>1, <1>2, <1>3, Zenon DEF Joins
  <1>5. <<>> \o s = s
    BY ConcatEmptySeq
  <1>6. QED
    BY <1>1, <1>2, <1>4, <1>5, Zenon

\* One bucket after the other.
LEMMA BucketsAre ==
    ASSUME script \in DOMAIN Scripts
    PROVE  /\ BucketsOf(0) = <<>>
           /\ \A i \in 0 .. Len(Items) : BucketsOf(i) \in Seq(Seq(Char))
           /\ \A i \in 1 .. Len(Items) : BucketsOf(i) = BucketsOf(i - 1) \o BucketOf(i)
  <1> DEFINE T == Seq(Char)
             before(i) == [j \in 1 .. i |-> BucketOf(j)]
  <1>1. Len(Items) \in Nat
    BY ItemsAre
  <1>2. ASSUME NEW j \in 1 .. Len(Items)
        PROVE  BucketOf(j) \in Seq(T)
    <2>1. CASE Items[j].kind = "bucket"
      <3> DEFINE texts == Items[j].values[1]
      <3>1. IsItem(Items[j])
        BY ItemsAre
      <3>2. Items[j].kind \notin Classes
        BY <2>1, LayoutIs
      <3>3. Len(Items[j].values) = 1 /\ Kinds(Items[j].kind)[1] = Items[j].kind
        BY <3>1, <3>2, ItemIs, KindsOf, Zenon
      <3>4. 1 \in 1 .. Len(Items[j].values)
        BY <3>3
      <3>5. IsField("bucket", texts)
        BY <2>1, <3>1, <3>3, <3>4, ItemIs, Zenon
      <3>6. AreTexts(texts)
        BY <3>5, FieldsAre, Zenon
      <3> HIDE DEF texts
      <3>7. Mapped(CString, texts) \in Seq(Seq(Char))
        BY <3>6, TextsAre
      <3>8. QED
        BY <2>1, <3>7, Zenon DEF BucketOf, texts
    <2>2. CASE Items[j].kind # "bucket"
      BY <2>2, EmptySeq, Zenon DEF BucketOf
    <2>3. QED
      BY <2>1, <2>2, Zenon
  <1> HIDE DEF T
  <1>3. ASSUME NEW i \in 0 .. Len(Items)
        PROVE  before(i) \in Seq(Seq(T)) /\ Len(before(i)) = i
    <2>1. i \in Nat /\ \A j \in 1 .. i : j \in 1 .. Len(Items)
      BY <1>1
    <2>2. before(i) \in [1 .. i -> Seq(T)]
      BY <1>2, <2>1
    <2> HIDE DEF before
    <2>3. QED
      BY <2>1, <2>2, FunctionIsSeq
  <1>4. ASSUME NEW i \in 1 .. Len(Items)
        PROVE  FlattenSeq(before(i)) = FlattenSeq(before(i - 1)) \o BucketOf(i)
    <2> DEFINE last == <<BucketOf(i)>>
    <2>1. i - 1 \in 0 .. Len(Items) /\ i \in 0 .. Len(Items) /\ i - 1 \in Nat
      BY <1>1
    <2>2. before(i - 1) \in Seq(Seq(T)) /\ Len(before(i - 1)) = i - 1
      BY <1>3, <2>1, Zenon
    <2>3. last \in Seq(Seq(T)) /\ Len(last) = 1 /\ last[1] = BucketOf(i)
      BY <1>2
    <2>4. \A j \in 1 .. i - 1 : before(i - 1)[j] = BucketOf(j)
      OBVIOUS
    <2>5. before(i) = before(i - 1) \o last
      <3>1. before(i) \in Seq(Seq(T)) /\ Len(before(i)) = i /\ \A j \in 1 .. i : before(i)[j] = BucketOf(j)
        BY <1>3, <2>1
      <3> DEFINE s == before(i)
                 t == before(i - 1)
      <3>2. s \in Seq(Seq(T)) /\ Len(s) = i /\ \A j \in 1 .. i : s[j] = BucketOf(j)
        BY <3>1, Zenon
      <3>3. t \in Seq(Seq(T)) /\ Len(t) = i - 1 /\ \A j \in 1 .. i - 1 : t[j] = BucketOf(j)
        BY <2>2, <2>4, Zenon
      <3> HIDE DEF s, t, last, before
      <3>4. /\ t \o last \in Seq(Seq(T)) /\ Len(t \o last) = i
            /\ \A j \in 1 .. i : (t \o last)[j] = BucketOf(j)
        <4>1. /\ t \o last \in Seq(Seq(T)) /\ Len(t \o last) = Len(t) + Len(last)
              /\ \A j \in 1 .. Len(t) + Len(last) :
                    (t \o last)[j] = IF j <= Len(t) THEN t[j] ELSE last[j - Len(t)]
          BY <2>3, <3>3, ConcatProperties
        <4>2. Len(t) + Len(last) = i /\ i \in Nat
          BY <2>1, <2>3, <3>3
        <4>3. \A j \in 1 .. i : (j <= Len(t) /\ j \in 1 .. i - 1) \/ (~(j <= Len(t)) /\ j = i /\ j - Len(t) = 1)
          <5>1. \A j \in 1 .. i : (j <= i - 1 /\ j \in 1 .. i - 1) \/ (~(j <= i - 1) /\ j = i /\ j - (i - 1) = 1)
            <6>1. i \in Nat
              BY <4>2
            <6>2. QED
              BY <6>1
          <5>2. QED
            BY <3>3, <5>1, Zenon
        <4>4. \A j \in 1 .. i : (t \o last)[j] = IF j <= Len(t) THEN t[j] ELSE last[j - Len(t)]
          BY <4>1, <4>2, Zenon
        <4>5. \A j \in 1 .. i : (t \o last)[j] = BucketOf(j)
          BY <2>3, <3>3, <4>3, <4>4, Zenon
        <4>6. QED
          BY <4>1, <4>2, <4>5, Zenon
      <3>5. i \in Nat
        BY <2>1
      <3>6. s = t \o last
        <4> DEFINE r == t \o last
                   U == Seq(T)
        <4>1. /\ s \in Seq(U) /\ r \in Seq(U) /\ Len(s) = i /\ Len(r) = i
              /\ \A j \in 1 .. i : s[j] = r[j]
          BY <3>2, <3>4, Zenon
        <4> HIDE DEF r, U
        <4>2. s = r
          BY <3>5, <4>1, SameSeq
        <4>3. QED
          BY <4>2, Zenon DEF r
      <3>7. QED
        BY <3>6, Zenon DEF s, t
    <2>6. FlattenSeq(last) = BucketOf(i)
      BY <1>2, FlattenOne
    <2> HIDE DEF last, before
    <2>7. FlattenSeq(before(i - 1) \o last) = FlattenSeq(before(i - 1)) \o FlattenSeq(last)
      BY <2>2, <2>3, FlattenConcat
    <2>8. QED
      BY <2>5, <2>6, <2>7, Zenon
  <1>5. \A i : BucketsOf(i) = FlattenSeq(before(i))
    BY Zenon DEF BucketsOf
  <1>6. BucketsOf(0) = <<>>
    <2>1. before(0) = <<>>
      OBVIOUS
    <2> HIDE DEF before
    <2>2. QED
      BY <1>5, <2>1, FlattenEmpty, Zenon
  <1> HIDE DEF before
  <1>7. \A i \in 0 .. Len(Items) : BucketsOf(i) \in Seq(T)
    BY <1>3, <1>5, FlattenType
  <1>8. QED
    BY <1>4, <1>5, <1>6, <1>7, Zenon DEF T

\* What an item is read as.
Expected(i, kind, value) ==
    CASE kind = "rotation" -> GetRotation(SetRotation(value))
      [] kind = "position" -> UnpackPosition(PackPosition(value))
      [] OTHER -> Kept(i, kind, value)

ReadOf(i) == [kind   |-> Items[i].as,
              values |-> [k \in 1 .. Len(Items[i].values) |->
                              Expected(i, Kinds(Items[i].kind)[k], Items[i].values[k])]]

\* If the bucket holds the strings of the items before, every field of the
\* next one is read as what the properties say, and so is the bucket.
LEMMA BackIs ==
    ASSUME script \in DOMAIN Scripts, NEW i \in 1 .. Len(Items), bucket = BucketsOf(i - 1),
           NEW k \in 1 .. Len(Items[i].values)
    PROVE  Back(Kinds(Items[i].as)[k], Kinds(Items[i].kind)[k], Items[i].values[k]) =
               Expected(i, Kinds(Items[i].kind)[k], Items[i].values[k])
  <1> DEFINE item == Items[i]
             kind == Kinds(item.kind)[k]
             as == Kinds(item.as)[k]
             value == item.values[k]
  <1>1. IsItem(item)
    BY ItemsAre
  <1>2. IsField(kind, value)
    BY <1>1, ItemIs, Zenon
  <1>3. kind \in FieldKinds
    BY <1>2, FieldsAre
  <1>4. CASE kind \notin FixedClasses \cup BoundedClasses \cup {"bucket"}
    <2> HIDE DEF kind, as, value
    <2>1. CASE kind = "position"
      <3>1. Expected(i, "position", value) = UnpackPosition(PackPosition(value))
        BY SMT DEF Expected
      <3>2. Back(as, "position", value) = UnpackPosition(PackPosition(value))
        BY Backs
      <3>3. QED
        BY <2>1, <3>1, <3>2, Zenon DEF kind, as, value
    <2>2. CASE kind = "rotation"
      <3>1. Expected(i, "rotation", value) = GetRotation(SetRotation(value))
        BY SMT DEF Expected
      <3>2. Back(as, "rotation", value) = GetRotation(SetRotation(value))
        BY Backs
      <3>3. QED
        BY <2>2, <3>1, <3>2, Zenon DEF kind, as, value
    <2>3. CASE kind = "string"
      <3>1. Expected(i, "string", value) = CString(value)
        BY KindsAre, SMT DEF Expected, Kept
      <3>2. Back(as, "string", value) = CString(value)
        BY Backs
      <3>3. QED
        BY <2>3, <3>1, <3>2, Zenon DEF kind, as, value
    <2>4. CASE kind = "table"
      <3>1. Expected(i, "table", value) = RowsKept(value)
        BY KindsAre, SMT DEF Expected, Kept, RowsKept
      <3>2. Back(as, "table", value) = RowsKept(value)
        BY Backs
      <3>3. QED
        BY <2>4, <3>1, <3>2, Zenon DEF kind, as, value
    <2>5. CASE kind = "bool"
      <3>1. Expected(i, "bool", value) = value
        BY KindsAre, SMT DEF Expected, Kept
      <3>2. Back(as, "bool", value) = value
        BY Backs
      <3>3. QED
        BY <2>5, <3>1, <3>2, Zenon DEF kind, as, value
    <2>6. CASE kind \in DOMAIN Width
      <3>1. ASSUME NEW w \in DOMAIN Width
            PROVE  Expected(i, w, value) = value
        <4>1. /\ w # "rotation" /\ w # "position" /\ w # "string" /\ w # "bucket" /\ w # "table"
              /\ w \notin DOMAIN Capacity
          BY KindsAre
        <4>2. QED
          BY <4>1, SMT DEF Expected, Kept
      <3>2. \A w \in DOMAIN Width : Back(as, w, value) = value
        BY Backs, ZenonT(40)
      <3>3. QED
        BY <2>6, <3>1, <3>2, Zenon DEF kind, as, value
    <2>7. QED
      BY <1>3, <1>4, <2>1, <2>2, <2>3, <2>4, <2>5, <2>6, Zenon DEF FieldKinds, SimpleKinds
  <1>5. CASE kind \in FixedClasses \cup BoundedClasses \cup {"bucket"}
    <2>1. item.kind \notin Classes
      <3>1. ASSUME item.kind \in Classes
            PROVE  kind \in PacketKinds
        <4>1. k \in 1 .. Len(Kinds(item.kind))
          BY <1>1, ItemIs, Zenon
        <4>2. QED
          BY <3>1, <4>1, KindsOf, Zenon
      <3>2. kind \notin PacketKinds
        BY <1>5, KindsAre DEF PacketKinds
      <3>3. QED
        BY <3>1, <3>2, Zenon
    <2>2. Len(item.values) = 1
      BY <1>1, <2>1, ItemIs, Zenon
    <2>3. k = 1
      BY <2>2
    <2>4. item.kind = kind
      BY <2>1, <2>3, KindsOf, Zenon
    <2>5. item.as \notin Classes
      <3>1. item.as # item.kind => item.as \in BoundedClasses
        BY <1>1 DEF IsItem
      <3>2. \A b \in BoundedClasses : b \notin Classes
        BY KindsAre, LayoutIs
      <3>3. QED
        BY <2>1, <3>1, <3>2, Zenon
    <2>6. item.as = as
      BY <2>3, <2>5, KindsOf, Zenon
    <2>7. CASE kind = "bucket"
      <3>1. Expected(i, "bucket", value) = BucketsOf(i)
        BY KindsAre, SMT DEF Expected, Kept, BucketsOf, BucketOf
      <3>2. BucketsOf(i) = BucketsOf(i - 1) \o Mapped(CString, value)
        <4>1. BucketOf(i) = Mapped(CString, value)
          BY <2>3, <2>4, <2>7, Zenon DEF BucketOf
        <4>2. QED
          BY <4>1, BucketsAre, Zenon
      <3>3. Back(as, "bucket", value) = bucket \o Mapped(CString, value)
        BY Backs, Zenon
      <3>4. QED
        BY <2>7, <3>1, <3>2, <3>3, Zenon
    <2>8. CASE kind \in DOMAIN Capacity
      <3>1. \A c \in DOMAIN Capacity : Expected(i, c, value) = Copy(item.as, Copy(c, value))
        BY KindsAre, SMT DEF Expected, Kept
      <3>2. \A a, v : \A c \in DOMAIN Capacity : Back(a, c, v) = Copy(a, Copy(c, v))
        BY BackOfCopy
      <3>3. Back(as, kind, value) = Copy(as, Copy(kind, value))
        BY <2>8, <3>2, Zenon
      <3>4. QED
        BY <2>6, <2>8, <3>1, <3>3, Zenon
    <2>9. QED
      BY <1>5, <2>7, <2>8, KindsAre, Zenon
  <1>6. QED
    BY <1>4, <1>5, Zenon

-----------------------------------------------------------------------------
(* The inductive invariant.                                                *)

\* Every item that was written lies where the one before it ends.
WrittenSoFar ==
    /\ data = Ends[Len(starts)]
    /\ \A j \in 1 .. Len(starts) : starts[j] = Len(Ends[j - 1])

\* The reader starts when everything is written.  As long as the items fit it
\* is at the end of the last one it read, its bucket holds the strings of
\* their buckets, and it has read what the properties say.
ReadSoFar ==
    /\ got \in Seq([kind : Classes \cup FieldKinds, values : Seq(Value)])
    /\ Len(got) <= Len(Items)
    /\ got # <<>> => AllWritten
    /\ FitUpTo(Len(got)) =>
          inOffset = Len(Ends[Len(got)]) /\ bucket = BucketsOf(Len(got))
    /\ \A i \in 1 .. Len(got) : FitUpTo(i) => got[i] = ReadOf(i)

IInv == TypeOK /\ WrittenSoFar /\ ReadSoFar

\* Nothing is written and nothing read.
LEMMA InvInit == Init => IInv
  <1> SUFFICES ASSUME Init
               PROVE  IInv
    OBVIOUS
  <1>1. /\ script \in DOMAIN Scripts /\ data = <<>> /\ starts = <<>> /\ inOffset = 0
        /\ bucket = <<>> /\ got = <<>> /\ aborted = FALSE
    BY DEF Init
  <1>2. data \in Seq(Char) /\ bucket \in Seq(Seq(Char)) /\ Len(starts) = 0 /\ Len(got) = 0
    BY <1>1
  <1>3. Len(Items) \in Nat
    BY <1>1, ItemsAre
  <1>4. TypeOK
    <2>1. aborted \in BOOLEAN /\ ~aborted
      BY <1>1, Zenon
    <2>2. Len(starts) <= Len(Items) /\ starts \in Seq(Nat) /\ inOffset \in Nat
      BY <1>1, <1>3
    <2>3. \A i \in DOMAIN got : FALSE
      BY <1>1
    <2>4. QED
      BY <1>1, <1>2, <2>1, <2>2, <2>3, Zenon DEF TypeOK
  <1>5. Ends[0] = <<>> /\ Len(Ends[0]) = 0 /\ BucketsOf(0) = <<>>
    BY <1>1, <1>2, EndsAre, OffsetsAre, BucketsAre
  <1>6. WrittenSoFar
    <2>1. \A j \in 1 .. 0 : FALSE
      OBVIOUS
    <2>2. QED
      BY <1>1, <1>2, <1>5, <2>1, Zenon DEF WrittenSoFar
  <1>7. ReadSoFar
    <2>1. got \in Seq([kind : Classes \cup FieldKinds, values : Seq(Value)])
      BY <1>1
    <2>2. Len(got) <= Len(Items)
      BY <1>2, <1>3
    <2>3. \A j \in 1 .. Len(got) : FALSE
      BY <1>2
    <2>4. QED
      BY <1>1, <1>2, <1>5, <2>1, <2>2, <2>3, Zenon DEF ReadSoFar
  <1>8. QED
    BY <1>4, <1>6, <1>7, Zenon DEF IInv

\* What depends on the script only stays as it is.
LEMMA SameScript ==
    ASSUME script' = script
    PROVE  /\ Items' = Items /\ Ends' = Ends
           /\ \A i : /\ FitUpTo(i)' = FitUpTo(i) /\ ReadOf(i)' = ReadOf(i)
                    /\ BucketsOf(i)' = BucketsOf(i)
  <1>1. Items' = Items
    BY DEF Items
  <1>2. Ends' = Ends
    BY <1>1 DEF Ends
  <1>3. ASSUME NEW i
        PROVE  FitUpTo(i)' = FitUpTo(i)
    BY <1>1 DEF FitUpTo
  <1>4. ASSUME NEW i
        PROVE  ReadOf(i)' = ReadOf(i)
    BY <1>1 DEF ReadOf, Expected, Kept
  <1>5. ASSUME NEW i
        PROVE  BucketsOf(i)' = BucketsOf(i)
    BY <1>1 DEF BucketsOf, BucketOf
  <1>6. QED
    BY <1>1, <1>2, <1>3, <1>4, <1>5, Zenon

\* Writing one item.
LEMMA InvOut ==
    ASSUME IInv, Out
    PROVE  IInv'
  <1> DEFINE n == Len(starts)
             item == Items[n + 1]
  <1>1. TypeOK /\ WrittenSoFar /\ ReadSoFar
    BY DEF IInv
  <1>2. /\ script \in DOMAIN Scripts /\ data \in Seq(Char) /\ starts \in Seq(Nat)
        /\ inOffset \in Nat /\ bucket \in Seq(Seq(Char)) /\ n \in Nat
    BY <1>1 DEF TypeOK
  <1>3. /\ n < Len(Items) /\ data' = data \o ItemOut(item) /\ starts' = Append(starts, Len(data))
        /\ script' = script /\ inOffset' = inOffset /\ bucket' = bucket /\ got' = got
        /\ ~aborted /\ aborted' = aborted
    BY DEF Out, Next0
  <1>4. Len(Items) \in Nat /\ n + 1 \in 1 .. Len(Items) /\ n \in 0 .. Len(Items)
    BY <1>2, <1>3, ItemsAre
  <1>5. /\ Items' = Items /\ Ends' = Ends
        /\ \A i : /\ FitUpTo(i)' = FitUpTo(i) /\ ReadOf(i)' = ReadOf(i)
                 /\ BucketsOf(i)' = BucketsOf(i)
    BY <1>3, SameScript
  <1>6. data' = Ends[n + 1] /\ data' \in Seq(Char)
    <2>1. (n + 1) - 1 = n
      BY <1>2
    <2>2. Ends[n + 1] = Ends[n] \o ItemOut(item)
      BY <1>2, <1>4, <2>1, EndsAre
    <2>3. data = Ends[n]
      BY <1>1, Zenon DEF WrittenSoFar
    <2>4. Ends[n + 1] \in Seq(Char)
      BY <1>2, <1>4, EndsAre
    <2>5. QED
      BY <1>3, <2>2, <2>3, <2>4, Zenon
  <1>7. /\ starts' \in Seq(Nat) /\ Len(starts') = n + 1
        /\ \A j \in 1 .. n + 1 : starts'[j] = IF j = n + 1 THEN Len(data) ELSE starts[j]
    BY <1>2, <1>3
  <1>8. WrittenSoFar'
    <2>1. ASSUME NEW j \in 1 .. n + 1
          PROVE  starts'[j] = Len(Ends[j - 1])
      <3>1. CASE j = n + 1
        <4>1. data = Ends[n] /\ j - 1 = n
          BY <1>1, <1>2, <3>1 DEF WrittenSoFar
        <4>2. QED
          BY <1>7, <3>1, <4>1, Zenon
      <3>2. CASE j # n + 1
        <4>1. j \in 1 .. n
          BY <1>2, <3>2
        <4>2. QED
          BY <1>1, <1>7, <3>2, <4>1, Zenon DEF WrittenSoFar
      <3>3. QED
        BY <3>1, <3>2, Zenon
    <2>2. QED
      BY <1>5, <1>6, <1>7, <2>1, Zenon DEF WrittenSoFar
  <1>9. got = <<>> /\ Len(got) = 0
    <2>1. ~AllWritten
      BY <1>2, <1>3, <1>4 DEF AllWritten
    <2>2. got = <<>>
      BY <1>1, <2>1, Zenon DEF ReadSoFar
    <2>3. QED
      BY <2>2
  <1>10. ReadSoFar'
    <2>1. /\ got \in Seq([kind : Classes \cup FieldKinds, values : Seq(Value)])
          /\ Len(got) <= Len(Items)
          /\ FitUpTo(0) => inOffset = Len(Ends[0]) /\ bucket = BucketsOf(0)
      BY <1>1, <1>9, Zenon DEF ReadSoFar
    <2>2. \A i \in 1 .. 0 : FALSE
      OBVIOUS
    <2>3. Len(got') = 0 /\ got' = <<>>
      BY <1>3, <1>9
    <2>4. /\ got' \in Seq([kind : Classes \cup FieldKinds, values : Seq(Value)])
          /\ Len(got') <= Len(Items')
      BY <1>3, <1>5, <2>1, Zenon
    <2>5. FitUpTo(0)' => inOffset' = Len(Ends'[0]) /\ bucket' = BucketsOf(0)'
      BY <1>3, <1>5, <2>1, Zenon
    <2>6. QED
      BY <2>2, <2>3, <2>4, <2>5, Zenon DEF ReadSoFar
  <1>11. TypeOK'
    <2>1. Len(starts') <= Len(Items')
      BY <1>4, <1>5, <1>7
    <2>2. \A i \in DOMAIN got' : FALSE
      BY <1>3, <1>9
    <2>3. script' \in DOMAIN Scripts
      BY <1>2, <1>3
    <2>4. inOffset' \in Nat /\ bucket' \in Seq(Seq(Char))
      BY <1>2, <1>3, Zenon
    <2>5. aborted' \in BOOLEAN /\ ~aborted'
      BY <1>1, <1>3, Zenon DEF TypeOK
    <2>6. QED
      BY <1>6, <1>7, <2>1, <2>2, <2>3, <2>4, <2>5, Zenon DEF TypeOK
  <1>12. QED
    BY <1>8, <1>10, <1>11, Zenon DEF IInv

\* The next item, when all of them up to it fit: it lies where the reader is,
\* and its fields are read as what the properties say.
LEMMA NextItem ==
    ASSUME IInv, AllWritten, Len(got) < Len(Items), FitUpTo(Len(got) + 1)
    PROVE  /\ IsItem(Next1) /\ ItemFits(Next1)
           /\ HoldsAt(inOffset, ItemOut(Next1))
           /\ inOffset + Len(ItemOut(Next1)) = Len(Ends[Len(got) + 1])
           /\ \A at \in Nat : HoldsAt(at, FieldsOut(Next1)) =>
                 FieldsIn(Next1.as, at) = Reading(ReadOf(Len(got) + 1).values,
                                                  at + Len(FieldsOut(Next1)))
  <1> DEFINE l == Len(got)
             i == l + 1
             item == Items[i]
  <1>1. TypeOK /\ WrittenSoFar /\ ReadSoFar
    BY DEF IInv
  <1>2. /\ script \in DOMAIN Scripts /\ data \in Seq(Char) /\ bucket \in Seq(Seq(Char))
        /\ got \in Seq([kind : Classes \cup FieldKinds, values : Seq(Value)])
    BY <1>1 DEF TypeOK, ReadSoFar
  <1>3. l \in Nat /\ Len(Items) \in Nat
    BY <1>2, ItemsAre
  <1>4. i \in 1 .. Len(Items) /\ i - 1 = l /\ l \in 0 .. Len(Items) /\ i \in 1 .. i
    BY <1>3
  <1>5. Next1 = item
    BY DEF Next1
  <1>6. IsItem(item)
    BY <1>2, <1>4, ItemsAre
  <1>7. FitUpTo(l) /\ Fits(item)
    <2>1. \A j \in 1 .. l : j \in 1 .. i
      BY <1>3
    <2> HIDE DEF l
    <2>2. FitUpTo(l)
      BY <2>1, Zenon DEF FitUpTo, l
    <2>3. Fits(item)
      BY <1>4, Zenon DEF FitUpTo, l
    <2>4. QED
      BY <2>2, <2>3
  <1>8. ItemFits(item)
    BY <1>6, <1>7, FitsIs
  <1>9. inOffset = Len(Ends[l]) /\ bucket = BucketsOf(l)
    BY <1>1, <1>7, Zenon DEF ReadSoFar
  <1>10. data = Ends[Len(Items)] /\ Len(Items) \in 0 .. Len(Items)
    BY <1>1, <1>3 DEF WrittenSoFar, AllWritten
  <1>11. HoldsAt(inOffset, ItemOut(item))
    BY <1>2, <1>4, <1>9, <1>10, PrefixHeld
  <1>12. inOffset + Len(ItemOut(item)) = Len(Ends[i])
    BY <1>2, <1>4, <1>9, OffsetsAre, Zenon
  <1>13. AllBack(item) = ReadOf(i).values
    <2>1. ASSUME NEW k \in 1 .. Len(item.values)
          PROVE  Back(Kinds(item.as)[k], Kinds(item.kind)[k], item.values[k]) =
                     Expected(i, Kinds(item.kind)[k], item.values[k])
      <3>1. bucket = BucketsOf(i - 1)
        BY <1>4, <1>9, Zenon
      <3> HIDE DEF i
      <3>2. QED
        BY <1>2, <1>4, <3>1, BackIs
    <2>2. ReadOf(i).values = [k \in 1 .. Len(item.values) |->
                                  Expected(i, Kinds(item.kind)[k], item.values[k])]
      BY DEF ReadOf
    <2> HIDE DEF i, item
    <2>3. QED
      BY <2>1, <2>2, Zenon DEF AllBack
  <1>14. \A at \in Nat : HoldsAt(at, FieldsOut(item)) =>
             FieldsIn(item.as, at) = Reading(AllBack(item), at + Len(FieldsOut(item)))
    <2> HIDE DEF item
    <2>1. QED
      BY <1>2, <1>6, <1>8, ItemHeld
  <1>15. QED
    BY <1>5, <1>6, <1>8, <1>11, <1>12, <1>13, <1>14, Zenon

\* What is read is stored, whatever it is.
LEMMA InvStore ==
    ASSUME IInv, AllWritten, Len(got) < Len(Items),
           NEW kind \in Classes \cup FieldKinds, NEW at \in Nat, Store(kind, FieldsIn(kind, at)),
           FitUpTo(Len(got) + 1) =>
               /\ kind = Next1.as
               /\ FieldsIn(kind, at) = Reading(ReadOf(Len(got) + 1).values, Len(Ends[Len(got) + 1]))
    PROVE  IInv'
  <1> DEFINE l == Len(got)
             i == l + 1
             reading == FieldsIn(kind, at)
             record == [kind |-> kind, values |-> reading.value]
             Record == [kind : Classes \cup FieldKinds, values : Seq(Value)]
  <1>1. TypeOK /\ WrittenSoFar /\ ReadSoFar
    BY DEF IInv
  <1>2. /\ script \in DOMAIN Scripts /\ data \in Seq(Char) /\ starts \in Seq(Nat)
        /\ bucket \in Seq(Seq(Char)) /\ got \in Seq(Record) /\ l \in Nat
    BY <1>1 DEF TypeOK, ReadSoFar
  <1>3. /\ got' = Append(got, record) /\ inOffset' = reading.next
        /\ bucket' = IF kind = "bucket" THEN reading.value[1] ELSE bucket
        /\ script' = script /\ data' = data /\ starts' = starts /\ aborted' = aborted
    BY DEF Store
  <1>4. /\ Items' = Items /\ Ends' = Ends
        /\ \A j : /\ FitUpTo(j)' = FitUpTo(j) /\ ReadOf(j)' = ReadOf(j)
                  /\ BucketsOf(j)' = BucketsOf(j)
    BY <1>3, SameScript
  <1>5. /\ reading \in Reads(Seq(Value)) /\ Len(reading.value) = Len(Kinds(kind))
        /\ kind = "bucket" => reading.value[1] \in Seq(Seq(Char))
    BY <1>2, FieldsInIs
  <1>6. record \in Record /\ reading.next \in Nat /\ record.kind = kind /\ record.values = reading.value
    <2> HIDE DEF reading
    <2>1. QED
      BY <1>5 DEF Reads
  <1> HIDE DEF reading, record, Record
  <1>7. /\ got' \in Seq(Record) /\ Len(got') = i /\ l \in Nat /\ i \in Nat
        /\ \A j \in 1 .. i : got'[j] = IF j = i THEN record ELSE got[j]
        /\ \A j \in 1 .. i : j = i \/ j \in 1 .. l
    BY <1>2, <1>3, <1>6, SMTT(40)
  <1>8. Len(Items) \in Nat
    BY <1>2, ItemsAre
  <1>9. i <= Len(Items) /\ i \in 1 .. Len(Items) /\ i - 1 = l /\ i \in 1 .. i
    BY <1>7, <1>8
  <1>10. TypeOK'
    <2>1. \A j \in 1 .. i : Len(got'[j].values) = Len(Kinds(got'[j].kind))
      <3>1. ASSUME NEW j \in 1 .. i
            PROVE  Len(got'[j].values) = Len(Kinds(got'[j].kind))
        <4>1. CASE j = i
          BY <1>5, <1>6, <1>7, <4>1, Zenon
        <4>2. CASE j # i
          <5>1. j \in 1 .. l /\ got'[j] = got[j]
            BY <1>7, <4>2, Zenon
          <5>2. j \in DOMAIN got
            BY <1>2, <5>1
          <5>3. QED
            BY <1>1, <5>1, <5>2, Zenon DEF TypeOK
        <4>3. QED
          BY <4>1, <4>2, Zenon
      <3>2. QED
        BY <3>1
    <2>2. DOMAIN got' = 1 .. i
      BY <1>7
    <2>3. bucket' \in Seq(Seq(Char)) /\ inOffset' \in Nat
      BY <1>2, <1>3, <1>5, <1>6, Zenon
    <2>4. script' \in DOMAIN Scripts /\ data' \in Seq(Char) /\ starts' \in Seq(Nat)
          /\ Len(starts') <= Len(Items')
      BY <1>1, <1>3, <1>4, Zenon DEF TypeOK
    <2>5. aborted' \in BOOLEAN /\ (aborted' => Len(starts') < Len(Items'))
      BY <1>1, <1>3, <1>4, Zenon DEF TypeOK
    <2>6. QED
      BY <2>1, <2>2, <2>3, <2>4, <2>5, Zenon DEF TypeOK
  <1>11. WrittenSoFar'
    BY <1>1, <1>3, <1>4, Zenon DEF WrittenSoFar
  <1>12. ASSUME FitUpTo(i)
         PROVE  /\ inOffset' = Len(Ends[i]) /\ bucket' = BucketsOf(i)
                /\ record = ReadOf(i)
    <2> DEFINE item == Items[i]
    <2>1. Next1 = item
      BY DEF Next1
    <2>2. kind = item.as /\ reading = Reading(ReadOf(i).values, Len(Ends[i]))
      BY <1>12, <2>1, Zenon DEF reading
    <2>3. reading.value = ReadOf(i).values /\ reading.next = Len(Ends[i])
      BY <2>2 DEF Reading
    <2>4. record = ReadOf(i)
      BY <2>2, <2>3 DEF record, ReadOf
    <2>5. FitUpTo(l)
      <3>1. \A j \in 1 .. l : j \in 1 .. i
        BY <1>7
      <3>2. QED
        BY <1>12, <3>1, Zenon DEF FitUpTo
    <2>6. bucket = BucketsOf(l)
      BY <1>1, <2>5, Zenon DEF ReadSoFar
    <2>7. IsItem(item)
      BY <1>2, <1>9, ItemsAre
    <2>8. kind = "bucket" <=> item.kind = "bucket"
      BY <2>2, <2>7, ItemIs, Zenon
    <2>9. BucketsOf(i) = BucketsOf(l) \o BucketOf(i)
      BY <1>2, <1>9, BucketsAre, Zenon
    <2>10. CASE kind = "bucket"
      <3>1. 1 \in 1 .. Len(item.values) /\ Kinds(item.kind)[1] = "bucket"
        <4>1. item.kind \notin Classes /\ item.kind = "bucket"
          BY <2>8, <2>10, LayoutIs
        <4>2. Len(item.values) = 1
          BY <2>7, <4>1, ItemIs, Zenon
        <4>3. QED
          BY <4>1, <4>2, KindsOf
      <3>2. ReadOf(i).values[1] = Expected(i, "bucket", item.values[1])
        BY <3>1 DEF ReadOf
      <3>3. Expected(i, "bucket", item.values[1]) = BucketsOf(i)
        BY KindsAre, SMT DEF Expected, Kept, BucketsOf, BucketOf
      <3>4. QED
        BY <1>3, <1>6, <2>3, <2>4, <2>10, <3>2, <3>3, Zenon
    <2>11. CASE kind # "bucket"
      <3>1. BucketOf(i) = <<>>
        BY <2>8, <2>11, Zenon DEF BucketOf
      <3>2. BucketsOf(l) \o <<>> = BucketsOf(l)
        BY <1>2, <2>6, ConcatEmptySeq
      <3>3. QED
        BY <1>3, <1>6, <2>3, <2>4, <2>6, <2>9, <2>11, <3>1, <3>2, Zenon
    <2>12. QED
      BY <2>10, <2>11, Zenon
  <1>13. ReadSoFar'
    <2>1. ASSUME NEW j \in 1 .. i, FitUpTo(j)
          PROVE  got'[j] = ReadOf(j)
      <3>1. CASE j = i
        BY <1>7, <1>12, <2>1, <3>1, Zenon
      <3>2. CASE j # i
        <4>1. j \in 1 .. l /\ got'[j] = got[j]
          BY <1>7, <3>2, Zenon
        <4>2. QED
          BY <1>1, <2>1, <4>1, Zenon DEF ReadSoFar
      <3>3. QED
        BY <3>1, <3>2, Zenon
    <2>2. \A j \in 1 .. Len(got') : FitUpTo(j)' => got'[j] = ReadOf(j)'
      BY <1>4, <1>7, <2>1, Zenon
    <2>3. FitUpTo(Len(got))' =>
              inOffset' = Len(Ends'[Len(got')]) /\ bucket' = BucketsOf(Len(got))'
      <3>1. (FitUpTo(Len(got))' <=> FitUpTo(i)) /\ BucketsOf(Len(got))' = BucketsOf(i)
        BY <1>4, <1>7 DEF FitUpTo, BucketsOf, BucketOf
      <3>2. QED
        BY <1>4, <1>7, <1>12, <3>1, Zenon
    <2>4. AllWritten'
      BY <1>3, <1>4, Zenon DEF AllWritten
    <2>5. /\ got' \in Seq([kind : Classes \cup FieldKinds, values : Seq(Value)])
          /\ Len(got') <= Len(Items')
      BY <1>4, <1>7, <1>9, Zenon DEF Record
    <2>6. QED
      BY <2>2, <2>3, <2>4, <2>5, Zenon DEF ReadSoFar
  <1>14. QED
    BY <1>10, <1>11, <1>13, Zenon DEF IInv

\* A class may read the item; one that is sampled or framed is a packet.
LEMMA ReadersOf ==
    ASSUME NEW item, IsItem(item)
    PROVE  /\ item.as \in Classes \cup FieldKinds
           /\ item.probed \/ item.framed =>
                 /\ item.kind \in Classes /\ item.as = item.kind
                 /\ TypeOfClass[item.kind] = <<item.values[1][1], item.values[2][1]>>
           /\ item.probed => ~item.framed
  <1>1. /\ item.as # item.kind => item.as \in BoundedClasses
        /\ item.probed \/ item.framed =>
              /\ item.kind \in Classes
              /\ TypeOfClass[item.kind] = <<item.values[1][1], item.values[2][1]>>
    BY DEF IsItem
  <1>2. item.probed => ~item.framed
    <2>1. /\ item.probed \in BOOLEAN /\ item.framed \in BOOLEAN
          /\ item.probed \/ item.framed => item.probed # item.framed
      BY DEF IsItem
    <2>2. \A p, f \in BOOLEAN : p /\ (p # f) => ~f
      OBVIOUS
    <2>3. QED
      BY <2>1, <2>2, Zenon
  <1>3. BoundedClasses \subseteq FieldKinds
    BY DEF FieldKinds
  <1>4. item.kind \in Classes \cup FieldKinds /\ (item.kind \in Classes => item.as = item.kind)
    BY ItemIs, Zenon
  <1>5. item.as \in Classes \cup FieldKinds
    <2>1. CASE item.as = item.kind
      BY <1>4, <2>1, Zenon
    <2>2. CASE item.as # item.kind
      BY <1>1, <1>3, <2>2
    <2>3. QED
      BY <2>1, <2>2, Zenon
  <1>6. QED
    BY <1>1, <1>2, <1>4, <1>5, Zenon

\* Reading an item by the class that is asked for.
LEMMA InvIn ==
    ASSUME IInv, In
    PROVE  IInv'
  <1> DEFINE item == Next1
             reading == FieldsIn(item.as, inOffset)
  <1>1. /\ AllWritten /\ Len(got) < Len(Items) /\ ~item.framed
        /\ Store(item.as, reading)
    BY DEF In
  <1>2. /\ script \in DOMAIN Scripts /\ data \in Seq(Char) /\ inOffset \in Nat
        /\ bucket \in Seq(Seq(Char)) /\ Len(got) \in Nat
    BY DEF IInv, TypeOK, ReadSoFar
  <1>3. IsItem(item)
    <2>1. Len(got) + 1 \in 1 .. Len(Items)
      BY <1>1, <1>2, ItemsAre
    <2>2. QED
      BY <1>2, <2>1, ItemsAre DEF Next1
  <1>4. item.as \in Classes \cup FieldKinds /\ ItemOut(item) = FieldsOut(item)
    BY <1>1, <1>2, <1>3, ReadersOf, ItemOutIs, Zenon
  <1>5. FitUpTo(Len(got) + 1) =>
            reading = Reading(ReadOf(Len(got) + 1).values, Len(Ends[Len(got) + 1]))
    <2>1. SUFFICES ASSUME FitUpTo(Len(got) + 1)
                   PROVE  reading = Reading(ReadOf(Len(got) + 1).values, Len(Ends[Len(got) + 1]))
      OBVIOUS
    <2>2. /\ HoldsAt(inOffset, ItemOut(item))
          /\ inOffset + Len(ItemOut(item)) = Len(Ends[Len(got) + 1])
          /\ \A at \in Nat : HoldsAt(at, FieldsOut(item)) =>
                FieldsIn(item.as, at) = Reading(ReadOf(Len(got) + 1).values, at + Len(FieldsOut(item)))
      BY <1>1, <2>1, NextItem, Zenon
    <2>3. QED
      BY <1>2, <1>4, <2>2, Zenon
  <1> HIDE DEF item
  <1>6. QED
    BY <1>1, <1>2, <1>4, <1>5, InvStore DEF item

\* A packet that is found by its type, at the reader's offset or behind the
\* size of its frame.
LEMMA InvSampled ==
    ASSUME IInv, AllWritten, Len(got) < Len(Items), Next1.probed \/ Next1.framed,
           NEW at \in Nat, at = IF Next1.framed THEN inOffset + 3 ELSE inOffset,
           NEW c \in Sampled(at, Classes), Store(c, FieldsIn(c, at))
    PROVE  IInv'
  <1> DEFINE item == Next1
             reading == FieldsIn(c, at)
             l == Len(got)
  <1>1. /\ script \in DOMAIN Scripts /\ data \in Seq(Char) /\ inOffset \in Nat
        /\ bucket \in Seq(Seq(Char)) /\ l \in Nat
    BY DEF IInv, TypeOK, ReadSoFar
  <1>2. IsItem(item)
    <2>1. l + 1 \in 1 .. Len(Items)
      BY <1>1, ItemsAre
    <2>2. QED
      BY <1>1, <2>1, ItemsAre DEF Next1
  <1>3. c \in Classes
    BY DEF Sampled
  <1>4. /\ item.kind \in Classes /\ item.as = item.kind
        /\ TypeOfClass[item.kind] = <<item.values[1][1], item.values[2][1]>>
    BY <1>2, ReadersOf, Zenon
  <1>5. ASSUME FitUpTo(l + 1)
        PROVE  c = item.as /\ reading = Reading(ReadOf(l + 1).values, Len(Ends[l + 1]))
    <2>1. /\ HoldsAt(inOffset, ItemOut(item)) /\ ItemFits(item)
          /\ inOffset + Len(ItemOut(item)) = Len(Ends[l + 1])
          /\ \A a \in Nat : HoldsAt(a, FieldsOut(item)) =>
                FieldsIn(item.as, a) = Reading(ReadOf(l + 1).values, a + Len(FieldsOut(item)))
      BY <1>5, NextItem, Zenon
    <2>2. HoldsAt(at, FieldsOut(item)) /\ at + Len(FieldsOut(item)) = Len(Ends[l + 1])
      <3> DEFINE fields == Len(FieldsOut(item))
                 whole == Len(ItemOut(item))
      <3>1. /\ fields \in Nat
            /\ ~item.framed => ItemOut(item) = FieldsOut(item)
            /\ item.framed =>
                  /\ whole = 3 + fields
                  /\ \A a \in Nat : HoldsAt(a, ItemOut(item)) => HoldsAt(a + 3, FieldsOut(item))
        BY <1>1, <1>2, ItemOutIs
      <3>2. CASE item.framed
        <4>1. at = inOffset + 3
          BY <3>2, Zenon
        <4>2. whole = 3 + fields
          BY <3>1, <3>2, Zenon
        <4>3. HoldsAt(at, FieldsOut(item))
          BY <1>1, <2>1, <3>1, <3>2, <4>1, Zenon
        <4> HIDE DEF fields, whole
        <4>4. at + fields = inOffset + whole
          BY <1>1, <3>1, <4>1, <4>2
        <4>5. QED
          BY <2>1, <4>3, <4>4, Zenon DEF fields, whole
      <3>3. CASE ~item.framed
        <4>1. at = inOffset
          BY <3>3, Zenon
        <4>2. QED
          BY <2>1, <3>1, <3>3, <4>1, Zenon
      <3>4. QED
        BY <3>2, <3>3, Zenon
    <2>3. Sampled(at, Classes) = {item.kind}
      <3> HIDE DEF item
      <3>1. QED
        BY <1>1, <1>2, <1>4, <2>1, <2>2, SampledIs
    <2>4. c = item.kind
      BY <2>3
    <2>5. FieldsIn(item.as, at) = Reading(ReadOf(l + 1).values, at + Len(FieldsOut(item)))
      BY <2>1, <2>2, Zenon
    <2>6. QED
      BY <1>4, <2>2, <2>4, <2>5, Zenon
  <1>6. c \in Classes \cup FieldKinds
    BY <1>3
  <1>7. QED
    BY <1>5, <1>6, InvStore

\* Every step keeps the invariant.
LEMMA InvNext == IInv /\ [Next]_vars => IInv'
  <1> SUFFICES ASSUME IInv, [Next]_vars
               PROVE  IInv'
    OBVIOUS
  <1>1. CASE Out
    BY <1>1, InvOut
  <1>2. CASE In
    BY <1>2, InvIn
  <1>3. inOffset \in Nat
    BY DEF IInv, TypeOK
  <1>4. CASE InProbed
    <2>1. /\ AllWritten /\ Len(got) < Len(Items) /\ Next1.probed
          /\ \E c \in Sampled(inOffset, Classes) : Store(c, FieldsIn(c, inOffset))
      BY <1>4 DEF InProbed
    <2>2. PICK c \in Sampled(inOffset, Classes) : Store(c, FieldsIn(c, inOffset))
      BY <2>1
    <2>3. ~Next1.framed
      <3>1. /\ script \in DOMAIN Scripts /\ Len(got) \in Nat
        BY DEF IInv, TypeOK, ReadSoFar
      <3>2. Len(got) + 1 \in 1 .. Len(Items)
        BY <2>1, <3>1, ItemsAre
      <3>3. IsItem(Next1)
        BY <3>1, <3>2, ItemsAre DEF Next1
      <3>4. QED
        BY <2>1, <3>3, ReadersOf, Zenon
    <2>4. inOffset = IF Next1.framed THEN inOffset + 3 ELSE inOffset
      BY <2>3
    <2>5. QED
      BY <1>3, <2>1, <2>2, <2>4, InvSampled
  <1>5. CASE InFrame
    <2>1. /\ AllWritten /\ Len(got) < Len(Items) /\ Next1.framed
          /\ \E c \in Sampled(inOffset + 3, Classes) : Store(c, FieldsIn(c, inOffset + 3))
      BY <1>5 DEF InFrame
    <2> DEFINE at == inOffset + 3
    <2>2. PICK c \in Sampled(at, Classes) : Store(c, FieldsIn(c, at))
      BY <2>1
    <2>3. at = IF Next1.framed THEN inOffset + 3 ELSE inOffset
      BY <2>1
    <2>4. at \in Nat
      BY <1>3
    <2> HIDE DEF at
    <2>5. QED
      BY <2>1, <2>2, <2>3, <2>4, InvSampled
  <1>6. ASSUME /\ script' = script /\ data' = data /\ starts' = starts /\ inOffset' = inOffset
               /\ bucket' = bucket /\ got' = got,
               aborted' \in BOOLEAN, aborted' => Len(starts) < Len(Items)
        PROVE  IInv'
    <2>1. /\ script' = script /\ data' = data /\ starts' = starts /\ inOffset' = inOffset
          /\ bucket' = bucket /\ got' = got
      BY <1>6
    <2>2. /\ Items' = Items /\ Ends' = Ends
          /\ \A i : /\ FitUpTo(i)' = FitUpTo(i) /\ ReadOf(i)' = ReadOf(i)
                    /\ BucketsOf(i)' = BucketsOf(i)
      BY <2>1, SameScript
    <2>3. TypeOK' /\ WrittenSoFar'
      BY <1>6, <2>1, <2>2, Zenon DEF IInv, TypeOK, WrittenSoFar
    <2>4. (FitUpTo(Len(got))' <=> FitUpTo(Len(got))) /\ BucketsOf(Len(got))' = BucketsOf(Len(got))
      BY <2>1, <2>2 DEF FitUpTo, BucketsOf, BucketOf
    <2>5. AllWritten' <=> AllWritten
      BY <2>1, <2>2 DEF AllWritten
    <2>6. ReadSoFar'
      BY <2>1, <2>2, <2>4, <2>5, Zenon DEF IInv, ReadSoFar
    <2>7. QED
      BY <2>3, <2>6, Zenon DEF IInv
  <1>7. CASE UNCHANGED vars
    <2>1. /\ script' = script /\ data' = data /\ starts' = starts /\ inOffset' = inOffset
          /\ bucket' = bucket /\ got' = got /\ aborted' = aborted
      BY <1>7 DEF vars
    <2>2. aborted' \in BOOLEAN /\ (aborted' => Len(starts) < Len(Items))
      BY <2>1, Zenon DEF IInv, TypeOK
    <2>3. QED
      BY <1>6, <2>1, <2>2
  <1>8. CASE Abort
    BY <1>6, <1>8 DEF Abort
  <1>9. QED
    BY <1>1, <1>2, <1>4, <1>5, <1>7, <1>8 DEF Next

\* The invariant holds in every behaviour.
LEMMA Invariance == Spec => []IInv
  <1>1. Init => IInv
    BY InvInit
  <1>2. IInv /\ [Next]_vars => IInv'
    BY InvNext
  <1>3. QED
    BY <1>1, <1>2, PTL DEF Spec

-----------------------------------------------------------------------------
(* The theorems.                                                           *)

(* TypeOK: whatever programs write and however their items fit the reader, *)
(* the offsets of Serialize::Out and Serialize::In, the reader's bucket    *)
(* and the packets that were read have their types, and every packet has   *)
(* all fields of its class.                                                *)
THEOREM TypeCorrect == Spec => []TypeOK
  <1>1. IInv => TypeOK
    BY DEF IInv
  <1>2. QED
    BY <1>1, Invariance, PTL

\* What a state of the invariant says of an item that was read.
LEMMA ItemRead ==
    ASSUME IInv, NEW i \in 1 .. Len(got), FitUpTo(i)
    PROVE  /\ i \in 1 .. Len(Items) /\ IsItem(Items[i])
           /\ got[i].kind = Items[i].as
           /\ \A k \in DOMAIN got[i].values :
                 /\ k \in 1 .. Len(Items[i].values)
                 /\ got[i].values[k] = Expected(i, Kinds(Items[i].kind)[k], Items[i].values[k])
  <1>1. /\ script \in DOMAIN Scripts /\ Len(got) \in Nat /\ Len(got) <= Len(Items)
        /\ got[i] = ReadOf(i)
    BY DEF IInv, TypeOK, ReadSoFar
  <1>2. i \in 1 .. Len(Items) /\ IsItem(Items[i])
    <2>1. Len(Items) \in Nat
      BY <1>1, ItemsAre
    <2>2. i \in 1 .. Len(Items)
      BY <1>1, <2>1
    <2>3. QED
      BY <1>1, <2>2, ItemsAre
  <1>3. /\ ReadOf(i).kind = Items[i].as
        /\ DOMAIN ReadOf(i).values = 1 .. Len(Items[i].values)
        /\ \A k \in 1 .. Len(Items[i].values) :
              ReadOf(i).values[k] = Expected(i, Kinds(Items[i].kind)[k], Items[i].values[k])
    BY DEF ReadOf
  <1>4. QED
    BY <1>1, <1>2, <1>3, Zenon

\* A packet always fits.
LEMMA PacketsFit ==
    ASSUME NEW item, item.kind \in Classes
    PROVE  Fits(item)
  <1>1. /\ item.kind # "string" /\ item.kind \notin {"BoundedStringTiny", "BoundedString16"}
        /\ item.kind # "bucket" /\ item.kind # "table"
    BY LayoutIs
  <1>2. QED
    BY <1>1, SMT DEF Fits

\* The end of what was read is where the next item starts.
LEMMA EndIs ==
    ASSUME IInv, NEW i \in 1 .. Len(starts)
    PROVE  EndOf(i) = Len(Ends[i])
  <1>1. /\ starts \in Seq(Nat) /\ Len(starts) \in Nat
        /\ data = Ends[Len(starts)]
        /\ \A j \in 1 .. Len(starts) : starts[j] = Len(Ends[j - 1])
    BY DEF IInv, TypeOK, WrittenSoFar
  <1>2. CASE i < Len(starts)
    <2>1. i + 1 \in 1 .. Len(starts) /\ (i + 1) - 1 = i
      BY <1>1, <1>2
    <2>2. EndOf(i) = starts[i + 1]
      BY <1>2 DEF EndOf
    <2>3. QED
      BY <1>1, <2>1, <2>2, Zenon
  <1>3. CASE ~(i < Len(starts))
    <2>1. i = Len(starts)
      BY <1>1, <1>3
    <2>2. EndOf(i) = Len(data)
      BY <1>3 DEF EndOf
    <2>3. QED
      BY <1>1, <2>1, <2>2, Zenon
  <1>4. QED
    BY <1>2, <1>3, Zenon

\* The loop over frames: each of them is seen to be in the buffer.
LEMMA FrameSeen ==
    ASSUME IInv, FramesLeft, Len(got) < Len(Items)
    PROVE  IsRemainingBufferBigenough(inOffset, num)
  <1> DEFINE item == Next1
             fields == Len(FieldsOut(item))
             l == Len(got)
  <1>1. /\ script \in DOMAIN Scripts /\ data \in Seq(Char) /\ inOffset \in Nat
        /\ bucket \in Seq(Seq(Char)) /\ l \in Nat /\ Len(data) \in Nat
        /\ data = Ends[Len(starts)]
    BY DEF IInv, TypeOK, ReadSoFar, WrittenSoFar
  <1>2. AllWritten /\ Items[1].framed /\ Len(starts) = Len(Items)
    BY DEF FramesLeft, AllWritten
  <1>3. Len(Items) \in Nat /\ l + 1 \in 1 .. Len(Items) /\ Items # <<>>
    <2>1. Len(Items) \in Nat
      BY <1>1, ItemsAre
    <2>2. l + 1 \in 1 .. Len(Items)
      BY <1>1, <2>1
    <2>3. Items # <<>>
      BY <1>1, <2>1
    <2>4. QED
      BY <2>1, <2>2, <2>3
  <1>4. /\ \A i \in 1 .. Len(Items) : Items[i].framed
        /\ Len(data) <= num
    <2>1. /\ \A i \in 1 .. Len(Items) : Items[i].framed
          /\ Len(FlattenSeq(Mapped(ItemOut, Items))) <= num
      BY <1>1, <1>2, <1>3, ItemsAre, Zenon
    <2>2. data = FlattenSeq(Mapped(ItemOut, Items))
      BY <1>1, <1>2, EndsAre, Zenon
    <2>3. QED
      BY <2>1, <2>2, Zenon
  <1>5. FitUpTo(l + 1)
    <2>1. ASSUME NEW j \in 1 .. l + 1
          PROVE  Fits(Items[j])
      <3>1. j \in 1 .. Len(Items)
        BY <1>1, <1>3
      <3>2. Items[j].kind \in Classes
        BY <1>1, <1>4, <3>1, ItemsAre, ReadersOf, Zenon
      <3>3. QED
        BY <3>2, PacketsFit
    <2>2. QED
      BY <2>1, Zenon DEF FitUpTo
  <1>6. HoldsAt(inOffset, ItemOut(item)) /\ IsItem(item)
    BY <1>2, <1>5, NextItem, Zenon
  <1>7. item.framed
    BY <1>3, <1>4, Zenon DEF Next1
  <1>8. /\ ItemOut(item) \in Seq(Char) /\ fields \in Nat /\ Len(ItemOut(item)) = 3 + fields
        /\ HoldsAt(inOffset + 1, NumberOut(Bytes(fields, 2)))
    BY <1>1, <1>6, <1>7, ItemOutIs, Zenon
  <1> HIDE DEF item, fields, l
  <1>9. inOffset + 3 + fields <= Len(data)
    <2>1. 3 + fields \in 1 .. Len(ItemOut(item))
      BY <1>8
    <2>2. inOffset + (3 + fields) <= Len(data)
      BY <1>6, <2>1, Zenon DEF HoldsAt
    <2>3. QED
      BY <1>1, <1>8, <2>2
  <1>10. fields + inOffset + 3 <= num
    BY <1>1, <1>4, <1>8, <1>9 DEF num
  <1>11. fields \in Length
    <2>1. fields <= 100
      BY <1>1, <1>8, <1>10 DEF num
    <2>2. QED
      BY <1>8, <2>1, SMT DEF Length
  <1>12. ValueOf(NumberAt(inOffset + 1, 2)) = fields
    <2>1. inOffset + 1 \in Nat
      BY <1>1
    <2>2. QED
      BY <1>1, <1>8, <1>11, <2>1, CountHeld
  <1>13. QED
    BY <1>10, <1>12, Zenon DEF IsRemainingBufferBigenough

\* What the invariant says of everything that was read.
LEMMA ReadInv == IInv => ReadAsWritten
  <1> SUFFICES ASSUME IInv
               PROVE  ReadAsWritten
    OBVIOUS
  <1>1. /\ script \in DOMAIN Scripts /\ data \in Seq(Char) /\ inOffset \in Nat
        /\ got \in Seq([kind : Classes \cup FieldKinds, values : Seq(Value)])
        /\ Len(got) \in Nat /\ Len(got) <= Len(Items)
        /\ got # <<>> => AllWritten
    BY DEF IInv, TypeOK, ReadSoFar
  <1>2. Len(Items) \in Nat
    BY <1>1, ItemsAre
  <1>3. ASSUME FitUpTo(Len(got)), got # <<>>
        PROVE  inOffset = EndOf(Len(got))
    <2>1. inOffset = Len(Ends[Len(got)])
      BY <1>3, Zenon DEF IInv, ReadSoFar
    <2>2. Len(starts) = Len(Items)
      BY <1>1, <1>3 DEF AllWritten
    <2>3. Len(got) # 0
      BY <1>1, <1>3
    <2>4. Len(got) \in 1 .. Len(starts)
      BY <1>1, <1>2, <2>2, <2>3
    <2>5. QED
      BY <2>1, <2>4, EndIs, Zenon
  <1>4. inOffset = num => ~IsRemainingBufferBigenough(inOffset, num)
    <2>1. ValueOf(NumberAt(inOffset + 1, 2)) \in Nat
      <3>1. inOffset + 1 \in Nat
        BY <1>1
      <3>2. QED
        BY <1>1, <3>1, CountHeld
    <2> DEFINE size == ValueOf(NumberAt(inOffset + 1, 2))
    <2>2. IsRemainingBufferBigenough(inOffset, num) => size + inOffset + 3 <= num
      BY Zenon DEF IsRemainingBufferBigenough
    <2> HIDE DEF size
    <2>3. size \in Nat
      BY <2>1 DEF size
    <2>4. QED
      BY <1>1, <2>2, <2>3 DEF num
  <1>5. ASSUME NEW i \in DOMAIN got, FitUpTo(i)
        PROVE  /\ got[i].kind = Items[i].as
               /\ \A k \in DOMAIN got[i].values :
                     Kinds(Items[i].kind)[k] \notin {"position", "rotation"} =>
                        got[i].values[k] = Kept(i, Kinds(Items[i].kind)[k], Items[i].values[k])
    <2>1. i \in 1 .. Len(got)
      BY <1>1, <1>5
    <2>2. /\ got[i].kind = Items[i].as
          /\ \A k \in DOMAIN got[i].values :
                got[i].values[k] = Expected(i, Kinds(Items[i].kind)[k], Items[i].values[k])
      BY <1>5, <2>1, ItemRead, Zenon
    <2>3. \A kind, value : kind \notin {"position", "rotation"} =>
              Expected(i, kind, value) = Kept(i, kind, value)
      BY SMT DEF Expected
    <2>4. QED
      BY <2>2, <2>3, Zenon
  <1>6. FramesLeft /\ Len(got) < Len(Items) => IsRemainingBufferBigenough(inOffset, num)
    BY FrameSeen
  <1>7. QED
    BY <1>3, <1>4, <1>5, <1>6, Zenon DEF ReadAsWritten

(* ReadAsWritten: what Serialize::In, the classes' SerializeIn and the     *)
(* factory's sampling read is what was written, item behind item, for      *)
(* every sequence of numbers, strings, buckets, tables and packets, up to  *)
(* the first that does not fit its reader; the loop over SizePackets sees  *)
(* every frame and ends with the last.                                     *)
THEOREM EverythingReadBack == Spec => []ReadAsWritten
  BY ReadInv, Invariance, PTL

\* What it says of the vectors among it.
LEMMA VectorsInv == IInv => VectorsClose
  <1> SUFFICES ASSUME IInv, NEW i \in DOMAIN got, FitUpTo(i), NEW k \in DOMAIN got[i].values
               PROVE  LET kind == Kinds(Items[i].kind)[k]
                          written == Items[i].values[k]
                          read == got[i].values[k]
                      IN  /\ kind = "position" => \A c \in {"x", "y", "z"} :
                                InRange(written[c]) => Apart(written[c], read[c]) * precision < Fine
                          /\ kind = "rotation" => \A c \in {"x", "y", "z"} :
                                AnglesApart(written[c], read[c]) < 360 * Tenths
    BY Zenon DEF VectorsClose
  <1> DEFINE kind == Kinds(Items[i].kind)[k]
             written == Items[i].values[k]
             read == got[i].values[k]
  <1>1. i \in 1 .. Len(got)
    <2>1. got \in Seq([kind : Classes \cup FieldKinds, values : Seq(Value)])
      BY DEF IInv, ReadSoFar
    <2>2. QED
      BY <2>1
  <1>2. /\ IsItem(Items[i]) /\ k \in 1 .. Len(Items[i].values)
        /\ read = Expected(i, kind, written)
    BY <1>1, ItemRead, Zenon
  <1>3. IsField(kind, written)
    BY <1>2, ItemIs, Zenon
  <1> HIDE DEF kind, written, read
  <1>4. ASSUME kind = "position", NEW c \in {"x", "y", "z"}, InRange(written[c])
        PROVE  Apart(written[c], read[c]) * precision < Fine
    <2>1. written \in Vectors
      BY <1>3, <1>4, FieldsAre
    <2>2. Expected(i, "position", written) = UnpackPosition(PackPosition(written))
      BY SMT DEF Expected
    <2>3. read = UnpackPosition(PackPosition(written))
      BY <1>2, <1>4, <2>2, Zenon
    <2>4. Apart(written[c], UnpackPosition(PackPosition(written))[c]) * precision < Fine
      BY <1>4, <2>1, PositionClose
    <2>5. QED
      BY <2>3, <2>4, Zenon
  <1>5. ASSUME kind = "rotation", NEW c \in {"x", "y", "z"}
        PROVE  AnglesApart(written[c], read[c]) < 360 * Tenths
    <2>1. written \in Vectors
      BY <1>3, <1>5, FieldsAre
    <2>2. Expected(i, "rotation", written) = GetRotation(SetRotation(written))
      BY SMT DEF Expected
    <2>3. read = GetRotation(SetRotation(written))
      BY <1>2, <1>5, <2>2, Zenon
    <2>4. AnglesApart(written[c], GetRotation(SetRotation(written))[c]) < 360 * Tenths
      BY <1>5, <2>1, RotationClose, SMT
    <2>5. QED
      BY <2>3, <2>4, Zenon
  <1>6. QED
    BY <1>4, <1>5, Zenon DEF kind, written, read

(* VectorsClose: every coordinate that PositionCompressed packs into its   *)
(* twenty bits comes back within a 256th, whatever the other two are, and  *)
(* every angle of RotationCompressed within a 1024th of the circle, for    *)
(* all integers and in every packet that carries them.                     *)
THEOREM VectorsComeClose == Spec => []VectorsClose
  BY VectorsInv, Invariance, PTL

\* What it says of the numbers in the buffer.
LEMMA WireInv == IInv => WireIsBigEndian
  <1> SUFFICES ASSUME IInv, NEW i \in DOMAIN starts, Items[i].kind \in DOMAIN Width
               PROVE  SubSeq(data, starts[i] + 1, EndOf(i)) = Items[i].values[1]
    BY Zenon DEF WireIsBigEndian
  <1> DEFINE item == Items[i]
             number == item.values[1]
             m == Len(starts)
             at == Len(Ends[i - 1])
  <1>1. /\ script \in DOMAIN Scripts /\ data \in Seq(Char) /\ bucket \in Seq(Seq(Char))
        /\ starts \in Seq(Nat) /\ m \in Nat /\ m <= Len(Items)
        /\ data = Ends[m] /\ \A j \in 1 .. m : starts[j] = Len(Ends[j - 1])
    BY DEF IInv, TypeOK, WrittenSoFar
  <1>2. i \in 1 .. m
    BY <1>1
  <1>3. Len(Items) \in Nat /\ i \in 1 .. Len(Items) /\ m \in 0 .. Len(Items) /\ i - 1 \in 0 .. Len(Items)
    <2>1. Len(Items) \in Nat
      BY <1>1, ItemsAre
    <2>2. QED
      BY <1>1, <1>2, <2>1
  <1>4. IsItem(item)
    BY <1>1, <1>3, ItemsAre
  <1>5. item.kind \notin Classes
    BY KindsOf DEF FieldKinds
  <1>6. /\ Len(item.values) = 1 /\ DOMAIN item.values = 1 .. Len(item.values)
        /\ Kinds(item.kind)[1] = item.kind /\ ~item.framed
    BY <1>4, <1>5, ItemIs, KindsOf, ReadersOf, Zenon
  <1>7. number \in Numbers(Width[item.kind]) /\ Width[item.kind] \in Nat
    <2>1. 1 \in 1 .. Len(item.values)
      BY <1>6
    <2>2. IsField(item.kind, number)
      BY <1>4, <1>6, <2>1, ItemIs, Zenon
    <2> HIDE DEF number
    <2>3. QED
      BY <2>2, FieldsAre, WidthIs
  <1> HIDE DEF number
  <1>8. number \in Seq(Char) /\ Len(number) \in Nat /\ NumberOut(number) = number
    BY <1>7, NumberIsSeq, NumberOutIs
  <1>9. ItemOut(item) = number
    <2>1. ItemOut(item) = FieldsOut(item) /\ FieldsOut(item) = FlattenSeq(Outs(item))
      BY <1>1, <1>4, <1>6, ItemOutIs, OutsAre, Zenon
    <2>2. FieldOut(item.kind, number) = number
      BY <1>8, FieldOuts, Zenon
    <2>3. Outs(item) = <<number>>
      <3>1. Outs(item) = [k \in 1 .. 1 |-> FieldOut(Kinds(item.kind)[k], item.values[k])]
        BY <1>6, Zenon DEF Outs
      <3>2. Outs(item) \in Seq(Seq(Char)) /\ Len(Outs(item)) = 1
        BY <1>1, <1>4, <1>6, OutsAre, Zenon
      <3>3. 1 \in 1 .. 1 /\ \A k \in 1 .. 1 : k = 1
        OBVIOUS
      <3>4. Outs(item)[1] = number
        BY <1>6, <2>2, <3>1, <3>3, Zenon DEF number
      <3> HIDE DEF item
      <3>5. QED
        BY <3>2, <3>4
    <2>4. FlattenSeq(<<number>>) = number
      BY <1>8, FlattenOne
    <2>5. QED
      BY <2>1, <2>3, <2>4, Zenon
  <1>10. HoldsAt(at, number)
    BY <1>1, <1>2, <1>3, <1>9, PrefixHeld, Zenon
  <1>11. at \in Nat /\ Len(Ends[i]) = at + Len(number)
    BY <1>1, <1>3, <1>9, OffsetsAre, Zenon
  <1>12. starts[i] = at /\ EndOf(i) = at + Len(number)
    BY <1>1, <1>2, <1>11, EndIs, Zenon
  <1> HIDE DEF at
  <1>13. SubSeq(data, at + 1, at + Len(number)) = number
    BY <1>1, <1>8, <1>10, <1>11 DEF HoldsAt
  <1>14. QED
    BY <1>12, <1>13, Zenon DEF number

(* WireIsBigEndian: Serialize::Out puts every number of every width into   *)
(* the buffer with its most significant byte first, wherever it lies, as   *)
(* htons, htonl and htonll turn it around and the host's memory does so    *)
(* again.                                                                  *)
THEOREM BigEndian == Spec => []WireIsBigEndian
  BY WireInv, Invariance, PTL
=============================================================================
