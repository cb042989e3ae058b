---------------------------- MODULE QueueLemmas ----------------------------
(***************************************************************************)
(* Facts about sequences and deadlines that the proofs about the two       *)
(* runtimes share: what the queues hold after each operation on them, and  *)
(* that a sleep queue has an earliest deadline.  IsInjective says of a     *)
(* queue that nothing is linked into it twice.                             *)
(***************************************************************************)
EXTENDS Integers, Sequences, FiniteSets, SequencesExt, TLAPS,
        FiniteSetTheorems, SequenceTheorems, WellFoundedInduction

----------------------------------------------------------------------------
(***************************************************************************)
(* Sequences, as the queues use them.                                      *)
(***************************************************************************)

\* What enqueue leaves in a queue.
LEMMA ContainsAppend ==
  ASSUME NEW S, NEW s \in Seq(S), NEW e \in S
  PROVE  /\ Append(s, e) \in Seq(S)
         /\ \A x : Contains(Append(s, e), x) <=> (Contains(s, x) \/ x = e)
         /\ IsInjective(s) /\ ~Contains(s, e) => IsInjective(Append(s, e))
  <1>1. /\ Append(s, e) \in Seq(S)
        /\ Len(Append(s, e)) = Len(s) + 1
        /\ \A i \in 1 .. Len(s) : Append(s, e)[i] = s[i]
        /\ Append(s, e)[Len(s) + 1] = e
        /\ DOMAIN Append(s, e) = 1 .. Len(s) + 1
        /\ DOMAIN s = 1 .. Len(s)
        /\ Len(s) \in Nat
    BY AppendProperties, LenProperties
  <1>2. \A x : Contains(Append(s, e), x) <=> (Contains(s, x) \/ x = e)
    <2> TAKE x
    <2>1. Contains(Append(s, e), x) => (Contains(s, x) \/ x = e)
      BY <1>1 DEF Contains
    <2>2. Contains(s, x) => Contains(Append(s, e), x)
      BY <1>1 DEF Contains
    <2>3. x = e => Contains(Append(s, e), x)
      BY <1>1 DEF Contains
    <2> QED BY <2>1, <2>2, <2>3
  <1>3. IsInjective(s) /\ ~Contains(s, e) => IsInjective(Append(s, e))
    BY <1>1 DEF Contains, IsInjective
  <1> QED BY <1>1, <1>2, <1>3

\* What dequeue leaves in a queue.
LEMMA ContainsTail ==
  ASSUME NEW S, NEW s \in Seq(S), s # << >>, IsInjective(s)
  PROVE  /\ Head(s) \in S
         /\ Tail(s) \in Seq(S)
         /\ Contains(s, Head(s))
         /\ \A x : Contains(Tail(s), x) <=> (Contains(s, x) /\ x # Head(s))
         /\ IsInjective(Tail(s))
  <1>1. /\ Head(s) \in S
        /\ Tail(s) \in Seq(S)
        /\ Len(Tail(s)) = Len(s) - 1
        /\ \A i \in 1 .. Len(Tail(s)) : Tail(s)[i] = s[i + 1]
        /\ Len(s) \in Nat \ {0}
        /\ DOMAIN s = 1 .. Len(s)
        /\ DOMAIN Tail(s) = 1 .. Len(s) - 1
        /\ Head(s) = s[1]
    BY HeadTailProperties, LenProperties, EmptySeq
  <1>2. Contains(s, Head(s))
    BY <1>1 DEF Contains
  <1>3. ASSUME NEW x, Contains(s, x), x # Head(s)
        PROVE  Contains(Tail(s), x)
    <2>1. PICK i \in 1 .. Len(s) : s[i] = x
      BY <1>3 DEF Contains
    <2>2. i # 1 /\ i - 1 \in 1 .. Len(Tail(s)) /\ Tail(s)[i - 1] = s[i - 1 + 1]
      BY <2>1, <1>1, <1>3
    <2> QED BY <2>1, <2>2, <1>1 DEF Contains
  <1>4. ASSUME NEW x, Contains(Tail(s), x)
        PROVE  Contains(s, x) /\ x # Head(s)
    BY <1>1, <1>4 DEF Contains, IsInjective
  <1>5. IsInjective(Tail(s))
    BY <1>1 DEF IsInjective
  <1> QED BY <1>1, <1>2, <1>3, <1>4, <1>5

\* What moving a batch onto a queue leaves in it.
LEMMA ContainsConcat ==
  ASSUME NEW S, NEW s \in Seq(S), NEW t \in Seq(S)
  PROVE  /\ s \o t \in Seq(S)
         /\ \A x : Contains(s \o t, x) <=> (Contains(s, x) \/ Contains(t, x))
         /\ IsInjective(s) /\ IsInjective(t) /\ (\A x : ~(Contains(s, x) /\ Contains(t, x)))
              => IsInjective(s \o t)
  <1>1. /\ s \o t \in Seq(S)
        /\ Len(s \o t) = Len(s) + Len(t)
        /\ \A i \in 1 .. Len(s) + Len(t) :
             (s \o t)[i] = IF i <= Len(s) THEN s[i] ELSE t[i - Len(s)]
        /\ Len(s) \in Nat /\ Len(t) \in Nat
        /\ DOMAIN (s \o t) = 1 .. Len(s) + Len(t)
        /\ DOMAIN s = 1 .. Len(s)
        /\ DOMAIN t = 1 .. Len(t)
    BY ConcatProperties, LenProperties
  <1>2. ASSUME NEW x, Contains(s \o t, x)
        PROVE  Contains(s, x) \/ Contains(t, x)
    <2>1. PICK i \in 1 .. Len(s) + Len(t) : (s \o t)[i] = x
      BY <1>1, <1>2 DEF Contains
    <2>2. CASE i <= Len(s)
      BY <1>1, <2>1, <2>2 DEF Contains
    <2>3. CASE i > Len(s)
      <3>1. i - Len(s) \in 1 .. Len(t) /\ t[i - Len(s)] = x
        BY <1>1, <2>1, <2>3
      <3> QED BY <3>1 DEF Contains
    <2> QED BY <1>1, <2>2, <2>3
  <1>3. ASSUME NEW x, Contains(s, x)
        PROVE  Contains(s \o t, x)
    BY <1>1, <1>3 DEF Contains
  <1>4. ASSUME NEW x, Contains(t, x)
        PROVE  Contains(s \o t, x)
    <2>1. PICK i \in 1 .. Len(t) : t[i] = x
      BY <1>4 DEF Contains
    <2>2. i + Len(s) \in 1 .. Len(s \o t) /\ (s \o t)[i + Len(s)] = x
      BY <1>1, <2>1
    <2> QED BY <2>2 DEF Contains
  <1>5. ASSUME IsInjective(s), IsInjective(t),
               \A x : ~(Contains(s, x) /\ Contains(t, x)),
               NEW i \in 1 .. Len(s) + Len(t), NEW j \in 1 .. Len(s) + Len(t),
               (s \o t)[i] = (s \o t)[j]
        PROVE  i = j
    <2>1. CASE i <= Len(s) /\ j <= Len(s)
      BY <1>1, <1>5, <2>1 DEF IsInjective
    <2>2. CASE i > Len(s) /\ j > Len(s)
      <3>1. /\ i - Len(s) \in DOMAIN t /\ j - Len(s) \in DOMAIN t
            /\ t[i - Len(s)] = t[j - Len(s)]
        BY <1>1, <1>5, <2>2
      <3>2. i - Len(s) = j - Len(s)
        BY <3>1, <1>5 DEF IsInjective
      <3> QED BY <3>2, <1>1
    <2>3. CASE i <= Len(s) /\ j > Len(s)
      <3>1. /\ i \in 1 .. Len(s) /\ j - Len(s) \in 1 .. Len(t)
            /\ s[i] = t[j - Len(s)]
        BY <1>1, <1>5, <2>3
      <3>2. Contains(s, s[i]) /\ Contains(t, s[i])
        BY <3>1 DEF Contains
      <3> QED BY <3>2, <1>5
    <2>4. CASE i > Len(s) /\ j <= Len(s)
      <3>1. /\ j \in 1 .. Len(s) /\ i - Len(s) \in 1 .. Len(t)
            /\ s[j] = t[i - Len(s)]
        BY <1>1, <1>5, <2>4
      <3>2. Contains(s, s[j]) /\ Contains(t, s[j])
        BY <3>1 DEF Contains
      <3> QED BY <3>2, <1>5
    <2> QED BY <1>1, <2>1, <2>2, <2>3, <2>4
  <1>6. IsInjective(s) /\ IsInjective(t) /\ (\A x : ~(Contains(s, x) /\ Contains(t, x)))
          => IsInjective(s \o t)
    BY <1>1, <1>5 DEF IsInjective
  <1> QED BY <1>1, <1>2, <1>3, <1>4, <1>6

\* What taking the first k elements off a queue leaves in it.
LEMMA ContainsSplit ==
  ASSUME NEW S, NEW s \in Seq(S), NEW k \in 0 .. Len(s)
  PROVE  LET a == SubSeq(s, 1, k)
             b == SubSeq(s, k + 1, Len(s))
         IN  /\ a \in Seq(S) /\ b \in Seq(S)
             /\ \A x : Contains(s, x) <=> (Contains(a, x) \/ Contains(b, x))
             /\ IsInjective(s) => /\ IsInjective(a) /\ IsInjective(b)
                               /\ \A x : ~(Contains(a, x) /\ Contains(b, x))
  <1> DEFINE a == SubSeq(s, 1, k)
             b == SubSeq(s, k + 1, Len(s))
  <1>0. k \in Nat /\ k <= Len(s)
    BY LenProperties
  <1>1. Len(s) \in Nat /\ DOMAIN s = 1 .. Len(s) /\ \A i \in 1 .. Len(s) : s[i] \in S
    BY LenProperties, ElementOfSeq
  <1>2. /\ a \in Seq(S)
        /\ Len(a) = k
        /\ \A i \in 1 .. k : a[i] = s[i]
    <2>1. \A i \in 1 .. k : s[i] \in S
      BY <1>1
    <2>2. /\ a \in Seq(S)
          /\ Len(a) = IF 1 <= k THEN k - 1 + 1 ELSE 0
          /\ \A i \in 1 .. k - 1 + 1 : a[i] = s[1 + i - 1]
      BY <2>1, <1>1, SubSeqProperties
    <2> QED BY <2>2, <1>1
  <1>3. /\ b \in Seq(S)
        /\ Len(b) = Len(s) - k
        /\ \A i \in 1 .. Len(s) - k : b[i] = s[k + i]
    <2> DEFINE m == k + 1
               n == Len(s)
    <2>1. m \in Int /\ n \in Int /\ \A i \in m .. n : s[i] \in S
      BY <1>1
    <2>2. /\ SubSeq(s, m, n) \in Seq(S)
          /\ Len(SubSeq(s, m, n)) = IF m <= n THEN n - m + 1 ELSE 0
          /\ \A i \in 1 .. n - m + 1 : SubSeq(s, m, n)[i] = s[m + i - 1]
      <3> HIDE DEF m, n
      <3> QED BY <2>1, SubSeqProperties
    <2>3. n - m + 1 = n - k /\ k \in Int /\ k <= n
      BY <1>1
    <2>4. Len(b) = n - k
      <3>1. CASE m <= n
        BY <2>2, <2>3, <3>1
      <3>2. CASE ~(m <= n)
        <4>1. \A x, y \in Int : x <= y /\ ~(x + 1 <= y) => y - x = 0
          BY SMTT(30)
        <4>2. n - k = 0
          BY <2>1, <2>3, <3>2, <4>1
        <4> QED BY <2>2, <3>2, <4>2
      <3> QED BY <3>1, <3>2
    <2>5. ASSUME NEW i \in 1 .. n - k
          PROVE  b[i] = s[k + i]
      <3>1. i \in 1 .. n - m + 1
        BY <2>3
      <3>2. m + i - 1 = k + i
        BY <2>1, <2>3
      <3>3. b[i] = s[m + i - 1]
        BY <2>2, <3>1
      <3> QED BY <3>2, <3>3
    <2> QED BY <2>2, <2>4, <2>5
  <1>4. /\ DOMAIN a = 1 .. k /\ DOMAIN b = 1 .. Len(s) - k
    BY <1>2, <1>3, LenProperties
  <1>5. ASSUME NEW x, Contains(s, x)
        PROVE  Contains(a, x) \/ Contains(b, x)
    <2>1. PICK i \in 1 .. Len(s) : s[i] = x
      BY <1>5 DEF Contains
    <2>2. CASE i <= k
      BY <1>1, <1>2, <2>1, <2>2 DEF Contains
    <2>3. CASE i > k
      <3>1. i - k \in 1 .. Len(s) - k /\ k + (i - k) = i
        BY <1>0, <1>1, <2>3
      <3>2. b[i - k] = s[k + (i - k)]
        BY <1>3, <3>1
      <3>3. i - k \in 1 .. Len(b) /\ b[i - k] = x
        BY <1>3, <2>1, <3>1, <3>2
      <3> QED BY <3>3 DEF Contains
    <2> QED BY <1>1, <2>2, <2>3
  <1>6. ASSUME NEW x, Contains(a, x)
        PROVE  Contains(s, x)
    BY <1>1, <1>2, <1>6 DEF Contains
  <1>7. ASSUME NEW x, Contains(b, x)
        PROVE  Contains(s, x)
    <2>1. PICK i \in 1 .. Len(b) : b[i] = x
      BY <1>7 DEF Contains
    <2>2. i \in 1 .. Len(s) - k
      BY <1>3
    <2>3. k + i \in 1 .. Len(s)
      BY <1>0, <1>1, <2>2
    <2>4. s[k + i] = x
      BY <1>3, <2>1, <2>2
    <2> QED BY <2>3, <2>4 DEF Contains
  <1>8. ASSUME IsInjective(s)
        PROVE  /\ IsInjective(a) /\ IsInjective(b)
               /\ \A x : ~(Contains(a, x) /\ Contains(b, x))
    <2>1. IsInjective(a)
      BY <1>1, <1>2, <1>4, <1>8 DEF IsInjective
    <2>2. IsInjective(b)
      <3>1. ASSUME NEW i \in 1 .. Len(s) - k, NEW j \in 1 .. Len(s) - k, b[i] = b[j]
            PROVE  i = j
        <4>1. k + i \in DOMAIN s /\ k + j \in DOMAIN s
          BY <1>1
        <4>3. s[k + i] = s[k + j]
          <5>1. b[i] = s[k + i] /\ b[j] = s[k + j]
            BY <1>3
          <5> QED BY <5>1, <3>1
        <4>2. k + i = k + j
          BY <4>1, <4>3, <1>8 DEF IsInjective
        <4> QED BY <4>2, <1>1
      <3> QED BY <3>1, <1>4 DEF IsInjective
    <2>3. ASSUME NEW x, Contains(a, x), Contains(b, x)
          PROVE  FALSE
      <3>1. PICK i \in 1 .. k : a[i] = x
        BY <1>2, <2>3 DEF Contains
      <3>2. PICK j \in 1 .. Len(s) - k : b[j] = x
        BY <1>3, <2>3 DEF Contains
      <3>3. i \in DOMAIN s /\ k + j \in DOMAIN s /\ i # k + j
        BY <1>1
      <3>4. s[i] = x /\ s[k + j] = x
        BY <1>2, <1>3, <3>1, <3>2
      <3> QED BY <3>3, <3>4, <1>8 DEF IsInjective
    <2> QED BY <2>1, <2>2, <2>3
  <1> QED BY <1>2, <1>3, <1>5, <1>6, <1>7, <1>8

\* An order in which a batch is handed over holds each of its elements once.
LEMMA SetToSeqsContains ==
  ASSUME NEW S, IsFiniteSet(S), NEW s \in SetToSeqs(S)
  PROVE  /\ s \in Seq(S)
         /\ IsInjective(s)
         /\ \A x : Contains(s, x) <=> x \in S
  <1> DEFINE n == Cardinality(S)
  <1>1. n \in Nat
    BY FS_CardinalityType
  <1>2. /\ s \in [1 .. n -> S]
        /\ \A i, j \in 1 .. n : i # j => s[i] # s[j]
    BY DEF SetToSeqs
  <1>3. s \in Seq(S) /\ Len(s) = n /\ DOMAIN s = 1 .. n
    BY <1>1, <1>2
  <1>4. IsInjective(s)
    BY <1>2, <1>3 DEF IsInjective
  <1>5. \A x \in S : \E i \in 1 .. n : s[i] = x
    <2>1. IsFiniteSet(1 .. n) /\ Cardinality(1 .. n) = n
      BY <1>1, FS_Interval
    <2>2. s \in Injection(1 .. n, S)
      BY <1>2 DEF Injection, IsInjective
    <2>3. s \in Surjection(1 .. n, S)
      BY <2>1, <2>2, FS_Injection
    <2> QED BY <2>3 DEF Surjection
  <1> QED BY <1>1, <1>2, <1>3, <1>4, <1>5 DEF Contains

----------------------------------------------------------------------------
(***************************************************************************)
(* Least elements.                                                         *)
(***************************************************************************)

\* A set of integers that is bounded below has a least element.
LEMMA LeastElement ==
  ASSUME NEW T, T # {}, T \subseteq Int, NEW b \in Int, \A t \in T : b <= t
  PROVE  \E m \in T : \A t \in T : m <= t
  <1> DEFINE N == {t - b : t \in T}
  <1>1. N \subseteq Nat /\ N # {}
    <2>1. ASSUME NEW t \in T PROVE t - b \in Nat
      <3>1. t \in Int /\ b <= t
        OBVIOUS
      <3> QED BY <3>1
    <2> QED BY <2>1
  <1>2. \E x \in N : \A y \in N : ~(<<y, x>> \in OpToRel(<, Nat))
    <2> HIDE DEF N
    <2> QED BY <1>1, NatLessThanWellFounded, WFMin
  <1>3. PICK x \in N : \A y \in N : ~(<<y, x>> \in OpToRel(<, Nat))
    BY <1>2
  <1>4. \A y \in N : x <= y
    <2> HIDE DEF N
    <2> SUFFICES ASSUME NEW y \in N, ~(x <= y) PROVE FALSE
      OBVIOUS
    <2>1. x \in Nat /\ y \in Nat /\ y < x
      BY <1>1
    <2>2. <<y, x>> \in OpToRel(<, Nat)
      BY <2>1 DEF OpToRel
    <2> QED BY <2>2, <1>3
  <1>5. PICK m \in T : x = m - b
    BY <1>3
  <1>6. ASSUME NEW t \in T PROVE m <= t
    <2>1. t - b \in N
      OBVIOUS
    <2>2. m - b <= t - b
      BY <2>1, <1>4, <1>5
    <2> QED BY <2>2
  <1> QED BY <1>6
\* Positions and elements of a sequence.
LEMMA ContainsPositions ==
  ASSUME NEW S, NEW s \in Seq(S)
  PROVE  /\ \A e : e \in ToSet(s) <=> Contains(s, e)
         /\ \A i \in DOMAIN s : s[i] \in S /\ Contains(s, s[i])
         /\ \A e : Contains(s, e) => \E i \in DOMAIN s : s[i] = e
  <1>1. DOMAIN s = 1 .. Len(s) /\ \A i \in 1 .. Len(s) : s[i] \in S
    OBVIOUS
  <1> QED BY <1>1 DEF ToSet, Contains

\* A set of lengths has a least one.
LEMMA LeastLength ==
  ASSUME NEW T, T # {}, T \subseteq Nat
  PROVE  \E m \in T : \A n \in T : m <= n
  <1>1. PICK b \in Int : b = 0
    OBVIOUS
  <1>2. T \subseteq Int /\ \A n \in T : b <= n
    BY <1>1
  <1> QED
    BY <1>2, LeastElement

----------------------------------------------------------------------------
(***************************************************************************)
(* Induction over sequences, with the set of those that have the property  *)
(* in place of the property, and recursive functions.                      *)
(***************************************************************************)

\* A set of sequences that has the empty one, and each with one element more,
\* has them all.
LEMMA SequencesBuilt ==
  ASSUME NEW A, NEW T, << >> \in T,
         \A s \in Seq(A), e \in A : s \in T => Append(s, e) \in T
  PROVE  \A s \in Seq(A) : s \in T
  <1> DEFINE L == {n \in Nat : \E s \in Seq(A) : Len(s) = n /\ s \notin T}
  <1>1. SUFFICES ASSUME NEW s \in Seq(A), s \notin T PROVE FALSE
    OBVIOUS
  <1>2. L # {} /\ L \subseteq Nat
    <2>1. Len(s) \in L
      BY <1>1
    <2> QED BY <2>1
  <1>3. PICK m \in L : \A n \in L : m <= n
    <2> HIDE DEF L
    <2> QED BY <1>2, LeastLength
  <1>4. PICK r \in Seq(A) : Len(r) = m /\ r \notin T
    BY <1>3
  <1>5. r # << >>
    BY <1>4
  <1>6. PICK q \in Seq(A), e \in A : r = Append(q, e)
    BY <1>5, SequenceEmptyOrAppend
  <1>7. Len(q) \in Nat /\ Len(r) = Len(q) + 1
    BY <1>6, AppendProperties, LenProperties
  <1>8. q \notin T
    BY <1>4, <1>6
  <1>9. Len(q) \in L
    BY <1>7, <1>8
  <1>10. m \in Nat /\ m <= Len(q)
    <2> HIDE DEF L
    <2> QED BY <1>2, <1>3, <1>9
  <1> QED BY <1>4, <1>7, <1>10

\* g is what a recursion computes up to n: the first value is a, and step
\* gives each of the others from the one before it.
Recurs(g, a, step, n) ==
  /\ g[0] = a
  /\ \A i \in 1 .. n : g[i] = step[<<i, g[i - 1]>>]

\* It computes something, and only one thing.
LEMMA RecursionDefined ==
  ASSUME NEW A, NEW a \in A, NEW n \in Nat, NEW step \in [(1 .. n) \X A -> A]
  PROVE  \E g \in [0 .. n -> A] : Recurs(g, a, step, n)
  <1> DEFINE Has(m) == \E g \in [0 .. m -> A] : Recurs(g, a, step, m)
             T == {m \in 0 .. n : ~Has(m)}
  <1>1. SUFFICES ASSUME ~Has(n) PROVE FALSE
    OBVIOUS
  <1>2. T # {} /\ T \subseteq Nat
    <2>1. n \in T
      <3> HIDE DEF Has
      <3> QED BY <1>1
    <2> QED BY <2>1
  <1>3. PICK m \in T : \A k \in T : m <= k
    <2> HIDE DEF T
    <2> QED BY <1>2, LeastLength
  <1>4. m \in 0 .. n /\ ~Has(m)
    <2> HIDE DEF Has
    <2> QED BY <1>3
  <1>5. CASE m = 0
    <2> DEFINE g == [i \in 0 .. 0 |-> a]
    <2>1. g \in [0 .. 0 -> A] /\ g[0] = a
      OBVIOUS
    <2>2. Recurs(g, a, step, 0)
      <3> HIDE DEF g
      <3> QED BY <2>1 DEF Recurs
    <2> HIDE DEF g
    <2> QED BY <1>4, <1>5, <2>1, <2>2
  <1>6. CASE m # 0
    <2>1. m \in 1 .. n /\ m - 1 \in 0 .. n /\ m - 1 \notin T
      <3> HIDE DEF Has
      <3> QED BY <1>3, <1>4, <1>6
    <2>2. Has(m - 1)
      <3> HIDE DEF Has
      <3> QED BY <2>1
    <2>3. PICK g \in [0 .. m - 1 -> A] : Recurs(g, a, step, m - 1)
      BY <2>2
    <2> DEFINE new == step[<<m, g[m - 1]>>]
               h == [i \in 0 .. m |-> IF i = m THEN new ELSE g[i]]
    <2>4. g[m - 1] \in A
      BY <2>1
    <2>5. <<m, g[m - 1]>> \in (1 .. n) \X A
      BY <2>1, <2>4
    <2>6. new \in A
      BY <2>5
    <2>7. /\ h \in [0 .. m -> A] /\ h[m] = new
          /\ \A i \in 0 .. m - 1 : h[i] = g[i]
      <3> HIDE DEF new
      <3> QED BY <2>1, <2>6
    <2>8. Recurs(h, a, step, m)
      <3> HIDE DEF h
      <3>1. h[0] = a
        BY <2>1, <2>3, <2>7 DEF Recurs
      <3>2. ASSUME NEW i \in 1 .. m PROVE h[i] = step[<<i, h[i - 1]>>]
        <4>1. CASE i = m
          BY <2>1, <2>7, <4>1
        <4>2. CASE i # m
          <5>1. i \in 1 .. m - 1 /\ i \in 0 .. m - 1 /\ i - 1 \in 0 .. m - 1
            BY <2>1, <4>2
          <5>2. g[i] = step[<<i, g[i - 1]>>]
            BY <2>3, <5>1 DEF Recurs
          <5>3. h[i] = g[i] /\ h[i - 1] = g[i - 1]
            BY <2>7, <5>1
          <5> QED BY <5>2, <5>3
        <4> QED BY <4>1, <4>2
      <3> QED BY <3>1, <3>2 DEF Recurs
    <2> HIDE DEF h
    <2> QED BY <1>4, <2>7, <2>8
  <1> QED BY <1>5, <1>6

LEMMA RecursionUnique ==
  ASSUME NEW a, NEW n \in Nat, NEW step,
         NEW g, NEW h, Recurs(g, a, step, n), Recurs(h, a, step, n)
  PROVE  \A i \in 0 .. n : g[i] = h[i]
  <1> DEFINE T == {i \in 0 .. n : g[i] # h[i]}
  <1>1. SUFFICES ASSUME T # {} PROVE FALSE
    OBVIOUS
  <1>2. T \subseteq Nat
    OBVIOUS
  <1>3. PICK m \in T : \A i \in T : m <= i
    <2> HIDE DEF T
    <2> QED BY <1>1, <1>2, LeastLength
  <1>4. m # 0
    BY <1>3 DEF Recurs
  <1>5. m \in 1 .. n /\ m - 1 \in 0 .. n /\ m - 1 \notin T
    BY <1>3, <1>4
  <1>6. g[m - 1] = h[m - 1]
    BY <1>5
  <1>7. g[m] = step[<<m, g[m - 1]>>] /\ h[m] = step[<<m, h[m - 1]>>]
    BY <1>5 DEF Recurs
  <1>8. g[m] # h[m]
    BY <1>3
  <1> QED BY <1>6, <1>7, <1>8

============================================================================
