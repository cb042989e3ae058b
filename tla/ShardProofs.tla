----------------------------- MODULE ShardProofs -----------------------------
(***************************************************************************)
(* Theorems about Shard: shards keep the promise of an executor; about     *)
(* SizeClasses, of the memory allocator that a shard runs on; and about    *)
(* the blobs and the guards that free their memory (Guards), for any       *)
(* number of blobs, objects and impls.                                     *)
(***************************************************************************)
EXTENDS Shard, SizeClasses, Blobs, QueueLemmas, SequenceTheorems,
        FiniteSetTheorems, TLAPS

----------------------------------------------------------------------------
(***************************************************************************)
(* What From computes.  There is no induction over data among the provers; *)
(* a least length at which a fact fails takes its place.                   *)
(***************************************************************************)

\* g is the function that From computes with.
Selects(g, f, s) ==
  g = [n \in 0 .. Len(s) |->
         IF n = 0 THEN << >>
         ELSE IF s[n][1] = f THEN Append(g[n - 1], s[n][2])
         ELSE g[n - 1]]

\* What that says of each length.
Steps(g, f, s) ==
  /\ g[0] = << >>
  /\ \A n \in 1 .. Len(s) :
       g[n] = IF s[n][1] = f THEN Append(g[n - 1], s[n][2]) ELSE g[n - 1]

\* The tasks q of thread f once e has come.
Extended(q, f, e) == IF e[1] = f THEN Append(q, e[2]) ELSE q

\* If there is such a function, From is its last value.
LEMMA FromIsLast ==
  ASSUME NEW f, NEW s, \E g : Selects(g, f, s)
  PROVE  \E g : Selects(g, f, s) /\ From(f, s) = g[Len(s)]
  <1> DEFINE h == CHOOSE g : Selects(g, f, s)
  <1>1. Selects(h, f, s)
    OBVIOUS
  <1>2. From(f, s) = h[Len(s)]
    BY DEF From, Selects
  <1> QED
    BY <1>1, <1>2

\* The function goes step by step.
LEMMA SelectsValues ==
  ASSUME NEW f, NEW P, NEW s \in Seq(P), NEW g, Selects(g, f, s)
  PROVE  Steps(g, f, s)
  <1> DEFINE d == 0 .. Len(s)
             v(n) == IF n = 0 THEN << >>
                     ELSE IF s[n][1] = f THEN Append(g[n - 1], s[n][2])
                     ELSE g[n - 1]
  <1>1. g = [n \in d |-> v(n)]
    BY DEF Selects
  <1>2. \A n \in d : g[n] = v(n)
    <2> HIDE DEF d, v
    <2> QED BY <1>1
  <1>3. Len(s) \in Nat
    OBVIOUS
  <1>4. 0 \in d /\ \A n \in 1 .. Len(s) : n \in d /\ n # 0
    BY <1>3
  <1> QED
    BY <1>2, <1>4 DEF Steps

\* One more element: one more value.
LEMMA SelectsExtends ==
  ASSUME NEW f, NEW P, NEW s \in Seq(P), NEW e \in P,
         NEW g, Selects(g, f, s)
  PROVE  \E h : Selects(h, f, Append(s, e)) /\ h[Len(s) + 1] = Extended(g[Len(s)], f, e)
  <1> DEFINE l == Len(s)
             new == IF e[1] = f THEN Append(g[l], e[2]) ELSE g[l]
             h == [n \in 0 .. l + 1 |-> IF n = l + 1 THEN new ELSE g[n]]
  <1>1. /\ l \in Nat
        /\ Len(Append(s, e)) = l + 1
        /\ \A n \in 1 .. l : Append(s, e)[n] = s[n]
        /\ Append(s, e)[l + 1] = e
    OBVIOUS
  <1>2. h[l + 1] = new /\ \A n \in 0 .. l : h[n] = g[n]
    BY <1>1
  <1>3. /\ g[0] = << >>
        /\ \A n \in 1 .. l :
             g[n] = IF s[n][1] = f THEN Append(g[n - 1], s[n][2]) ELSE g[n - 1]
    BY SelectsValues DEF Steps
  <1> DEFINE k == [n \in 0 .. l + 1 |->
                     IF n = 0 THEN << >>
                     ELSE IF Append(s, e)[n][1] = f THEN Append(h[n - 1], Append(s, e)[n][2])
                     ELSE h[n - 1]]
  <1>4. ASSUME NEW n \in 0 .. l + 1 PROVE h[n] = k[n]
    <2>1. CASE n = 0
      BY <2>1, <1>1, <1>2, <1>3
    <2>2. CASE n \in 1 .. l
      <3>1. k[n] = IF s[n][1] = f THEN Append(h[n - 1], s[n][2]) ELSE h[n - 1]
        BY <2>2, <1>1
      <3>2. h[n] = g[n] /\ h[n - 1] = g[n - 1]
        BY <2>2, <1>1, <1>2
      <3> HIDE DEF h, k
      <3> QED
        BY <3>1, <3>2, <2>2, <1>3
    <2>3. CASE n = l + 1
      <3>1. k[n] = IF e[1] = f THEN Append(h[l], e[2]) ELSE h[l]
        BY <2>3, <1>1
      <3>2. h[n] = new /\ h[l] = g[l]
        BY <2>3, <1>1, <1>2
      <3> HIDE DEF h, k
      <3> QED
        BY <3>1, <3>2
    <2> QED
      BY <2>1, <2>2, <2>3, <1>1
  <1>5. h = k
    BY <1>4
  <1>6. Selects(h, f, Append(s, e))
    <2> HIDE DEF h
    <2> QED
      BY <1>5, <1>1 DEF Selects
  <1> HIDE DEF h
  <1> QED
    BY <1>6, <1>2 DEF Extended

\* There is such a function for every sequence.
LEMMA SelectsExists ==
  ASSUME NEW f, NEW P, NEW s \in Seq(P)
  PROVE  \E g : Selects(g, f, s)
  <1> DEFINE Lacks(r) == ~ \E g : Selects(g, f, r)
             T == {n \in Nat : \E r \in Seq(P) : Len(r) = n /\ Lacks(r)}
  <1>1. SUFFICES ASSUME Lacks(s) PROVE FALSE
    OBVIOUS
  <1>2. T # {} /\ T \subseteq Nat
    <2>1. Len(s) \in T
      <3> HIDE DEF Lacks
      <3> QED BY <1>1
    <2> QED BY <2>1
  <1>3. PICK m \in T : \A n \in T : m <= n
    <2> HIDE DEF T
    <2> QED BY <1>2, LeastLength
  <1>4. PICK r \in Seq(P) : Len(r) = m /\ Lacks(r)
    <2> HIDE DEF Lacks
    <2> QED BY <1>3
  <1>5. CASE m = 0
    <2> DEFINE g == [n \in 0 .. 0 |-> << >>]
    <2>1. g = [n \in 0 .. Len(r) |->
                 IF n = 0 THEN << >>
                 ELSE IF r[n][1] = f THEN Append(g[n - 1], r[n][2])
                 ELSE g[n - 1]]
      BY <1>4, <1>5
    <2>2. Selects(g, f, r)
      <3> HIDE DEF g
      <3> QED BY <2>1 DEF Selects
    <2> QED
      BY <2>2, <1>4
  <1>6. CASE m # 0
    <2> DEFINE q == SubSeq(r, 1, m - 1)
               e == r[m]
    <2>1. /\ m \in Nat /\ m >= 1
          /\ q \in Seq(P) /\ Len(q) = m - 1
          /\ e \in P
          /\ \A i \in 1 .. m - 1 : q[i] = r[i]
      BY <1>3, <1>4, <1>6
    <2>2. r = Append(q, e)
      <3>1. /\ Append(q, e) \in Seq(P)
            /\ Len(Append(q, e)) = m
            /\ \A i \in 1 .. m - 1 : Append(q, e)[i] = q[i]
            /\ Append(q, e)[m] = e
        <4> HIDE DEF q, e
        <4> QED BY <2>1
      <3>2. \A i \in 1 .. m : Append(q, e)[i] = r[i]
        <4> HIDE DEF q
        <4> QED BY <3>1, <2>1
      <3> HIDE DEF q, e
      <3> QED
        BY <3>1, <3>2, <1>4, <2>1
    <2>3. m - 1 \notin T
      <3> HIDE DEF T
      <3> QED BY <1>2, <1>3, <2>1
    <2>4. \E g : Selects(g, f, q)
      <3> HIDE DEF q
      <3> QED BY <2>1, <2>3
    <2>5. \E g : Selects(g, f, Append(q, e))
      <3> HIDE DEF q, e
      <3> QED BY <2>1, <2>4, SelectsExtends
    <2> QED
      BY <2>2, <2>5, <1>4
  <1> QED
    BY <1>5, <1>6

\* There is only one.
LEMMA SelectsUnique ==
  ASSUME NEW f, NEW P, NEW s \in Seq(P),
         NEW g, NEW h, Selects(g, f, s), Selects(h, f, s)
  PROVE  \A n \in 0 .. Len(s) : g[n] = h[n]
  <1> DEFINE T == {n \in 0 .. Len(s) : g[n] # h[n]}
  <1>1. SUFFICES ASSUME T # {} PROVE FALSE
    OBVIOUS
  <1>2. T \subseteq Nat
    OBVIOUS
  <1>3. PICK m \in T : \A n \in T : m <= n
    <2> HIDE DEF T
    <2> QED BY <1>1, <1>2, LeastLength
  <1>4. g[0] = << >> /\ h[0] = << >>
    <2> HIDE DEF T
    <2>1. Steps(g, f, s) /\ Steps(h, f, s)
      BY SelectsValues
    <2> QED BY <2>1 DEF Steps
  <1>5. m \in 1 .. Len(s) /\ g[m] # h[m]
    BY <1>3, <1>4
  <1>6. m - 1 \notin T /\ m - 1 \in 0 .. Len(s)
    <2> HIDE DEF T
    <2> QED BY <1>2, <1>3, <1>5
  <1>7. g[m - 1] = h[m - 1]
    BY <1>6
  <1>8. /\ g[m] = IF s[m][1] = f THEN Append(g[m - 1], s[m][2]) ELSE g[m - 1]
        /\ h[m] = IF s[m][1] = f THEN Append(h[m - 1], s[m][2]) ELSE h[m - 1]
    BY <1>5, SelectsValues DEF Steps
  <1> QED
    BY <1>5, <1>7, <1>8

\* Its values are sequences of tasks.
LEMMA SelectsType ==
  ASSUME NEW f, NEW A, NEW S, NEW s \in Seq(A \X S), NEW g, Selects(g, f, s)
  PROVE  \A n \in 0 .. Len(s) : g[n] \in Seq(S)
  <1> DEFINE T == {n \in 0 .. Len(s) : g[n] \notin Seq(S)}
  <1>1. SUFFICES ASSUME T # {} PROVE FALSE
    OBVIOUS
  <1>2. T \subseteq Nat
    OBVIOUS
  <1>3. PICK m \in T : \A n \in T : m <= n
    <2> HIDE DEF T
    <2> QED BY <1>1, <1>2, LeastLength
  <1>4. g[0] = << >>
    <2> HIDE DEF T
    <2> QED BY SelectsValues DEF Steps
  <1>5. m \in 1 .. Len(s) /\ g[m] \notin Seq(S)
    <2>1. g[0] \in Seq(S)
      BY <1>4
    <2>2. m \in 0 .. Len(s) /\ g[m] \notin Seq(S)
      BY <1>3
    <2>3. m # 0
      BY <2>1, <2>2
    <2> QED
      BY <2>2, <2>3
  <1>6. m - 1 \notin T /\ m - 1 \in 0 .. Len(s)
    <2> HIDE DEF T
    <2> QED BY <1>2, <1>3, <1>5
  <1>7. g[m - 1] \in Seq(S)
    BY <1>6
  <1>8. g[m] = IF s[m][1] = f THEN Append(g[m - 1], s[m][2]) ELSE g[m - 1]
    <2> HIDE DEF T
    <2> QED BY <1>5, SelectsValues DEF Steps
  <1>9. s[m][2] \in S
    <2>1. s[m] \in A \X S
      BY <1>5
    <2> QED
      BY <2>1
  <1> QED
    BY <1>5, <1>7, <1>8, <1>9

\* From is a sequence of tasks.
LEMMA FromType ==
  ASSUME NEW f, NEW A, NEW S, NEW s \in Seq(A \X S)
  PROVE  From(f, s) \in Seq(S)
  <1>1. PICK g : Selects(g, f, s) /\ From(f, s) = g[Len(s)]
    BY SelectsExists, FromIsLast
  <1>2. \A n \in 0 .. Len(s) : g[n] \in Seq(S)
    BY <1>1, SelectsType
  <1>3. Len(s) \in Nat
    OBVIOUS
  <1> QED
    BY <1>1, <1>2, <1>3

\* A task that is posted comes last among those of its thread, and leaves the
\* tasks of the others alone.
LEMMA FromAppend ==
  ASSUME NEW f, NEW P, NEW s \in Seq(P), NEW e \in P
  PROVE  From(f, Append(s, e)) = Extended(From(f, s), f, e)
  <1> DEFINE l == Len(s)
             r == Append(s, e)
  <1>1. l \in Nat /\ r \in Seq(P) /\ Len(r) = l + 1
    OBVIOUS
  <1>2. PICK g : Selects(g, f, s) /\ From(f, s) = g[l]
    BY SelectsExists, FromIsLast
  <1>3. PICK h : Selects(h, f, r) /\ h[l + 1] = Extended(g[l], f, e)
    BY <1>2, SelectsExtends
  <1>4. PICK k : Selects(k, f, r) /\ From(f, r) = k[l + 1]
    <2> HIDE DEF r
    <2>1. \E k : Selects(k, f, r) /\ From(f, r) = k[Len(r)]
      BY <1>1, SelectsExists, FromIsLast
    <2> QED
      BY <2>1, <1>1
  <1> HIDE DEF r
  <1>5. k[l + 1] = h[l + 1]
    <2>1. \A n \in 0 .. Len(r) : k[n] = h[n]
      BY <1>1, <1>3, <1>4, SelectsUnique
    <2> QED
      BY <2>1, <1>1
  <1> QED
    BY <1>2, <1>3, <1>4, <1>5 DEF r

\* Nothing is in an empty _inbound.
LEMMA FromEmpty ==
  ASSUME NEW f
  PROVE  From(f, << >>) = << >>
  <1>1. PICK s \in Seq({}) : s = << >> /\ Len(s) = 0
    <2>1. << >> \in Seq({}) /\ Len(<< >>) = 0
      OBVIOUS
    <2> QED BY <2>1
  <1>2. PICK g : Selects(g, f, s) /\ From(f, s) = g[Len(s)]
    BY SelectsExists, FromIsLast
  <1>3. Steps(g, f, s)
    BY <1>2, SelectsValues
  <1> QED
    BY <1>1, <1>2, <1>3 DEF Steps

----------------------------------------------------------------------------
(***************************************************************************)
(* The inductive invariant.  That no task in _inbound comes from the shard *)
(* it is for is what lets WaitingFrom tell the two ways of posting apart.  *)
(***************************************************************************)

\* The numbers that tasks are given.
Numbers == 1 .. MaxPosts

\* FromAppend, for a task k that thread a posts.
LEMMA FromPosted ==
  ASSUME NEW f, NEW r \in Seq(Shards \X Numbers), NEW a \in Shards, NEW k \in Numbers
  PROVE  /\ From(f, r) \in Seq(Numbers)
         /\ From(f, Append(r, <<a, k>>)) =
              IF a = f THEN Append(From(f, r), k) ELSE From(f, r)
  <1>1. PICK e \in Shards \X Numbers : e = <<a, k>> /\ e[1] = a /\ e[2] = k
    <2>1. <<a, k>> \in Shards \X Numbers
      OBVIOUS
    <2> QED BY <2>1
  <1> HIDE DEF Numbers
  <1>2. From(f, r) \in Seq(Numbers)
    BY FromType
  <1>3. From(f, Append(r, e)) = Extended(From(f, r), f, e)
    BY FromAppend
  <1> QED
    BY <1>1, <1>2, <1>3 DEF Extended

\* The first task of _inbound is the first of its thread; without it, its
\* thread has one task less and the others have theirs.
LEMMA FromTail ==
  ASSUME NEW f, NEW s \in Seq(Shards \X Numbers), s # << >>
  PROVE  /\ From(f, Tail(s)) \in Seq(Numbers)
         /\ Head(s)[1] = f => From(f, s) = <<Head(s)[2]>> \o From(f, Tail(s))
         /\ Head(s)[1] # f => From(f, s) = From(f, Tail(s))
  <1> DEFINE l == Len(s)
             r == Tail(s)
             first == IF Head(s)[1] = f THEN <<Head(s)[2]>> ELSE << >>
  <1>1. /\ l \in Nat /\ l >= 1
        /\ r \in Seq(Shards \X Numbers) /\ Len(r) = l - 1
        /\ Head(s) = s[1] /\ Head(s) \in Shards \X Numbers
        /\ \A i \in 1 .. l - 1 : r[i] = s[i + 1]
    OBVIOUS
  <1>2. first \in Seq(Numbers)
    BY <1>1
  <1>3. PICK g : Selects(g, f, s) /\ From(f, s) = g[l]
    BY SelectsExists, FromIsLast
  <1>4. PICK h : Selects(h, f, r) /\ From(f, r) = h[Len(r)]
    <2> HIDE DEF r
    <2> QED
      BY <1>1, SelectsExists, FromIsLast
  <1>5. \A n \in 0 .. l - 1 : h[n] \in Seq(Numbers)
    <2> HIDE DEF r
    <2>1. \A n \in 0 .. Len(r) : h[n] \in Seq(Numbers)
      BY <1>1, <1>4, SelectsType
    <2> QED
      BY <2>1, <1>1
  <1>6. /\ g[0] = << >>
        /\ \A n \in 1 .. l :
             g[n] = IF s[n][1] = f THEN Append(g[n - 1], s[n][2]) ELSE g[n - 1]
    BY <1>3, SelectsValues DEF Steps
  <1>7. /\ h[0] = << >>
        /\ \A n \in 1 .. Len(r) :
             h[n] = IF r[n][1] = f THEN Append(h[n - 1], r[n][2]) ELSE h[n - 1]
    <2> HIDE DEF r
    <2> QED
      BY <1>1, <1>4, SelectsValues DEF Steps
  <1>8. ASSUME NEW n \in 1 .. l - 1
        PROVE  h[n] = IF s[n + 1][1] = f THEN Append(h[n - 1], s[n + 1][2]) ELSE h[n - 1]
    <2> HIDE DEF r
    <2>1. n \in 1 .. Len(r) /\ r[n] = s[n + 1]
      BY <1>1
    <2> QED
      BY <2>1, <1>7
  <1> HIDE DEF r, first
  <1>9. \A n \in 0 .. l - 1 : g[n + 1] = first \o h[n]
    <2> DEFINE T == {n \in 0 .. l - 1 : g[n + 1] # first \o h[n]}
    <2>1. SUFFICES ASSUME T # {} PROVE FALSE
      OBVIOUS
    <2>2. T \subseteq Nat
      BY <1>1
    <2>3. PICK m \in T : \A n \in T : m <= n
      <3> HIDE DEF T
      <3> QED BY <2>1, <2>2, LeastLength
    <2>4. m \in 0 .. l - 1 /\ g[m + 1] # first \o h[m]
      BY <2>3
    <2>5. CASE m = 0
      <3>1. g[1] = IF s[1][1] = f THEN Append(g[0], s[1][2]) ELSE g[0]
        <4>1. 1 \in 1 .. l /\ 1 - 1 = 0
          BY <1>1
        <4> HIDE DEF T, l
        <4> QED
          BY <4>1, <1>6
      <3>2. g[1] = first
        <4>1. g[0] = << >> /\ Head(s) = s[1]
          BY <1>1, <1>6
        <4>2. CASE s[1][1] = f
          BY <4>1, <4>2, <3>1 DEF first
        <4>3. CASE s[1][1] # f
          BY <4>1, <4>3, <3>1 DEF first
        <4> QED BY <4>2, <4>3
      <3>3. first \o h[0] = first
        BY <1>2, <1>7
      <3> QED
        BY <2>4, <2>5, <3>2, <3>3
    <2>6. CASE m # 0
      <3>1. m \in 1 .. l - 1 /\ m + 1 \in 1 .. l /\ (m + 1) - 1 = m
        BY <1>1, <2>4, <2>6
      <3>2. m - 1 \notin T /\ m - 1 \in 0 .. l - 1 /\ (m - 1) + 1 = m
        <4> HIDE DEF T
        <4> QED BY <2>2, <2>3, <3>1, <1>1
      <3>3. g[m] = first \o h[m - 1]
        BY <3>2
      <3>4. g[m + 1] = IF s[m + 1][1] = f THEN Append(g[m], s[m + 1][2]) ELSE g[m]
        BY <3>1, <1>6
      <3>5. h[m] = IF s[m + 1][1] = f THEN Append(h[m - 1], s[m + 1][2]) ELSE h[m - 1]
        BY <3>1, <1>8
      <3>6. h[m - 1] \in Seq(Numbers) /\ s[m + 1][2] \in Numbers
        <4>1. s[m + 1] \in Shards \X Numbers
          BY <3>1
        <4> QED
          BY <4>1, <3>2, <1>5
      <3>7. PICK a \in Seq(Numbers), x \in Numbers : a = h[m - 1] /\ x = s[m + 1][2]
        BY <3>6
      <3>8. first \o Append(a, x) = Append(first \o a, x)
        BY <1>2, SMTT(30)
      <3> QED
        BY <2>4, <3>3, <3>4, <3>5, <3>7, <3>8
    <2> QED
      BY <2>5, <2>6
  <1>10. g[l] = first \o h[l - 1] /\ h[l - 1] \in Seq(Numbers)
    <2>1. l - 1 \in 0 .. l - 1 /\ (l - 1) + 1 = l
      BY <1>1
    <2> QED
      BY <2>1, <1>9, <1>5
  <1>11. From(f, s) = first \o From(f, r) /\ From(f, r) \in Seq(Numbers)
    BY <1>1, <1>3, <1>4, <1>10
  <1> QED
    BY <1>11 DEF first, r

\* q, d and i are a task queue, deferred tasks and _inbound, per shard.
Well(q, d, i) ==
  /\ q \in [Shards -> Seq(Numbers)]
  /\ d \in [Shards -> Seq(Numbers)]
  /\ i \in [Shards -> Seq(Shards \X Numbers)]
  /\ \A s \in Shards : i[s] \in Seq((Shards \ {s}) \X Numbers)

IInv ==
  /\ Well(queue, deferred, inbound)
 
  /\ current \in [Shards -> Nat]

\* WaitingFrom of such q, d and i.
Waits(f, t, q, d, i) == IF f = t THEN q[t] \o d[t] ELSE From(f, i[t])

\* What may be posted: nothing, or one task.
Batches == {<< >>} \cup {<<k>> : k \in Numbers}

\* Thread s has posted x to shard u; before, q was queue and i was inbound.
Adds(s, u, x, q, i) ==
  \A f, t \in Shards :
    Waits(f, t, q, deferred', inbound') =
      IF f = s /\ t = u THEN Waits(f, t, q, deferred, i) \o x
      ELSE Waits(f, t, q, deferred, i)

\* What waits is a sequence of tasks.
LEMMA WaitsType ==
  ASSUME NEW q, NEW d, NEW i, Well(q, d, i), NEW f \in Shards, NEW t \in Shards
  PROVE  Waits(f, t, q, d, i) \in Seq(Numbers)
  <1>1. CASE f = t
    <2>1. q[t] \in Seq(Numbers) /\ d[t] \in Seq(Numbers)
      BY DEF Well
    <2> QED
      BY <1>1, <2>1 DEF Waits
  <1>2. CASE f # t
    <2>1. i[t] \in Seq(Shards \X Numbers)
      BY DEF Well
    <2>2. From(f, i[t]) \in Seq(Numbers)
      BY <2>1, FromType
    <2> QED
      BY <1>2, <2>2 DEF Waits
  <1> QED BY <1>1, <1>2

\* NoPost leaves everything as it was.
LEMMA NoPostAdds ==
  ASSUME NEW q, NEW i, Well(q, deferred, i), NoPost(i), NEW s \in Shards
  PROVE  /\ Well(q, deferred', inbound')
         /\ \E u \in Shards, x \in Batches : Adds(s, u, x, q, i)
  <1>1. deferred' = deferred /\ inbound' = i
    BY DEF NoPost
  <1>2. << >> \in Batches
    BY DEF Batches
  <1>3. Adds(s, s, << >>, q, i)
    <2>1. SUFFICES ASSUME NEW f \in Shards, NEW t \in Shards
                   PROVE  Waits(f, t, q, deferred, i) = Waits(f, t, q, deferred, i) \o << >>
      BY <1>1 DEF Adds
    <2>2. Waits(f, t, q, deferred, i) \in Seq(Numbers)
      BY WaitsType
    <2> QED
      BY <2>2
  <1> QED
    BY <1>1, <1>2, <1>3

\* post puts one task behind those that its thread posted before, or loses it.
LEMMA PostAdds ==
  ASSUME NEW q, NEW i, Well(q, deferred, i),
         NEW s \in Shards, NEW u \in Shards, Post(s, u, i)
  PROVE  /\ Well(q, deferred', inbound')
         /\ \E x \in Batches : Adds(s, u, x, q, i)
  <1>1. PICK k \in Numbers :
          \/ /\ u = s
             /\ deferred' = [deferred EXCEPT ![s] = Append(@, k)]
             /\ inbound' = i
          \/ /\ u # s
             /\ inbound' = IF phase[u] = "gone" THEN i
                           ELSE [i EXCEPT ![u] = Append(@, <<s, k>>)]
             /\ UNCHANGED deferred
    BY DEF Post, Numbers
  <1>2. k \in Numbers
    BY <1>1
  <1>3. << >> \in Batches /\ <<k>> \in Batches
    BY <1>2 DEF Batches
  <1>4. CASE u = s
    <2>1. /\ deferred' = [deferred EXCEPT ![s] = Append(@, k)]
          /\ inbound' = i
      BY <1>1, <1>4
    <2>2. deferred \in [Shards -> Seq(Numbers)]
      BY DEF Well
    <2>3. /\ deferred'[s] = Append(deferred[s], k)
          /\ \A t \in Shards : t # s => deferred'[t] = deferred[t]
          /\ deferred' \in [Shards -> Seq(Numbers)]
      BY <1>2, <2>1, <2>2
    <2>4. Well(q, deferred', inbound')
      BY <2>1, <2>3 DEF Well
    <2>5. Adds(s, u, <<k>>, q, i)
      <3>1. ASSUME NEW f \in Shards, NEW t \in Shards
            PROVE  Waits(f, t, q, deferred', inbound') =
                     IF f = s /\ t = u THEN Waits(f, t, q, deferred, i) \o <<k>>
                     ELSE Waits(f, t, q, deferred, i)
        <4>1. CASE f = t /\ t = s
          <5>1. q[s] \in Seq(Numbers) /\ deferred[s] \in Seq(Numbers)
            BY DEF Well
          <5>2. q[s] \o Append(deferred[s], k) = (q[s] \o deferred[s]) \o <<k>>
            <6>1. PICK a \in Seq(Numbers), b \in Seq(Numbers) : a = q[s] /\ b = deferred[s]
              BY <5>1
            <6>2. a \o Append(b, k) = (a \o b) \o <<k>>
              BY <1>2
            <6> QED
              BY <6>1, <6>2
          <5> QED
            BY <4>1, <5>2, <2>3, <1>4 DEF Waits
        <4>2. CASE f # t
          BY <4>2, <2>1, <1>4 DEF Waits
        <4>3. CASE f = t /\ t # s
          BY <4>3, <2>3, <1>4 DEF Waits
        <4> QED
          BY <4>1, <4>2, <4>3
      <3> QED
        BY <3>1 DEF Adds
    <2> QED
      BY <1>2, <1>3, <2>4, <2>5
  <1>5. CASE u # s /\ phase[u] = "gone"
    <2>1. deferred' = deferred /\ inbound' = i
      BY <1>1, <1>5
    <2>2. Adds(s, u, << >>, q, i)
      <3>1. ASSUME NEW f \in Shards, NEW t \in Shards
            PROVE  Waits(f, t, q, deferred, i) = Waits(f, t, q, deferred, i) \o << >>
        <4>1. Waits(f, t, q, deferred, i) \in Seq(Numbers)
          BY WaitsType
        <4> QED
          BY <4>1
      <3> QED
        BY <2>1, <3>1 DEF Adds
    <2> QED
      BY <1>2, <1>3, <2>1, <2>2
  <1>6. CASE u # s /\ phase[u] # "gone"
    <2>1. /\ deferred' = deferred
          /\ inbound' = [i EXCEPT ![u] = Append(@, <<s, k>>)]
      BY <1>1, <1>6
    <2>2. i \in [Shards -> Seq(Shards \X Numbers)] /\ i[u] \in Seq((Shards \ {u}) \X Numbers)
      BY DEF Well
    <2>3. <<s, k>> \in (Shards \ {u}) \X Numbers /\ <<s, k>> \in Shards \X Numbers
      BY <1>2, <1>6
    <2>4. /\ inbound'[u] = Append(i[u], <<s, k>>)
          /\ \A t \in Shards : t # u => inbound'[t] = i[t]
          /\ inbound' \in [Shards -> Seq(Shards \X Numbers)]
      BY <2>1, <2>2, <2>3
    <2>5. Append(i[u], <<s, k>>) \in Seq((Shards \ {u}) \X Numbers)
      BY <2>2, <2>3
    <2>6. Well(q, deferred', inbound')
      BY <2>1, <2>4, <2>5 DEF Well
    <2>7. Adds(s, u, <<k>>, q, i)
      <3>1. ASSUME NEW f \in Shards, NEW t \in Shards
            PROVE  Waits(f, t, q, deferred', inbound') =
                     IF f = s /\ t = u THEN Waits(f, t, q, deferred, i) \o <<k>>
                     ELSE Waits(f, t, q, deferred, i)
        <4>1. CASE f = t
          BY <4>1, <2>1, <1>6 DEF Waits
        <4>2. CASE f # t /\ t # u
          BY <4>2, <2>4 DEF Waits
        <4>3. CASE f # t /\ t = u
          <5>1. i[u] \in Seq(Shards \X Numbers)
            BY <2>2
          <5>2. /\ From(f, i[u]) \in Seq(Numbers)
                /\ From(f, Append(i[u], <<s, k>>)) =
                     IF s = f THEN Append(From(f, i[u]), k) ELSE From(f, i[u])
            <6>1. PICK r \in Seq(Shards \X Numbers) : r = i[u]
              BY <5>1
            <6>2. /\ From(f, r) \in Seq(Numbers)
                  /\ From(f, Append(r, <<s, k>>)) =
                       IF s = f THEN Append(From(f, r), k) ELSE From(f, r)
              BY <1>2, FromPosted
            <6> QED
              BY <6>1, <6>2
          <5>3. Append(From(f, i[u]), k) = From(f, i[u]) \o <<k>>
            BY <5>2, <1>2
          <5>4. Waits(f, t, q, deferred', inbound') = From(f, Append(i[u], <<s, k>>))
            BY <4>3, <2>4 DEF Waits
          <5>5. Waits(f, t, q, deferred, i) = From(f, i[u])
            BY <4>3 DEF Waits
          <5> QED
            BY <4>3, <5>2, <5>3, <5>4, <5>5
        <4> QED
          BY <4>1, <4>2, <4>3
      <3> QED
        BY <3>1 DEF Adds
    <2> QED
      BY <1>2, <1>3, <2>6, <2>7
  <1> QED
    BY <1>4, <1>5, <1>6

----------------------------------------------------------------------------
(***************************************************************************)
(* The tables of the executor: per posting and running shard, what waits.  *)
(***************************************************************************)

Tables == [Shards -> [Shards -> Seq(Numbers)]]

Table(q, d, i) == [f \in Shards |-> [t \in Shards |-> Waits(f, t, q, d, i)]]

\* Tables Q and M differ in one entry, which is v in M.
Differ(Q, M, g, s, v) ==
  \A f, t \in Shards : M[f][t] = IF f = g /\ t = s THEN v ELSE Q[f][t]

Changed(Q, g, s, v) == [Q EXCEPT ![g][s] = v]

\* What a task that thread g posted to s leaves, when it posts x to u.
Ran(Q, g, s, u, x) ==
  LET rest == [Q EXCEPT ![g][s] = Tail(@)]
  IN  [rest EXCEPT ![s][u] = @ \o x]

\* The table of the program's queues.
LEMMA TableType ==
  ASSUME NEW q, NEW d, NEW i, Well(q, d, i)
  PROVE  /\ Table(q, d, i) \in Tables
         /\ \A f, t \in Shards : Table(q, d, i)[f][t] = Waits(f, t, q, d, i)
  <1>1. \A f, t \in Shards : Waits(f, t, q, d, i) \in Seq(Numbers)
    BY WaitsType
  <1> QED
    BY <1>1 DEF Table, Tables

\* A table that differs in one entry is an update of it.
LEMMA DifferChanged ==
  ASSUME NEW Q \in Tables, NEW M \in Tables, NEW g \in Shards, NEW s \in Shards, NEW v,
         Differ(Q, M, g, s, v)
  PROVE  M = Changed(Q, g, s, v)
  <1>1. M[g] = [Q[g] EXCEPT ![s] = v]
    BY DEF Differ, Tables
  <1>2. ASSUME NEW f \in Shards, f # g PROVE M[f] = Q[f]
    <2>1. M[f] \in [Shards -> Seq(Numbers)] /\ Q[f] \in [Shards -> Seq(Numbers)]
      BY DEF Tables
    <2>2. \A t \in Shards : M[f][t] = Q[f][t]
      BY <1>2 DEF Differ
    <2> QED
      BY <2>1, <2>2
  <1>3. M = [Q EXCEPT ![g] = [Q[g] EXCEPT ![s] = v]]
    BY <1>1, <1>2 DEF Tables
  <1> QED
    BY <1>3 DEF Changed

\* A task is taken, then one is posted.
LEMMA DifferRan ==
  ASSUME NEW Q \in Tables, NEW M \in Tables, NEW R \in Tables,
         NEW g \in Shards, NEW s \in Shards, NEW u \in Shards, NEW x,
         Differ(Q, M, g, s, Tail(Q[g][s])), Differ(M, R, s, u, M[s][u] \o x)
  PROVE  R = Ran(Q, g, s, u, x)
  <1>1. PICK v, w : v = Tail(Q[g][s]) /\ w = M[s][u] \o x
    OBVIOUS
  <1>2. M = Changed(Q, g, s, v)
    BY <1>1, DifferChanged
  <1>3. R = Changed(M, s, u, w)
    BY <1>1, DifferChanged
  <1> QED
    BY <1>1, <1>2, <1>3 DEF Changed, Ran

\* What a step posts, in terms of the tables.
LEMMA AddsDiffer ==
  ASSUME NEW q, NEW i, Well(q, deferred, i), Well(q, deferred', inbound'),
         NEW s \in Shards, NEW u \in Shards, NEW x, Adds(s, u, x, q, i)
  PROVE  LET M == Table(q, deferred, i)
             R == Table(q, deferred', inbound')
         IN  /\ M \in Tables /\ R \in Tables
             /\ Differ(M, R, s, u, M[s][u] \o x)
  <1> DEFINE M == Table(q, deferred, i)
             R == Table(q, deferred', inbound')
  <1>1. M \in Tables /\ \A f, t \in Shards : M[f][t] = Waits(f, t, q, deferred, i)
    BY TableType
  <1>2. R \in Tables /\ \A f, t \in Shards : R[f][t] = Waits(f, t, q, deferred', inbound')
    BY TableType
  <1> HIDE DEF M, R
  <1>3. Differ(M, R, s, u, M[s][u] \o x)
    <2>1. ASSUME NEW f \in Shards, NEW t \in Shards
          PROVE  R[f][t] = IF f = s /\ t = u THEN M[s][u] \o x ELSE M[f][t]
      <3>1. Waits(f, t, q, deferred', inbound') =
              IF f = s /\ t = u THEN Waits(f, t, q, deferred, i) \o x
              ELSE Waits(f, t, q, deferred, i)
        BY DEF Adds
      <3>2. CASE f = s /\ t = u
        BY <3>1, <3>2, <1>1, <1>2
      <3>3. CASE ~(f = s /\ t = u)
        BY <3>1, <3>3, <1>1, <1>2
      <3> QED BY <3>2, <3>3
    <2> QED
      BY <2>1 DEF Differ
  <1> QED
    BY <1>1, <1>2, <1>3 DEF M, R

----------------------------------------------------------------------------
(***************************************************************************)
(* The steps of the executor.                                              *)
(***************************************************************************)

\* _initiate_shutdown posts at most one task.
LEMMA ShutdownAdds ==
  ASSUME NEW q, NEW i, Well(q, deferred, i), NEW s \in Shards,
         InitiateShutdown(s, i)
  PROVE  /\ Well(q, deferred', inbound')
         /\ \E u \in Shards, x \in Batches : Adds(s, u, x, q, i)
  <1>1. CASE NoPost(i)
    BY <1>1, NoPostAdds
  <1>2. CASE Post(s, Main, i)
    <2>1. Main \in Shards
      BY ShardAssumption
    <2> QED
      BY <1>2, <2>1, PostAdds
  <1> QED
    BY <1>1, <1>2 DEF InitiateShutdown

\* A task posts at most one task.
LEMMA BodyAdds ==
  ASSUME NEW q, NEW i, Well(q, deferred, i), NEW s \in Shards, NEW next,
         TaskBody(s, i, next)
  PROVE  /\ Well(q, deferred', inbound')
         /\ \E u \in Shards, x \in Batches : Adds(s, u, x, q, i)
  <1>1. CASE \E t \in Shards : Post(s, t, i)
    <2>1. PICK t \in Shards : Post(s, t, i)
      BY <1>1
    <2> QED
      BY <2>1, PostAdds
  <1>2. CASE NoPost(i)
    BY <1>2, NoPostAdds
  <1>3. CASE InitiateShutdown(s, i)
    BY <1>3, ShutdownAdds
  <1> QED
    BY <1>1, <1>2, <1>3 DEF TaskBody

\* The executor's queue is the table of the program's queues.
LEMMA TableOfState ==
  /\ [f \in Shards |-> [t \in Shards |-> WaitingFrom(f, t)]] = Table(queue, deferred, inbound)
  /\ [f \in Shards |-> [t \in Shards |-> WaitingFrom(f, t)]]' = Table(queue', deferred', inbound')
  BY DEF Table, Waits, WaitingFrom

\* A step that only posts.
LEMMA PostStep ==
  ASSUME Well(queue, deferred, inbound), Well(queue, deferred', inbound'),
         queue' = queue, current' = current,
         NEW s \in Shards, NEW u \in Shards, NEW x \in Batches,
         Adds(s, u, x, queue, inbound)
  PROVE  Abstract!Post(s, u) \/ UNCHANGED Abstract!vars
  <1> DEFINE M == Table(queue, deferred, inbound)
             R == Table(queue, deferred', inbound')
  <1>1. PICK q, i : q = queue /\ i = inbound
    OBVIOUS
  <1>2. M \in Tables /\ R \in Tables /\ Differ(M, R, s, u, M[s][u] \o x)
    <2>1. Well(q, deferred, i) /\ Well(q, deferred', inbound') /\ Adds(s, u, x, q, i)
      BY <1>1
    <2> QED
      BY <2>1, <1>1, AddsDiffer
  <1>3. M[s][u] \in Seq(Numbers)
    <2> HIDE DEF M
    <2> QED BY <1>2 DEF Tables
  <1>4. /\ [f \in Shards |-> [t \in Shards |-> WaitingFrom(f, t)]] = M
        /\ [f \in Shards |-> [t \in Shards |-> WaitingFrom(f, t)]]' = R
    BY TableOfState
  <1> HIDE DEF M, R
  <1>5. PICK a, b : a = M /\ b = R
    OBVIOUS
  <1>6. PICK v : v = a[s][u] \o x
    OBVIOUS
  <1>7. b = Changed(a, s, u, v)
    BY <1>2, <1>5, <1>6, DifferChanged
  <1>8. CASE x = << >>
    <2>1. v = a[s][u]
      BY <1>3, <1>5, <1>6, <1>8
    <2>2. a \in [Shards -> [Shards -> Seq(Numbers)]]
      BY <1>2, <1>5 DEF Tables
    <2>3. b = a
      BY <1>7, <2>1, <2>2 DEF Changed
    <2> QED
      BY <2>3, <1>4, <1>5 DEF Abstract!vars
  <1>9. CASE x # << >>
    <2>1. PICK k \in Numbers : x = <<k>>
      BY <1>9 DEF Batches
    <2>2. v = Append(a[s][u], k)
      BY <1>3, <1>5, <1>6, <2>1
    <2>3. b = [a EXCEPT ![s][u] = Append(@, k)]
      BY <1>7, <2>2 DEF Changed
    <2> QED
      BY <2>3, <1>4, <1>5 DEF Abstract!Post, Numbers
  <1> QED
    BY <1>8, <1>9, SeqEqual

\* A step that takes the oldest task that g posted to s, and may post one.
LEMMA RunStep ==
  ASSUME Well(queue, deferred, inbound), NEW q, NEW i, Well(q, deferred, i),
         Well(q, deferred', inbound'), queue' = q,
         NEW g \in Shards, NEW s \in Shards, NEW u \in Shards, NEW x \in Batches,
         Adds(s, u, x, q, i),
         Waits(g, s, queue, deferred, inbound) # << >>,
         Differ(Table(queue, deferred, inbound), Table(q, deferred, i), g, s,
                Tail(Waits(g, s, queue, deferred, inbound))),
         current' = [current EXCEPT ![s] = Head(Waits(g, s, queue, deferred, inbound))]
  PROVE  Abstract!Run(g, s)
  <1> DEFINE M == Table(q, deferred, i)
             R == Table(q, deferred', inbound')
  <1>1. M \in Tables /\ R \in Tables /\ Differ(M, R, s, u, M[s][u] \o x)
    BY AddsDiffer
  <1>2. PICK a : a = Table(queue, deferred, inbound)
    OBVIOUS
  <1>3. a \in Tables /\ a[g][s] = Waits(g, s, queue, deferred, inbound)
    <2>1. PICK q0, d0, i0 : q0 = queue /\ d0 = deferred /\ i0 = inbound
      OBVIOUS
    <2>2. Well(q0, d0, i0)
      BY <2>1
    <2>3. /\ Table(q0, d0, i0) \in Tables
          /\ Table(q0, d0, i0)[g][s] = Waits(g, s, q0, d0, i0)
      BY <2>2, TableType
    <2> QED
      BY <2>1, <2>3, <1>2
  <1>4. Differ(a, M, g, s, Tail(a[g][s]))
    BY <1>2, <1>3
  <1>5. /\ [f \in Shards |-> [t \in Shards |-> WaitingFrom(f, t)]] = a
        /\ [f \in Shards |-> [t \in Shards |-> WaitingFrom(f, t)]]' = R
    BY <1>2, TableOfState
  <1> HIDE DEF M, R
  <1>6. PICK m, b : m = M /\ b = R
    OBVIOUS
  <1>7. b = Ran(a, g, s, u, x)
    BY <1>1, <1>3, <1>4, <1>6, DifferRan
  <1>8. /\ a[g][s] # << >>
        /\ current' = [current EXCEPT ![s] = Head(a[g][s])]
    BY <1>3
  <1>9. x \in {<< >>} \cup {<<k>> : k \in 1 .. MaxPosts}
    BY DEF Batches, Numbers
  <1>10. Abstract!After(g, s, u, x) = Ran(a, g, s, u, x)
    BY <1>5 DEF Abstract!After, Ran
  <1>11. [f \in Shards |-> [t \in Shards |-> WaitingFrom(f, t)]]' = Abstract!After(g, s, u, x)
    BY <1>5, <1>6, <1>7, <1>10
  <1> QED
    BY <1>5, <1>8, <1>9, <1>11 DEF Abstract!Run

\* Two states that hold the same but for what g posted to s.
LEMMA TablesDiffer ==
  ASSUME NEW q1, NEW d1, NEW i1, Well(q1, d1, i1), NEW q2, NEW d2, NEW i2, Well(q2, d2, i2),
         NEW g \in Shards, NEW s \in Shards,
         \A f, t \in Shards : ~(f = g /\ t = s) => Waits(f, t, q2, d2, i2) = Waits(f, t, q1, d1, i1)
  PROVE  Differ(Table(q1, d1, i1), Table(q2, d2, i2), g, s, Waits(g, s, q2, d2, i2))
  <1> DEFINE Q == Table(q1, d1, i1)
             M == Table(q2, d2, i2)
  <1>1. \A f, t \in Shards : Q[f][t] = Waits(f, t, q1, d1, i1)
    BY TableType
  <1>2. \A f, t \in Shards : M[f][t] = Waits(f, t, q2, d2, i2)
    BY TableType
  <1> HIDE DEF Q, M
  <1>3. ASSUME NEW f \in Shards, NEW t \in Shards
        PROVE  M[f][t] = IF f = g /\ t = s THEN Waits(g, s, q2, d2, i2) ELSE Q[f][t]
    <2>1. CASE f = g /\ t = s
      BY <2>1, <1>2
    <2>2. CASE ~(f = g /\ t = s)
      <3>1. Waits(f, t, q2, d2, i2) = Waits(f, t, q1, d1, i1)
        BY <2>2
      <3> QED
        BY <2>2, <3>1, <1>1, <1>2
    <2> QED BY <2>1, <2>2
  <1>4. Differ(Q, M, g, s, Waits(g, s, q2, d2, i2))
    BY <1>3 DEF Differ
  <1> QED
    BY <1>4 DEF Q, M

\* The first of two queues in a row gives the first element.
LEMMA TakeConcat ==
  ASSUME NEW a \in Seq(Numbers), NEW b \in Seq(Numbers), a # << >>
  PROVE  /\ Tail(a) \in Seq(Numbers)
         /\ a \o b # << >>
         /\ Head(a \o b) = Head(a)
         /\ Tail(a \o b) = Tail(a) \o b
  <1>1. PICK r \in Seq(Numbers), c \in Seq(Numbers), e \in Seq(Numbers) :
          r = Tail(a) /\ c = a \o b /\ e = r \o b
    <2>1. PICK r \in Seq(Numbers) : r = Tail(a)
      BY HeadTailProperties
    <2>2. a \o b \in Seq(Numbers) /\ r \o b \in Seq(Numbers)
      BY ConcatProperties
    <2> QED
      BY <2>1, <2>2
  <1>2. /\ Len(a) \in Nat /\ Len(a) >= 1 /\ Len(b) \in Nat
        /\ Len(r) = Len(a) - 1
        /\ \A n \in 1 .. Len(a) - 1 : r[n] = a[n + 1]
    BY <1>1
  <1>3. /\ Len(c) = Len(a) + Len(b)
        /\ \A n \in 1 .. Len(a) : c[n] = a[n]
        /\ \A n \in 1 .. Len(b) : c[Len(a) + n] = b[n]
    BY <1>1
  <1>4. /\ Len(e) = Len(r) + Len(b)
        /\ \A n \in 1 .. Len(r) : e[n] = r[n]
        /\ \A n \in 1 .. Len(b) : e[Len(r) + n] = b[n]
    BY <1>1
  <1>5. c # << >> /\ Head(c) = Head(a)
    BY <1>2, <1>3
  <1>6. PICK h \in Seq(Numbers) : h = Tail(c)
    BY <1>5, HeadTailProperties
  <1>7. Len(h) = Len(c) - 1 /\ \A n \in 1 .. Len(c) - 1 : h[n] = c[n + 1]
    BY <1>5, <1>6
  <1>8. ASSUME NEW n \in 1 .. Len(h) PROVE h[n] = e[n]
    <2>1. CASE n \in 1 .. Len(r)
      BY <2>1, <1>2, <1>3, <1>4, <1>7
    <2>2. CASE n > Len(r)
      <3>1. PICK m \in 1 .. Len(b) : m = n - Len(r)
        <4>1. n - Len(r) \in 1 .. Len(b)
          BY <2>2, <1>2, <1>3, <1>7
        <4> QED BY <4>1
      <3>2. n = Len(r) + m /\ n + 1 = Len(a) + m
        BY <3>1, <1>2
      <3>3. h[n] = c[n + 1]
        BY <1>7
      <3>4. c[Len(a) + m] = b[m] /\ e[Len(r) + m] = b[m]
        BY <3>1, <1>3, <1>4
      <3> QED
        BY <3>2, <3>3, <3>4
    <2> QED
      BY <2>1, <2>2, <1>2, <1>3, <1>7
  <1>9. Len(h) = Len(e)
    BY <1>2, <1>3, <1>4, <1>7
  <1>10. h = e
    BY <1>8, <1>9, SeqEqual
  <1> QED
    BY <1>1, <1>5, <1>6, <1>10

\* process_tasks takes the oldest task that the shard posted to itself.
LEMMA TaskTaken ==
  ASSUME NEW q1, NEW d, NEW i, Well(q1, d, i), NEW s \in Shards, q1[s] # << >>,
         NEW q2, q2 = [q1 EXCEPT ![s] = Tail(@)]
  PROVE  /\ Well(q2, d, i)
         /\ Waits(s, s, q1, d, i) # << >>
         /\ Head(Waits(s, s, q1, d, i)) = Head(q1[s])
         /\ Differ(Table(q1, d, i), Table(q2, d, i), s, s, Tail(Waits(s, s, q1, d, i)))
  <1>1. q1 \in [Shards -> Seq(Numbers)] /\ q1[s] \in Seq(Numbers) /\ d[s] \in Seq(Numbers)
    BY DEF Well
  <1>2. PICK a \in Seq(Numbers), b \in Seq(Numbers) : a = q1[s] /\ b = d[s] /\ a # << >>
    BY <1>1
  <1>3. /\ Tail(a) \in Seq(Numbers)
        /\ a \o b # << >>
        /\ Head(a \o b) = Head(a)
        /\ Tail(a \o b) = Tail(a) \o b
    BY <1>2, TakeConcat
  <1>4. /\ q2 \in [Shards -> Seq(Numbers)]
        /\ q2[s] = Tail(a)
        /\ \A t \in Shards : t # s => q2[t] = q1[t]
    BY <1>1, <1>2, <1>3
  <1>5. Well(q2, d, i)
    BY <1>4 DEF Well
  <1>6. Waits(s, s, q1, d, i) = a \o b /\ Waits(s, s, q2, d, i) = Tail(a) \o b
    BY <1>2, <1>4 DEF Waits
  <1>7. ASSUME NEW f \in Shards, NEW t \in Shards, ~(f = s /\ t = s)
        PROVE  Waits(f, t, q2, d, i) = Waits(f, t, q1, d, i)
    <2>1. CASE f # t
      BY <2>1 DEF Waits
    <2>2. CASE f = t /\ t # s
      BY <2>2, <1>4 DEF Waits
    <2> QED BY <1>7, <2>1, <2>2
  <1>8. Differ(Table(q1, d, i), Table(q2, d, i), s, s, Waits(s, s, q2, d, i))
    BY <1>5, <1>7, TablesDiffer
  <1> QED
    BY <1>2, <1>3, <1>5, <1>6, <1>8

\* consume_all takes the oldest task of the thread that posted it.
LEMMA InboundTaken ==
  ASSUME NEW q, NEW d, NEW i1, Well(q, d, i1), NEW s \in Shards, i1[s] # << >>,
         NEW i2, i2 = [i1 EXCEPT ![s] = Tail(@)]
  PROVE  \E g \in Shards :
           /\ Well(q, d, i2)
           /\ Waits(g, s, q, d, i1) # << >>
           /\ Head(Waits(g, s, q, d, i1)) = Head(i1[s])[2]
           /\ Differ(Table(q, d, i1), Table(q, d, i2), g, s, Tail(Waits(g, s, q, d, i1)))
  <1>1. PICK r \in Seq((Shards \ {s}) \X Numbers) :
          r = i1[s] /\ r # << >> /\ r \in Seq(Shards \X Numbers)
    BY DEF Well
  <1>2. /\ Head(r) \in (Shards \ {s}) \X Numbers
        /\ Tail(r) \in Seq((Shards \ {s}) \X Numbers)
        /\ Tail(r) \in Seq(Shards \X Numbers)
    BY <1>1
  <1>3. PICK g \in Shards, k \in Numbers : g = Head(r)[1] /\ k = Head(r)[2] /\ g # s
    BY <1>2
  <1>4. i1 \in [Shards -> Seq(Shards \X Numbers)]
    BY DEF Well
  <1>5. /\ i2 \in [Shards -> Seq(Shards \X Numbers)]
        /\ i2[s] = Tail(r)
        /\ \A t \in Shards : t # s => i2[t] = i1[t]
    BY <1>1, <1>2, <1>4
  <1>6. Well(q, d, i2)
    <2>1. \A t \in Shards : i2[t] \in Seq((Shards \ {t}) \X Numbers)
      BY <1>2, <1>5 DEF Well
    <2> QED
      BY <1>5, <2>1 DEF Well
  <1>7. ASSUME NEW f
        PROVE  /\ From(f, Tail(r)) \in Seq(Numbers)
               /\ g = f => From(f, r) = <<k>> \o From(f, Tail(r))
               /\ g # f => From(f, r) = From(f, Tail(r))
    <2>1. PICK c \in Seq(Shards \X Numbers) : c = r /\ c # << >>
      BY <1>1
    <2>2. From(f, Tail(c)) \in Seq(Numbers)
      BY <2>1, FromTail
    <2>3. Head(c)[1] = f => From(f, c) = <<Head(c)[2]>> \o From(f, Tail(c))
      BY <2>1, FromTail
    <2>4. Head(c)[1] # f => From(f, c) = From(f, Tail(c))
      BY <2>1, FromTail
    <2> QED
      BY <2>1, <2>2, <2>3, <2>4, <1>3
  <1>8. PICK rest \in Seq(Numbers) : rest = From(g, Tail(r)) /\ From(g, r) = <<k>> \o rest
    BY <1>7
  <1>9. /\ <<k>> \o rest # << >>
        /\ Head(<<k>> \o rest) = k
        /\ Tail(<<k>> \o rest) = rest
    <2>1. Len(<<k>> \o rest) = 1 + Len(rest) /\ Len(rest) \in Nat
      OBVIOUS
    <2>2. \A n \in 1 .. Len(rest) : (<<k>> \o rest)[n + 1] = rest[n]
      BY <2>1
    <2>3. <<k>> \o rest \in Seq(Numbers) /\ (<<k>> \o rest)[1] = k
      BY <2>1
    <2>4. PICK c \in Seq(Numbers) : c = <<k>> \o rest
      BY <2>3
    <2>5. /\ c # << >> /\ Head(c) = k /\ Len(Tail(c)) = Len(rest)
          /\ Tail(c) \in Seq(Numbers)
          /\ \A n \in 1 .. Len(rest) : Tail(c)[n] = rest[n]
      BY <2>1, <2>2, <2>3, <2>4
    <2>6. Tail(c) = rest
      BY <2>5
    <2> QED
      BY <2>4, <2>5, <2>6
  <1>10. Waits(g, s, q, d, i1) = <<k>> \o rest /\ Waits(g, s, q, d, i2) = rest
    BY <1>1, <1>3, <1>5, <1>8 DEF Waits
  <1>11. ASSUME NEW f \in Shards, NEW t \in Shards, ~(f = g /\ t = s)
         PROVE  Waits(f, t, q, d, i2) = Waits(f, t, q, d, i1)
    <2>1. CASE f = t
      BY <2>1 DEF Waits
    <2>2. CASE f # t /\ t # s
      BY <2>2, <1>5 DEF Waits
    <2>3. CASE f # t /\ t = s /\ f # g
      BY <2>3, <1>1, <1>5, <1>7 DEF Waits
    <2> QED BY <1>11, <2>1, <2>2, <2>3
  <1>12. Differ(Table(q, d, i1), Table(q, d, i2), g, s, Waits(g, s, q, d, i2))
    BY <1>6, <1>11, TablesDiffer
  <1>13. Head(i1[s])[2] = k
    BY <1>1, <1>3
  <1> QED
    BY <1>6, <1>9, <1>10, <1>12, <1>13

----------------------------------------------------------------------------
(***************************************************************************)
(* Every step keeps the invariant and is a step of the executor.           *)
(***************************************************************************)

Maps == IInv' /\ (Abstract!Next \/ UNCHANGED Abstract!vars)

\* The invariant after a step, from its parts.
LEMMA Preserved ==
  ASSUME Well(queue', deferred', inbound'), current' \in [Shards -> Nat]
  PROVE  IInv'
  BY DEF IInv, Well

\* A step that leaves the queues alone.
LEMMA QuietMaps ==
  ASSUME IInv, UNCHANGED <<queues, current>>
  PROVE  Maps
  <1>1. /\ queue' = queue /\ deferred' = deferred /\ inbound' = inbound
        /\ current' = current
    BY DEF queues
  <1>2. IInv'
    BY <1>1 DEF IInv, Well
  <1>3. [f \in Shards |-> [t \in Shards |-> WaitingFrom(f, t)]]' =
          [f \in Shards |-> [t \in Shards |-> WaitingFrom(f, t)]]
    BY <1>1 DEF WaitingFrom
  <1> QED
    BY <1>1, <1>2, <1>3 DEF Maps, Abstract!vars

\* A step that runs no task and posts one at most.
LEMMA PostMaps ==
  ASSUME IInv, Well(queue, deferred', inbound'),
         queue' = queue, current' = current, NEW s \in Shards,
         \E u \in Shards, x \in Batches : Adds(s, u, x, queue, inbound)
  PROVE  Maps
  <1>1. IInv'
    <2>1. current' \in [Shards -> Nat] /\ Well(queue', deferred', inbound')
      BY DEF IInv
    <2> QED
      BY <2>1, Preserved
  <1>2. PICK u \in Shards, x \in Batches : Adds(s, u, x, queue, inbound)
    OBVIOUS
  <1>3. Abstract!Post(s, u) \/ UNCHANGED Abstract!vars
    BY <1>2, PostStep DEF IInv
  <1> QED
    BY <1>1, <1>3 DEF Maps, Abstract!Next

\* bootstrap::run posts the first task.
LEMMA StartMaps ==
  ASSUME IInv, StartMain
  PROVE  Maps
  <1>1. /\ queue' = queue /\ inbound' = inbound /\ current' = current
        /\ deferred' = [deferred EXCEPT ![Main] = Append(@, 1)]
    BY DEF StartMain
  <1>2. 1 \in Numbers /\ Main \in Shards
    BY ShardAssumption DEF Numbers
  <1>3. /\ deferred \in [Shards -> Seq(Numbers)]
        /\ queue[Main] \in Seq(Numbers) /\ deferred[Main] \in Seq(Numbers)
    BY <1>2 DEF IInv, Well
  <1>4. /\ deferred' \in [Shards -> Seq(Numbers)]
        /\ deferred'[Main] = Append(deferred[Main], 1)
        /\ \A t \in Shards : t # Main => deferred'[t] = deferred[t]
    BY <1>1, <1>2, <1>3
  <1>5. Well(queue, deferred', inbound')
    BY <1>1, <1>4 DEF IInv, Well
  <1>6. Adds(Main, Main, <<1>>, queue, inbound)
    <2>1. ASSUME NEW f \in Shards, NEW t \in Shards
          PROVE  Waits(f, t, queue, deferred', inbound') =
                   IF f = Main /\ t = Main THEN Waits(f, t, queue, deferred, inbound) \o <<1>>
                   ELSE Waits(f, t, queue, deferred, inbound)
      <3>1. CASE f = Main /\ t = Main
        <4>1. PICK a \in Seq(Numbers), b \in Seq(Numbers), k \in Numbers :
                a = queue[Main] /\ b = deferred[Main] /\ k = 1
          BY <1>2, <1>3
        <4>2. a \o Append(b, k) = (a \o b) \o <<k>>
          OBVIOUS
        <4> QED
          BY <3>1, <4>1, <4>2, <1>4 DEF Waits
      <3>2. CASE f # t
        BY <3>2, <1>1 DEF Waits
      <3>3. CASE f = t /\ t # Main
        BY <3>3, <1>4 DEF Waits
      <3> QED BY <3>1, <3>2, <3>3
    <2> QED
      BY <2>1 DEF Adds
  <1>7. <<1>> \in Batches
    BY <1>2 DEF Batches
  <1> QED
    BY <1>1, <1>2, <1>5, <1>6, <1>7, PostMaps

\* The reactor's callbacks post a task, or none.
LEMMA ReactorMaps ==
  ASSUME IInv, NEW s \in Shards, PollReactor(s)
  PROVE  Maps
  <1>1. queue' = queue /\ current' = current
    BY DEF PollReactor
  <1>2. PICK q, i : q = queue /\ i = inbound
    OBVIOUS
  <1>3. Well(q, deferred, i)
    BY <1>2 DEF IInv
  <1>4. /\ Well(q, deferred', inbound')
        /\ \E u \in Shards, x \in Batches : Adds(s, u, x, q, i)
    <2>1. CASE NoPost(i)
      BY <2>1, <1>3, NoPostAdds
    <2>2. CASE \E t \in Shards : Post(s, t, i)
      <3>1. PICK t \in Shards : Post(s, t, i)
        BY <2>2
      <3> QED
        BY <3>1, <1>3, PostAdds
    <2> QED
      BY <1>2, <2>1, <2>2 DEF PollReactor
  <1> QED
    BY <1>1, <1>2, <1>4, PostMaps

\* A signal shuts everything down.
LEMMA SignalsMaps ==
  ASSUME IInv, NEW s \in Shards, PollSignals(s)
  PROVE  Maps
  <1>1. queue' = queue /\ current' = current
    BY DEF PollSignals
  <1>2. CASE InitiateShutdown(s, inbound)
    <2>1. PICK q, i : q = queue /\ i = inbound
      OBVIOUS
    <2>2. Well(q, deferred, i) /\ InitiateShutdown(s, i)
      BY <1>2, <2>1 DEF IInv
    <2>3. /\ Well(q, deferred', inbound')
          /\ \E u \in Shards, x \in Batches : Adds(s, u, x, q, i)
      BY <2>2, ShutdownAdds
    <2> QED
      BY <1>1, <2>1, <2>3, PostMaps
  <1>3. CASE UNCHANGED <<deferred, inbound>>
    BY <1>1, <1>3, QuietMaps DEF queues
  <1> QED
    BY <1>2, <1>3 DEF PollSignals

\* The deferred tasks are moved behind those in the task queue.
LEMMA DeferredMaps ==
  ASSUME IInv, NEW s \in Shards, PollDeferred(s)
  PROVE  Maps
  <1>1. /\ inbound' = inbound /\ current' = current
        /\ queue' = [queue EXCEPT ![s] = @ \o deferred[s]]
        /\ deferred' = [deferred EXCEPT ![s] = << >>]
    BY DEF PollDeferred
  <1>2. /\ queue \in [Shards -> Seq(Numbers)] /\ deferred \in [Shards -> Seq(Numbers)]
        /\ queue[s] \in Seq(Numbers) /\ deferred[s] \in Seq(Numbers)
    BY DEF IInv, Well
  <1>3. PICK a \in Seq(Numbers), b \in Seq(Numbers) : a = queue[s] /\ b = deferred[s]
    BY <1>2
  <1>4. a \o b \in Seq(Numbers) /\ (a \o b) \o << >> = a \o b /\ << >> \in Seq(Numbers)
    OBVIOUS
  <1>5. /\ queue' \in [Shards -> Seq(Numbers)] /\ deferred' \in [Shards -> Seq(Numbers)]
        /\ queue'[s] = a \o b /\ deferred'[s] = << >>
        /\ \A t \in Shards : t # s => queue'[t] = queue[t] /\ deferred'[t] = deferred[t]
    BY <1>1, <1>2, <1>3, <1>4
  <1>6. IInv'
    <2>1. Well(queue', deferred', inbound')
      BY <1>1, <1>5 DEF IInv, Well
    <2> QED
      BY <1>1, <2>1, Preserved DEF IInv
  <1>7. ASSUME NEW f \in Shards, NEW t \in Shards
        PROVE  WaitingFrom(f, t)' = WaitingFrom(f, t)
    <2>1. CASE f = t /\ t = s
      BY <2>1, <1>3, <1>4, <1>5 DEF WaitingFrom
    <2>2. CASE f = t /\ t # s
      BY <2>2, <1>5 DEF WaitingFrom
    <2>3. CASE f # t
      BY <2>3, <1>1 DEF WaitingFrom
    <2> QED BY <2>1, <2>2, <2>3
  <1>8. [f \in Shards |-> [t \in Shards |-> WaitingFrom(f, t)]]' =
          [f \in Shards |-> [t \in Shards |-> WaitingFrom(f, t)]]
    BY <1>7
  <1> QED
    BY <1>1, <1>6, <1>8 DEF Maps, Abstract!vars

\* A task from the task queue runs.
LEMMA TaskMaps ==
  ASSUME IInv, NEW s \in Shards, RunTask(s)
  PROVE  Maps
  <1>1. /\ queue[s] # << >>
        /\ queue' = [queue EXCEPT ![s] = Tail(@)]
        /\ current' = [current EXCEPT ![s] = Head(queue[s])]
        /\ TaskBody(s, inbound, "tasks")
    BY DEF RunTask
  <1>2. PICK q1, q2, d, i : q1 = queue /\ q2 = queue' /\ d = deferred /\ i = inbound
    OBVIOUS
  <1>3. Well(q1, d, i) /\ q1[s] # << >> /\ q2 = [q1 EXCEPT ![s] = Tail(@)]
    BY <1>1, <1>2 DEF IInv
  <1>4. /\ Well(q2, d, i)
        /\ Waits(s, s, q1, d, i) # << >>
        /\ Head(Waits(s, s, q1, d, i)) = Head(q1[s])
        /\ Differ(Table(q1, d, i), Table(q2, d, i), s, s, Tail(Waits(s, s, q1, d, i)))
    BY <1>3, TaskTaken
  <1>5. /\ Well(q2, deferred', inbound')
        /\ \E u \in Shards, x \in Batches : Adds(s, u, x, q2, i)
    <2>1. Well(q2, deferred, i) /\ TaskBody(s, i, "tasks")
      BY <1>1, <1>2, <1>4 DEF IInv
    <2> QED
      BY <2>1, BodyAdds
  <1>6. PICK u \in Shards, x \in Batches : Adds(s, u, x, q2, i)
    BY <1>5
  <1>7. Abstract!Run(s, s)
    <2>1. /\ Well(queue, deferred, inbound) /\ Well(q2, deferred, i) /\ queue' = q2
          /\ Waits(s, s, queue, deferred, inbound) # << >>
          /\ Differ(Table(queue, deferred, inbound), Table(q2, deferred, i), s, s,
                    Tail(Waits(s, s, queue, deferred, inbound)))
          /\ current' = [current EXCEPT ![s] = Head(Waits(s, s, queue, deferred, inbound))]
      BY <1>1, <1>2, <1>4 DEF IInv
    <2> QED
      BY <2>1, <1>5, <1>6, RunStep
  <1>8. IInv'
    <2>1. Head(queue[s]) \in Nat
      <3>1. queue[s] \in Seq(Numbers) /\ queue[s] # << >>
        BY <1>1 DEF IInv, Well
      <3>2. Head(queue[s]) \in Numbers
        BY <3>1
      <3> QED
        BY <3>2, ShardAssumption DEF Numbers
    <2>2. current' \in [Shards -> Nat]
      BY <1>1, <2>1 DEF IInv
    <2> QED
      BY <1>2, <1>5, <2>2, Preserved
  <1> QED
    BY <1>7, <1>8 DEF Maps, Abstract!Next

\* A task from _inbound runs.
LEMMA InboundMaps ==
  ASSUME IInv, NEW s \in Shards, RunInbound(s)
  PROVE  Maps
  <1>1. PICK q, d, i1, i2 : /\ q = queue /\ d = deferred /\ i1 = inbound
                            /\ i2 = [inbound EXCEPT ![s] = Tail(@)]
    OBVIOUS
  <1>2. /\ i1[s] # << >>
        /\ i2 = [i1 EXCEPT ![s] = Tail(@)]
        /\ queue' = q
        /\ current' = [current EXCEPT ![s] = Head(i1[s])[2]]
        /\ TaskBody(s, i2, "inbound")
    BY <1>1 DEF RunInbound
  <1>3. Well(q, d, i1)
    BY <1>1 DEF IInv
  <1>4. PICK g \in Shards :
          /\ Well(q, d, i2)
          /\ Waits(g, s, q, d, i1) # << >>
          /\ Head(Waits(g, s, q, d, i1)) = Head(i1[s])[2]
          /\ Differ(Table(q, d, i1), Table(q, d, i2), g, s, Tail(Waits(g, s, q, d, i1)))
    BY <1>2, <1>3, InboundTaken
  <1>5. /\ Well(q, deferred', inbound')
        /\ \E u \in Shards, x \in Batches : Adds(s, u, x, q, i2)
    <2>1. Well(q, deferred, i2)
      BY <1>1, <1>4
    <2> QED
      BY <2>1, <1>2, <1>3, BodyAdds
  <1>6. PICK u \in Shards, x \in Batches : Adds(s, u, x, q, i2)
    BY <1>5
  <1>7. Abstract!Run(g, s)
    <2>1. /\ Well(queue, deferred, inbound) /\ Well(q, deferred, i2) /\ queue' = q
          /\ Waits(g, s, queue, deferred, inbound) # << >>
          /\ Differ(Table(queue, deferred, inbound), Table(q, deferred, i2), g, s,
                    Tail(Waits(g, s, queue, deferred, inbound)))
          /\ current' = [current EXCEPT ![s] = Head(Waits(g, s, queue, deferred, inbound))]
      BY <1>1, <1>2, <1>3, <1>4
    <2> QED
      BY <2>1, <1>5, <1>6, RunStep
  <1>8. IInv'
    <2>1. Head(i1[s])[2] \in Nat
      <3>1. i1[s] \in Seq(Shards \X Numbers)
        BY <1>3 DEF Well
      <3>2. Head(i1[s]) \in Shards \X Numbers
        BY <3>1, <1>2
      <3> QED
        BY <3>2 DEF Numbers
    <2>2. current' \in [Shards -> Nat]
      BY <1>2, <2>1 DEF IInv
    <2> QED
      BY <1>2, <1>5, <2>2, Preserved
  <1> QED
    BY <1>7, <1>8 DEF Maps, Abstract!Next

\* A shard that ends forgets its tasks.
LEMMA CheckMaps ==
  ASSUME IInv, NEW s \in Shards, Check(s)
  PROVE  Maps
  <1>1. CASE UNCHANGED queues
    BY <1>1, QuietMaps DEF Check
  <1>2. CASE ~running[s]
    <2>1. /\ deferred' = [deferred EXCEPT ![s] = << >>]
          /\ queue' = [queue EXCEPT ![s] = << >>]
          /\ inbound' = [inbound EXCEPT ![s] = << >>]
          /\ current' = current
      BY <1>2 DEF Check
    <2>2. /\ queue \in [Shards -> Seq(Numbers)] /\ deferred \in [Shards -> Seq(Numbers)]
          /\ inbound \in [Shards -> Seq(Shards \X Numbers)]
      BY DEF IInv, Well
    <2>3. /\ queue'[s] = << >> /\ deferred'[s] = << >> /\ inbound'[s] = << >>
          /\ \A t \in Shards : t # s => /\ queue'[t] = queue[t]
                                        /\ deferred'[t] = deferred[t]
                                        /\ inbound'[t] = inbound[t]
      BY <2>1, <2>2
    <2>4. /\ queue' \in [Shards -> Seq(Numbers)] /\ deferred' \in [Shards -> Seq(Numbers)]
          /\ inbound' \in [Shards -> Seq(Shards \X Numbers)]
      BY <2>1, <2>2
    <2>5. \A t \in Shards : inbound'[t] \in Seq((Shards \ {t}) \X Numbers)
      <3>1. ASSUME NEW t \in Shards PROVE inbound'[t] \in Seq((Shards \ {t}) \X Numbers)
        <4>1. CASE t = s
          BY <4>1, <2>3
        <4>2. CASE t # s
          BY <4>2, <2>3 DEF IInv, Well
        <4> QED BY <4>1, <4>2
      <3> QED BY <3>1
    <2>6. IInv'
      <3>1. Well(queue', deferred', inbound')
        BY <2>4, <2>5 DEF Well
      <3> QED
        BY <2>1, <3>1, Preserved DEF IInv
    <2>7. ASSUME NEW f \in Shards, NEW t \in Shards
          PROVE  WaitingFrom(f, t)' = IF t = s THEN << >> ELSE WaitingFrom(f, t)
      <3>1. CASE t = s /\ f = t
        <4>1. << >> \o << >> = << >>
          OBVIOUS
        <4> QED
          BY <3>1, <4>1, <2>3 DEF WaitingFrom
      <3>2. CASE t = s /\ f # t
        BY <3>2, <2>3, FromEmpty DEF WaitingFrom
      <3>3. CASE t # s
        BY <3>3, <2>3 DEF WaitingFrom
      <3> QED BY <3>1, <3>2, <3>3
    <2> DEFINE Q == [f \in Shards |-> [t \in Shards |-> WaitingFrom(f, t)]]
    <2>8. ASSUME NEW f \in Shards
          PROVE  [t \in Shards |-> WaitingFrom(f, t)'] = [Q[f] EXCEPT ![s] = << >>]
      BY <2>7
    <2>9. Q' = [f \in Shards |-> [Q[f] EXCEPT ![s] = << >>]]
      BY <2>8
    <2>10. Abstract!Stop(s)
      BY <2>1, <2>9 DEF Abstract!Stop
    <2> QED
      BY <2>6, <2>10 DEF Maps, Abstract!Next
  <1> QED
    BY <1>1, <1>2 DEF Check

\* One step of a thread.
LEMMA ThreadMaps ==
  ASSUME IInv, NEW s \in Shards, Thread(s)
  PROVE  Maps
  <1>1. CASE Prepare(s) \/ PassBarrier(s) \/ Run(s) \/ TasksDone(s) \/ InboundDone(s)
    BY <1>1, QuietMaps DEF Prepare, PassBarrier, Run, TasksDone, InboundDone
  <1>2. CASE StartMain
    BY <1>2, StartMaps
  <1>3. CASE \E t \in Shards : StopShard(s, t)
    BY <1>3, QuietMaps DEF StopShard
  <1>4. CASE PollReactor(s)
    BY <1>4, ReactorMaps
  <1>5. CASE PollSignals(s)
    BY <1>5, SignalsMaps
  <1>6. CASE PollDeferred(s)
    BY <1>6, DeferredMaps
  <1>7. CASE RunTask(s)
    BY <1>7, TaskMaps
  <1>8. CASE RunInbound(s)
    BY <1>8, InboundMaps
  <1>9. CASE Check(s)
    BY <1>9, CheckMaps
  <1> QED
    BY <1>1, <1>2, <1>3, <1>4, <1>5, <1>6, <1>7, <1>8, <1>9 DEF Thread

\* What holds at the start.
LEMMA InitMaps ==
  ASSUME ShardInit
  PROVE  IInv /\ Abstract!Init
  <1>1. << >> \in Seq(Numbers) /\ << >> \in Seq(Shards \X Numbers)
    OBVIOUS
  <1>2. \A s \in Shards : << >> \in Seq((Shards \ {s}) \X Numbers)
    OBVIOUS
  <1>3. IInv
    BY <1>1, <1>2 DEF IInv, Well, ShardInit
  <1>4. ASSUME NEW f \in Shards, NEW t \in Shards PROVE WaitingFrom(f, t) = << >>
    <2>1. queue[t] = << >> /\ deferred[t] = << >> /\ inbound[t] = << >>
      BY DEF ShardInit
    <2>2. << >> \o << >> = << >>
      OBVIOUS
    <2>3. CASE f = t
      BY <2>1, <2>2, <2>3 DEF WaitingFrom
    <2>4. CASE f # t
      BY <2>1, <2>4, FromEmpty DEF WaitingFrom
    <2> QED BY <2>3, <2>4
  <1>5. [f \in Shards |-> [t \in Shards |-> WaitingFrom(f, t)]] =
          [f \in Shards |-> [t \in Shards |-> << >>]]
    BY <1>4
  <1>6. current = [s \in Shards |-> 0]
    BY DEF ShardInit
  <1> QED
    BY <1>3, <1>5, <1>6 DEF Abstract!Init

\* Any step.
LEMMA NextMaps ==
  ASSUME IInv, [ShardNext]_shardVars
  PROVE  Maps
  <1>1. CASE Signal \/ Joined \/ UNCHANGED shardVars
    BY <1>1, QuietMaps DEF Signal, Joined, shardVars, queues
  <1>2. CASE \E s \in Shards : Thread(s)
    BY <1>2, ThreadMaps
  <1> QED
    BY <1>1, <1>2 DEF ShardNext

\* The tasks that wait are numbered tasks, and none in _inbound of a shard was
\* posted by its own thread: shard::post sends those to the deferred tasks.
THEOREM Invariant == ShardSpec => []IInv
  <1>1. ShardInit => IInv
    BY InitMaps
  <1>2. IInv /\ [ShardNext]_shardVars => IInv'
    BY NextMaps DEF Maps
  <1> QED
    BY <1>1, <1>2, PTL DEF ShardSpec

\* Whatever shards there are and however many tasks are posted, the shards of
\* the program are an executor: what a thread posts to a shard runs there once
\* and in order, through the deferred tasks or through _inbound.
THEOREM RefinesExecutor == ShardSpec => ImplementsExecutor
  <1>1. ShardInit => Abstract!Init
    BY InitMaps
  <1>2. IInv /\ [ShardNext]_shardVars => [Abstract!Next]_(Abstract!vars)
    BY NextMaps DEF Maps
  <1> QED
    BY <1>1, <1>2, Invariant, PTL DEF ShardSpec, ImplementsExecutor, Abstract!Spec

----------------------------------------------------------------------------
(***************************************************************************)
(* The size classes of the memory allocator.  A size is between            *)
(* four and eight quarters of a power of two; its class is the next        *)
(* quarter.  The big numerals are kept out of the context where the        *)
(* provers do not need them.                                               *)
(***************************************************************************)

\* What the recursion of Power2 says.
Doubles(g) == g[0] = 1 /\ \A k \in 1 .. 30 : g[k] = 2 * g[k - 1]

\* Power2 is defined: each of its values is twice the one before.
LEMMA PowersDouble == Doubles(Power2)
  <1> DEFINE Is(g) == g = [k \in 0 .. 30 |-> IF k = 0 THEN 1 ELSE 2 * g[k - 1]]
             step == [p \in (1 .. 30) \X Int |-> 2 * p[2]]
  <1>1. step \in [(1 .. 30) \X Int -> Int] /\ 1 \in Int /\ 30 \in Nat
    OBVIOUS
  <1>2. \A k \in 1 .. 30, i \in Int : step[<<k, i>>] = 2 * i
    OBVIOUS
  <1>3. PICK h \in [0 .. 30 -> Int] : Recurs(h, 1, step, 30)
    <2> HIDE DEF step
    <2> QED BY <1>1, RecursionDefined
  <1>4. ASSUME NEW k \in 0 .. 30 PROVE h[k] = IF k = 0 THEN 1 ELSE 2 * h[k - 1]
    <2> HIDE DEF step
    <2>1. CASE k = 0
      BY <1>3, <2>1 DEF Recurs
    <2>2. CASE k # 0
      <3>1. k \in 1 .. 30 /\ k - 1 \in 0 .. 30
        BY <2>2
      <3>2. h[k] = step[<<k, h[k - 1]>>]
        BY <1>3, <3>1 DEF Recurs
      <3>3. h[k - 1] \in Int
        BY <3>1
      <3> QED BY <1>2, <2>2, <3>1, <3>2, <3>3
    <2> QED BY <2>1, <2>2
  <1>5. Is(h)
    BY <1>3, <1>4
  <1>6. Power2 = CHOOSE g : Is(g)
    BY DEF Power2
  <1>7. Is(Power2)
    <2> HIDE DEF Is
    <2> QED BY <1>5, <1>6
  <1>8. PICK g : g = Power2
    OBVIOUS
  <1> DEFINE v(k) == IF k = 0 THEN 1 ELSE 2 * g[k - 1]
  <1>9. g = [k \in 0 .. 30 |-> v(k)]
    BY <1>7, <1>8
  <1>10. \A k \in 0 .. 30 : g[k] = v(k)
    <2> HIDE DEF v
    <2> QED BY <1>9
  <1>11. Doubles(g)
    BY <1>10 DEF Doubles
  <1> QED BY <1>8, <1>11

\* The powers that small objects have the sizes of.
LEMMA Powers ==
  /\ Power2[0] = 1 /\ Power2[1] = 2 /\ Power2[2] = 4 /\ Power2[3] = 8
  /\ Power2[4] = 16 /\ Power2[5] = 32 /\ Power2[6] = 64 /\ Power2[7] = 128
  /\ Power2[8] = 256 /\ Power2[9] = 512 /\ Power2[10] = 1024
  /\ Power2[11] = 2048 /\ Power2[12] = 4096 /\ Power2[13] = 8192
  /\ Power2[14] = 16384 /\ Power2[15] = 32768
  <1>1. PICK g : g = Power2
    OBVIOUS
  <1>2. g[0] = 1 /\ \A k \in 1 .. 30 : g[k] = 2 * g[k - 1]
    BY <1>1, PowersDouble DEF Doubles
  <1>3. g[0] = 1 /\ g[1] = 2 /\ g[2] = 4 /\ g[3] = 8
    BY <1>2
  <1>4. g[4] = 16 /\ g[5] = 32 /\ g[6] = 64 /\ g[7] = 128
    BY <1>2, <1>3
  <1>5. g[8] = 256 /\ g[9] = 512 /\ g[10] = 1024 /\ g[11] = 2048
    BY <1>2, <1>4
  <1>6. g[12] = 4096 /\ g[13] = 8192 /\ g[14] = 16384 /\ g[15] = 32768
    BY <1>2, <1>5
  <1> QED BY <1>1, <1>3, <1>4, <1>5, <1>6

\* The powers are naturals and grow.
LEMMA PowersGrow ==
  ASSUME NEW i \in 0 .. 30, NEW j \in 0 .. 30, i < j
  PROVE  /\ Power2[i] \in Nat /\ Power2[j] \in Nat
         /\ Power2[i] < Power2[j]
  <1>1. PICK g : g = Power2
    OBVIOUS
  <1>2. g[0] = 1 /\ \A k \in 1 .. 30 : g[k] = 2 * g[k - 1]
    BY <1>1, PowersDouble DEF Doubles
  <1> DEFINE T == {k \in 0 .. 30 : ~(g[k] \in Nat /\ g[k] > 0)}
             U == {k \in 0 .. 30 : i < k /\ ~(g[i] < g[k])}
  <1>3. \A k \in 0 .. 30 : g[k] \in Nat /\ g[k] > 0
    <2>1. SUFFICES ASSUME T # {} PROVE FALSE
      OBVIOUS
    <2>2. T \subseteq Nat
      OBVIOUS
    <2>3. PICK m \in T : \A k \in T : m <= k
      <3> HIDE DEF T
      <3> QED BY <2>1, <2>2, LeastLength
    <2>4. m # 0
      BY <1>2, <2>3
    <2>5. m \in 1 .. 30 /\ m - 1 \in 0 .. 30 /\ m - 1 \notin T
      BY <2>3, <2>4
    <2>6. g[m - 1] \in Nat /\ g[m - 1] > 0 /\ g[m] = 2 * g[m - 1]
      BY <1>2, <2>5
    <2>7. g[m] \in Nat /\ g[m] > 0
      BY <2>6
    <2> QED BY <2>3, <2>7
  <1>4. \A k \in 0 .. 30 : i < k => g[i] < g[k]
    <2>1. SUFFICES ASSUME U # {} PROVE FALSE
      OBVIOUS
    <2>2. U \subseteq Nat
      OBVIOUS
    <2>3. PICK m \in U : \A k \in U : m <= k
      <3> HIDE DEF U
      <3> QED BY <2>1, <2>2, LeastLength
    <2>4. m \in 1 .. 30 /\ m - 1 \in 0 .. 30 /\ m - 1 \notin U /\ i < m /\ ~(g[i] < g[m])
      BY <2>3
    <2>5. g[m] = 2 * g[m - 1] /\ g[m - 1] \in Nat /\ g[m - 1] > 0
      BY <1>2, <1>3, <2>4
    <2>6. g[m - 1] < g[m] /\ g[m] \in Nat /\ g[i] \in Nat
      BY <1>3, <2>5
    <2>7. i = m - 1 \/ i < m - 1
      BY <2>4
    <2>8. CASE i = m - 1
      BY <2>4, <2>6, <2>8
    <2>9. CASE i < m - 1
      <3>1. g[i] < g[m - 1]
        BY <2>4, <2>9
      <3> QED BY <2>4, <2>5, <2>6, <3>1
    <2> QED BY <2>7, <2>8, <2>9
  <1> QED BY <1>1, <1>3, <1>4

\* log2floor finds the power below a number.
LEMMA Log2FloorIs ==
  ASSUME NEW n \in Nat, NEW k \in 0 .. 29, Power2[k] <= n, n < Power2[k + 1]
  PROVE  log2floor(n) = k
  <1> DEFINE P(j) == Power2[j] <= n /\ n < Power2[j + 1]
  <1>1. log2floor(n) = CHOOSE j \in 0 .. 29 : P(j)
    BY DEF log2floor
  <1>2. PICK j \in 0 .. 29 : j = log2floor(n) /\ P(j)
    <2>1. P(k)
      OBVIOUS
    <2> HIDE DEF P
    <2> QED BY <1>1, <2>1
  <1>3. j \in 0 .. 30 /\ j + 1 \in 0 .. 30 /\ k \in 0 .. 30 /\ k + 1 \in 0 .. 30
    OBVIOUS
  <1>4. ASSUME j < k PROVE FALSE
    <2>1. Power2[j + 1] \in Nat /\ Power2[k] \in Nat /\ Power2[j + 1] <= Power2[k]
      <3>1. CASE j + 1 = k
        <4>1. Power2[k] \in Nat
          BY <1>3, PowersGrow
        <4> QED BY <3>1, <4>1
      <3>2. CASE j + 1 < k
        BY <1>3, <3>2, PowersGrow
      <3> QED BY <1>4, <3>1, <3>2
    <2> QED BY <1>2, <2>1
  <1>5. ASSUME k < j PROVE FALSE
    <2>1. Power2[k + 1] \in Nat /\ Power2[j] \in Nat /\ Power2[k + 1] <= Power2[j]
      <3>1. CASE k + 1 = j
        <4>1. Power2[j] \in Nat
          BY <1>3, PowersGrow
        <4> QED BY <3>1, <4>1
      <3>2. CASE k + 1 < j
        BY <1>3, <3>2, PowersGrow
      <3> QED BY <1>5, <3>1, <3>2
    <2> QED BY <1>2, <2>1
  <1> QED BY <1>2, <1>4, <1>5

\* Division, for divisors that are not known.
LEMMA Divides ==
  ASSUME NEW n \in Nat, NEW s \in Nat, s > 0, NEW d, d = n \div s
  PROVE  d \in Nat /\ d * s <= n /\ n < (d + 1) * s
  OBVIOUS

\* A number below b times s has a quotient below b,
LEMMA QuotientBelow ==
  ASSUME NEW n \in Nat, NEW s \in Nat, s > 0, NEW b \in Nat, n < b * s
  PROVE  n \div s \in Nat /\ n \div s < b
  OBVIOUS

\* and one from b times s on a quotient from b on.
LEMMA QuotientFrom ==
  ASSUME NEW n \in Nat, NEW s \in Nat, s > 0, NEW b \in Nat, b * s <= n
  PROVE  n \div s \in Nat /\ n \div s >= b
  OBVIOUS

\* The power of two below a size.
Octave(size, l, t) ==
  /\ l \in 3 .. 14 /\ t \in Nat /\ t > 0
  /\ t = Power2[l - 2] /\ Power2[l] = 4 * t /\ Power2[l + 1] = 8 * t
  /\ 4 * t <= size /\ size < 8 * t
  /\ log2floor(size) = l
  /\ l = 14 => size = 4 * t
  /\ (8 * t <= 16384 \/ (l = 14 /\ t = 4096))

\* Every size of a small object is between one power and the next.
LEMMA OctaveOf ==
  ASSUME NEW size \in Int, 8 <= size, size <= 16384
  PROVE  \E l, t : Octave(size, l, t)
  <1>1. PICK g : g = Power2
    OBVIOUS
  <1>2. /\ g[1] = 2 /\ g[2] = 4 /\ g[3] = 8
        /\ g[4] = 16 /\ g[5] = 32 /\ g[6] = 64 /\ g[7] = 128
        /\ g[8] = 256 /\ g[9] = 512 /\ g[10] = 1024 /\ g[11] = 2048
        /\ g[12] = 4096 /\ g[13] = 8192 /\ g[14] = 16384 /\ g[15] = 32768
    BY <1>1, Powers
  <1>0. size \in Int /\ 8 <= size /\ size <= 16384
    OBVIOUS
  <1>3. PICK l \in 3 .. 14 : g[l] <= size /\ size < g[l + 1]
    <2>1. CASE size < 16
      <3> WITNESS 3 \in 3 .. 14
      <3> QED BY <1>0, <1>2, <2>1
    <2>2. CASE 16 <= size /\ size < 32
      <3> WITNESS 4 \in 3 .. 14
      <3> QED BY <1>2, <2>2
    <2>3. CASE 32 <= size /\ size < 64
      <3> WITNESS 5 \in 3 .. 14
      <3> QED BY <1>2, <2>3
    <2>4. CASE 64 <= size /\ size < 128
      <3> WITNESS 6 \in 3 .. 14
      <3> QED BY <1>2, <2>4
    <2>5. CASE 128 <= size /\ size < 256
      <3> WITNESS 7 \in 3 .. 14
      <3> QED BY <1>2, <2>5
    <2>6. CASE 256 <= size /\ size < 512
      <3> WITNESS 8 \in 3 .. 14
      <3> QED BY <1>2, <2>6
    <2>7. CASE 512 <= size /\ size < 1024
      <3> WITNESS 9 \in 3 .. 14
      <3> QED BY <1>2, <2>7
    <2>8. CASE 1024 <= size /\ size < 2048
      <3> WITNESS 10 \in 3 .. 14
      <3> QED BY <1>2, <2>8
    <2>9. CASE 2048 <= size /\ size < 4096
      <3> WITNESS 11 \in 3 .. 14
      <3> QED BY <1>2, <2>9
    <2>10. CASE 4096 <= size /\ size < 8192
      <3> WITNESS 12 \in 3 .. 14
      <3> QED BY <1>2, <2>10
    <2>11. CASE 8192 <= size /\ size < 16384
      <3> WITNESS 13 \in 3 .. 14
      <3> QED BY <1>2, <2>11
    <2>12. CASE 16384 <= size
      <3> WITNESS 14 \in 3 .. 14
      <3> QED BY <1>0, <1>2, <2>12
    <2>13. \/ size < 16 \/ (16 <= size /\ size < 32) \/ (32 <= size /\ size < 64)
           \/ (64 <= size /\ size < 128) \/ (128 <= size /\ size < 256)
           \/ (256 <= size /\ size < 512) \/ (512 <= size /\ size < 1024)
           \/ (1024 <= size /\ size < 2048) \/ (2048 <= size /\ size < 4096)
           \/ (4096 <= size /\ size < 8192) \/ (8192 <= size /\ size < 16384)
           \/ 16384 <= size
      BY <1>0
    <2> QED BY <2>1, <2>2, <2>3, <2>4, <2>5, <2>6, <2>7, <2>8, <2>9, <2>10, <2>11, <2>12, <2>13
  <1>4. PICK t \in Nat : /\ t > 0 /\ t = g[l - 2] /\ g[l] = 4 * t /\ g[l + 1] = 8 * t
                         /\ l = 14 => t = 4096
                         /\ l # 14 => 8 * t <= 16384
    <2>1. l - 1 \in 1 .. 30 /\ l \in 1 .. 30 /\ l + 1 \in 1 .. 30
      OBVIOUS
    <2>2. g[l - 1] = 2 * g[l - 2] /\ g[l] = 2 * g[l - 1] /\ g[l + 1] = 2 * g[l]
      <3>1. \A k \in 1 .. 30 : g[k] = 2 * g[k - 1]
        BY <1>1, PowersDouble DEF Doubles
      <3>2. (l - 1) - 1 = l - 2 /\ (l + 1) - 1 = l
        OBVIOUS
      <3> QED BY <2>1, <3>1, <3>2
    <2>3. g[l - 2] \in Nat /\ g[l - 2] > 0
      <3>1. l - 2 \in 0 .. 30 /\ 0 \in 0 .. 30 /\ 0 < l - 2
        OBVIOUS
      <3>3. Power2[l - 2] \in Nat /\ Power2[0] < Power2[l - 2] /\ Power2[0] \in Nat
        BY <3>1, PowersGrow
      <3>2. g[l - 2] \in Nat /\ g[0] < g[l - 2] /\ g[0] \in Nat
        BY <1>1, <3>3
      <3> QED BY <3>2
    <2>4. l = 14 => g[l - 2] = 4096
      BY <1>2
    <2>5. ASSUME l # 14 PROVE 8 * g[l - 2] <= 16384
      <3>1. l + 1 = 14 \/ l + 1 < 14
        BY <2>5
      <3>2. g[l + 1] <= g[14]
        <4>1. CASE l + 1 = 14
          BY <1>2, <4>1
        <4>2. CASE l + 1 < 14
          <5>1. l + 1 \in 0 .. 30 /\ 14 \in 0 .. 30
            OBVIOUS
          <5>3. Power2[l + 1] \in Nat /\ Power2[14] \in Nat /\ Power2[l + 1] < Power2[14]
            BY <4>2, <5>1, PowersGrow
          <5>2. g[l + 1] \in Nat /\ g[14] \in Nat /\ g[l + 1] < g[14]
            BY <1>1, <5>3
          <5> QED BY <5>2
        <4> QED BY <3>1, <4>1, <4>2
      <3> QED BY <1>2, <2>2, <2>3, <3>2
    <2>6. g[l] = 4 * g[l - 2] /\ g[l + 1] = 8 * g[l - 2]
      BY <2>2, <2>3
    <2> QED BY <2>3, <2>4, <2>5, <2>6
  <1>5. log2floor(size) = l
    <2>1. size \in Nat /\ l \in 0 .. 29
      OBVIOUS
    <2>2. Power2[l] <= size /\ size < Power2[l + 1]
      BY <1>1, <1>3
    <2> QED BY <2>1, <2>2, Log2FloorIs
  <1>6. Octave(size, l, t)
    <2>1. t = Power2[l - 2] /\ Power2[l] = 4 * t /\ Power2[l + 1] = 8 * t
      BY <1>1, <1>4
    <2>2. 4 * t <= size /\ size < 8 * t
      BY <1>3, <1>4
    <2>3. l = 14 => size = 4 * t
      <3> SUFFICES ASSUME l = 14 PROVE size = 4 * t
        OBVIOUS
      <3>1. t = 4096 /\ 4 * t = 16384
        BY <1>4
      <3> QED BY <1>0, <2>2, <3>1
    <2>4. (8 * t <= 16384 \/ (l = 14 /\ t = 4096))
      <3>1. CASE l = 14
        BY <1>4, <3>1
      <3>2. CASE l # 14
        BY <1>4, <3>2
      <3> QED BY <3>1, <3>2
    <2> QED BY <1>3, <1>4, <1>5, <2>1, <2>2, <2>3, <2>4 DEF Octave
  <1> QED BY <1>6

\* The class of a size: q + 1 quarters of its power of two.
Class(size, l, t, q) ==
  /\ q \in 3 .. 7 /\ q * t < size /\ size <= (q + 1) * t
  /\ (q + 1) * t \in Nat
  /\ usizeo_idx(size) = 4 * l - 3 + q
  /\ idx_to_size(usizeo_idx(size)) = (q + 1) * t

\* usizeo_idx rounds a size up to a quarter of that power, and idx_to_size
\* takes the index back to it.
LEMMA ClassOf ==
  ASSUME NEW size \in Int, 8 <= size, size <= 16384, NEW l, NEW t, Octave(size, l, t)
  PROVE  \E q : Class(size, l, t, q)
  <1>1. /\ l \in 3 .. 14 /\ t \in Nat /\ t > 0
        /\ t = Power2[l - 2] /\ Power2[l] = 4 * t /\ Power2[l + 1] = 8 * t
        /\ 4 * t <= size /\ size < 8 * t
        /\ log2floor(size) = l
    BY DEF Octave
  <1>2. PICK n \in Nat : n = size - 1
    OBVIOUS
  <1>3. PICK q \in Nat : q = n \div t /\ q * t <= n /\ n < (q + 1) * t
    <2>1. PICK d : d = n \div t
      OBVIOUS
    <2>2. d \in Nat /\ d * t <= n /\ n < (d + 1) * t
      BY <1>1, <2>1, Divides
    <2> QED BY <2>1, <2>2
  <1>4. q < 8
    <2>1. n < 8 * t
      BY <1>1, <1>2
    <2> QED BY <1>1, <1>3, <2>1, QuotientBelow
  <1>5. q >= 3
    <2>1. 3 * t <= n
      BY <1>1, <1>2
    <2> QED BY <1>1, <1>3, <2>1, QuotientFrom
  <1>6. q \in 3 .. 7
    BY <1>4, <1>5
  <1>7. q * t < size /\ size <= (q + 1) * t /\ (q + 1) * t \in Nat
    <2>1. q * t \in Nat /\ (q + 1) * t \in Nat
      BY <1>1, <1>3
    <2> QED BY <1>2, <1>3, <2>1
  <1>8. PICK i \in Nat : i = usizeo_idx(size) /\ i = 4 * l - 3 + q
    <2>1. usizeo_idx(size) = (4 * l - 3) + (n \div t)
      BY <1>1, <1>2 DEF usizeo_idx
    <2>2. 4 * l - 3 + q \in Nat
      BY <1>1, <1>3
    <2> QED BY <1>3, <2>1, <2>2
  <1>9. idx_to_size(i) = (q + 1) * t
    <2>1. idx_to_size(i) = ((4 + (i % 4)) * Power2[i \div 4]) \div 4
      BY DEF idx_to_size
    <2>2. CASE q = 3
      <3>1. i = 4 * l /\ i % 4 = 0 /\ i \div 4 = l
        BY <1>1, <1>8, <2>2
      <3> QED BY <1>1, <2>1, <2>2, <3>1
    <2>3. CASE q = 4
      <3>1. i % 4 = 1 /\ i \div 4 = l
        BY <1>1, <1>8, <2>3
      <3> QED BY <1>1, <2>1, <2>3, <3>1
    <2>4. CASE q = 5
      <3>1. i % 4 = 2 /\ i \div 4 = l
        BY <1>1, <1>8, <2>4
      <3> QED BY <1>1, <2>1, <2>4, <3>1
    <2>5. CASE q = 6
      <3>1. i % 4 = 3 /\ i \div 4 = l
        BY <1>1, <1>8, <2>5
      <3> QED BY <1>1, <2>1, <2>5, <3>1
    <2>6. CASE q = 7
      <3>1. i % 4 = 0 /\ i \div 4 = l + 1
        BY <1>1, <1>8, <2>6
      <3> QED BY <1>1, <2>1, <2>6, <3>1
    <2> QED BY <1>6, <2>2, <2>3, <2>4, <2>5, <2>6
  <1> QED BY <1>6, <1>7, <1>8, <1>9 DEF Class

\* The sizes of small objects.
Small(s) == 8 <= s /\ s <= 16384

\* The spans of a pool: as few pages as have room for 32 objects and waste
\* little.
Tiny(s, k) ==
  \/ s > Power2[k] * 4096
  \/ Power2[k] < 32 /\ 20 * ((Power2[k] * 4096) % s) > Power2[k] * 4096
  \/ (Power2[k] * 4096) \div s < 32

\* The constructor of a pool stops at spans that fit free_span's lists and
\* whose objects fit the counters of a page.
LEMMA SpanOf ==
  ASSUME NEW s \in Int, Small(s)
  PROVE  /\ PoolSpanPages(s) <= 256
         /\ (PoolSpanPages(s) * PageBytes) \div s < 65536
  <1>1. PICK g : g = Power2
    OBVIOUS
  <1>2. /\ g[0] = 1 /\ g[1] = 2 /\ g[2] = 4 /\ g[3] = 8
        /\ g[4] = 16 /\ g[5] = 32 /\ g[6] = 64 /\ g[7] = 128
    BY <1>1, Powers
  <1>3. \A k \in 1 .. 7 : g[k] = 2 * g[k - 1]
    BY <1>1, PowersDouble DEF Doubles
  <1>4. \A k \in 0 .. 7 : g[k] \in Nat /\ g[k] <= 128
    BY <1>2
  <1>5. s \in Nat /\ s > 0
    BY DEF Small
  <1> DEFINE T == {k \in 0 .. 10 : ~Tiny(s, k)}
  <1>6. 7 \in T
    <2>1. 524288 \div s \in Nat /\ 524288 \div s >= 32
      <3>1. PICK n \in Nat : n = 524288
        OBVIOUS
      <3>2. 32 * s <= n /\ 32 \in Nat
        BY <3>1 DEF Small
      <3>3. n \div s \in Nat /\ n \div s >= 32
        BY <1>5, <3>2, QuotientFrom
      <3> QED BY <3>1, <3>3
    <2>2. Power2[7] = 128 /\ 128 * 4096 = 524288
      BY <1>1, <1>2
    <2>3. ~Tiny(s, 7)
      BY <2>1, <2>2 DEF Tiny
    <2> QED BY <2>3
  <1>7. PICK m \in T : \A k \in T : m <= k
    <2>1. T # {} /\ T \subseteq Nat
      BY <1>6
    <2> HIDE DEF T
    <2> QED BY <2>1, LeastLength
  <1> DEFINE P(k) == ~Tiny(s, k) /\ \A j \in 0 .. k - 1 : Tiny(s, j)
  <1>8. m \in 0 .. 10 /\ P(m)
    <2>1. m \in 0 .. 10 /\ ~Tiny(s, m)
      BY <1>7
    <2>2. ASSUME NEW j \in 0 .. m - 1 PROVE Tiny(s, j)
      <3>1. j \in 0 .. 10 /\ ~(m <= j)
        BY <2>1
      <3> QED BY <1>7, <3>1
    <2> QED BY <2>1, <2>2
  <1>9. PoolSpanPages(s) = Power2[CHOOSE k \in 0 .. 10 : P(k)]
    BY DEF PoolSpanPages, Tiny, PageBytes
  <1>10. PICK c \in 0 .. 10 : P(c) /\ PoolSpanPages(s) = g[c]
    <2> HIDE DEF P
    <2> QED BY <1>1, <1>8, <1>9
  <1>11. c \in 0 .. 7
    <2>1. ~(7 \in 0 .. c - 1)
      BY <1>6, <1>10
    <2> QED BY <2>1
  <1>12. PICK p \in Nat : p = g[c] /\ p <= 128
    BY <1>4, <1>11
  <1>13. (p * 4096) \div s < 65536
    <2>1. CASE c = 0
      <3>1. p = 1 /\ p * 4096 = 4096
        BY <1>2, <1>12, <2>1
      <3>3. PICK n \in Nat : n = 4096
        OBVIOUS
      <3>4. n < 65536 * s
        BY <1>5, <3>3
      <3>2. n \div s < 65536
        BY <1>5, <3>4, QuotientBelow
      <3> QED BY <3>1, <3>2, <3>3
    <2>2. CASE c # 0
      <3>1. c \in 1 .. 7 /\ c - 1 \in 0 .. c - 1 /\ c - 1 \in 0 .. 7
        BY <1>11, <2>2
      <3>2. PICK o \in Nat : o = g[c - 1] /\ p = 2 * o
        BY <1>3, <1>4, <1>12, <3>1
      <3>3. Tiny(s, c - 1)
        BY <1>10, <3>1
      <3>4. PICK n \in Nat : n = o * 4096
        OBVIOUS
      <3>5. \/ s > n \/ (o < 32 /\ 20 * (n % s) > n) \/ n \div s < 32
        BY <1>1, <3>2, <3>3, <3>4 DEF Tiny
      <3>6. n < 32 * s
        <4>1. CASE s > n
          BY <1>5, <4>1
        <4>2. CASE 20 * (n % s) > n
          <5>1. n % s \in Nat /\ n % s < s
            BY <1>5
          <5> QED BY <1>5, <4>2, <5>1
        <4>3. CASE n \div s < 32
          <5>1. ASSUME 32 * s <= n PROVE FALSE
            <6>1. n \div s \in Nat /\ n \div s >= 32
              BY <1>5, <5>1, QuotientFrom
            <6> QED BY <4>3, <6>1
          <5> QED BY <1>5, <5>1
        <4> QED BY <3>5, <4>1, <4>2, <4>3
      <3>7. p * 4096 \in Nat /\ p * 4096 < 65536 * s
        BY <1>5, <3>2, <3>4, <3>6
      <3> QED BY <1>5, <3>7, QuotientBelow
    <2> QED BY <2>1, <2>2
  <1> QED BY <1>10, <1>12, <1>13 DEF PageBytes

\* What SizeClassesFit says of one size.
LEMMA SizeFits ==
  ASSUME NEW size \in Int, 8 <= size, size <= 16384, NEW object, object = idx_to_size(usizeo_idx(size))
  PROVE  /\ size <= object /\ 2 * object <= 3 * size
         /\ size = Power2[log2ceil(size)] => object = size
         /\ usizeo_idx(size) < NrSmallPools
         /\ PoolSpanPages(object) <= 256
         /\ (PoolSpanPages(object) * PageBytes) \div object < 65536
  <1>1. PICK l, t : Octave(size, l, t)
    BY OctaveOf
  <1>2. PICK q : Class(size, l, t, q)
    BY <1>1, ClassOf
  <1>3. /\ l \in 3 .. 14 /\ t \in Nat /\ t > 0
        /\ Power2[l] = 4 * t /\ Power2[l + 1] = 8 * t
        /\ 4 * t <= size /\ size < 8 * t
        /\ log2floor(size) = l
        /\ l = 14 => size = 4 * t
        /\ (8 * t <= 16384 \/ (l = 14 /\ t = 4096))
    BY <1>1 DEF Octave
  <1>4. /\ q \in 3 .. 7 /\ q * t < size /\ size <= (q + 1) * t
        /\ usizeo_idx(size) = 4 * l - 3 + q
        /\ object = (q + 1) * t
    BY <1>2 DEF Class
  <1>5. q = 3 \/ q = 4 \/ q = 5 \/ q = 6 \/ q = 7
    BY <1>4
  <1>6. size <= object /\ 2 * object <= 3 * size
    BY <1>3, <1>4, <1>5
  <1>7. l = 14 => q = 3
    BY <1>3, <1>4, <1>5
  <1>8. object \in Int /\ 8 <= object /\ object <= 16384
    BY <1>3, <1>4, <1>5, <1>6, <1>7
  <1>9. NrSmallPools = 57
    <2>1. log2floor(16384) = 14
      <3>1. 14 \in 0 .. 29 /\ 16384 \in Nat /\ Power2[14] <= 16384 /\ 16384 < Power2[14 + 1]
        BY Powers
      <3> QED BY <3>1, Log2FloorIs
    <2>2. usizeo_idx(4 * PageBytes) = (4 * 14 - 3) + (16383 \div Power2[12])
      BY <2>1 DEF usizeo_idx, PageBytes
    <2> QED BY <2>2, Powers DEF NrSmallPools
  <1>10. usizeo_idx(size) < NrSmallPools
    BY <1>3, <1>4, <1>7, <1>9
  <1>11. ASSUME size = Power2[log2ceil(size)] PROVE object = size
    <2>1. PICK n \in Nat : n = size - 1
      OBVIOUS
    <2>2. PICK k \in 0 .. 29 : k = log2floor(n) /\ (k = l \/ k = l - 1)
      <3>1. CASE 4 * t <= n
        <4>1. log2floor(n) = l
          <5>1. l \in 0 .. 29 /\ Power2[l] <= n /\ n < Power2[l + 1]
            BY <1>3, <2>1, <3>1
          <5> QED BY <5>1, Log2FloorIs
        <4> QED BY <1>3, <4>1
      <3>2. CASE ~(4 * t <= n)
        <4>1. Power2[l] = 2 * Power2[l - 1] /\ Power2[l - 1] \in Nat
          <5>1. l \in 1 .. 30 /\ l - 1 \in 0 .. 30 /\ l \in 0 .. 30 /\ l - 1 < l
            BY <1>3
          <5>2. \A i \in 1 .. 30 : Power2[i] = 2 * Power2[i - 1]
            BY PowersDouble DEF Doubles
          <5>3. Power2[l] = 2 * Power2[l - 1]
            BY <5>1, <5>2
          <5>4. Power2[l - 1] \in Nat
            BY <5>1, PowersGrow
          <5> QED BY <5>3, <5>4
        <4>2. Power2[l - 1] <= n /\ n < Power2[(l - 1) + 1] /\ l - 1 \in 0 .. 29
          BY <1>3, <2>1, <3>2, <4>1
        <4>3. log2floor(n) = l - 1
          BY <4>2, Log2FloorIs
        <4> QED BY <4>2, <4>3
      <3> QED BY <3>1, <3>2
    <2>3. log2ceil(size) = k + 1
      BY <2>1, <2>2 DEF log2ceil
    <2>4. size = 8 * t \/ size = 4 * t
      <3>1. CASE k = l
        BY <1>3, <1>11, <2>3, <3>1
      <3>2. CASE k = l - 1
        <4>1. k + 1 = l
          BY <1>3, <3>2
        <4> QED BY <1>3, <1>11, <2>3, <4>1
      <3> QED BY <2>2, <3>1, <3>2
    <2>5. size = 4 * t
      BY <1>3, <2>4
    <2> QED BY <1>3, <1>4, <1>5, <2>5
  <1>12. /\ PoolSpanPages(object) <= 256
         /\ (PoolSpanPages(object) * PageBytes) \div object < 65536
    <2>1. Small(object)
      BY <1>8 DEF Small
    <2> QED BY <1>8, <2>1, SpanOf
  <1> QED BY <1>6, <1>10, <1>11, <1>12

\* Every small object has room for what was asked for and wastes at most half
\* of it, powers of two nothing; there is a pool for it, and a span of that
\* pool is within the limits of the constructor and of the page's counters:
\* for all sizes from a free_object to max_small_allocation.
THEOREM EverySizeFits == []SizeClassesFit
  <1>1. ASSUME NEW size \in ByteSizes PROVE size \in Int /\ 8 <= size /\ size <= 16384
    <2>1. PICK least, most : least = FreeObjectBytes /\ most = 4 * PageBytes
      OBVIOUS
    <2>2. size \in least .. most
      BY <2>1, SizesAssumption
    <2>3. least = 8 /\ most = 16384
      BY <2>1 DEF FreeObjectBytes, PageBytes
    <2> QED BY <2>2, <2>3
  <1>2. ASSUME NEW size \in ByteSizes
        PROVE  LET idx    == usizeo_idx(size)
                   object == idx_to_size(idx)
                   pages  == PoolSpanPages(object)
               IN /\ size <= object /\ 2 * object <= 3 * size
                  /\ size = Power2[log2ceil(size)] => object = size
                  /\ idx < NrSmallPools
                  /\ pages <= 256 /\ (pages * PageBytes) \div object < 65536
    <2>1. PICK object : object = idx_to_size(usizeo_idx(size))
      OBVIOUS
    <2>2. /\ size <= object /\ 2 * object <= 3 * size
          /\ size = Power2[log2ceil(size)] => object = size
          /\ usizeo_idx(size) < NrSmallPools
          /\ PoolSpanPages(object) <= 256
          /\ (PoolSpanPages(object) * PageBytes) \div object < 65536
      <3>1. size \in Int /\ 8 <= size /\ size <= 16384
        BY <1>1
      <3> QED BY <2>1, <3>1, SizeFits
    <2> QED BY <2>1, <2>2
  <1>3. SizeClassesFit
    BY <1>2 DEF SizeClassesFit
  <1> QED BY <1>3, PTL

----------------------------------------------------------------------------
(***************************************************************************)
(* Guards: places.  A guard is in a blob, waits to be released, or is in   *)
(* an impl, which owns it or has it as the next of its chain.              *)
(***************************************************************************)

ImplIds == 1 .. MaxImpls
ObjectIds == 1 .. MaxObjects

AllGuards == {Guard!Null} \cup {Guard!Raw(o) : o \in ObjectIds}
                \cup {Guard!Impl(i) : i \in ImplIds}

InBlob(b) == <<"blob", b>>
Waiting(n)  == <<"wait", n>>
Owns(i)   == <<"owns", i>>
Behind(i)   == <<"next", i>>

Outer == {InBlob(b) : b \in Guard!Holders} \cup {Waiting(n) : n \in 1 .. Guard!MaxReleases}
Inner == {Owns(i) : i \in ImplIds} \cup {Behind(i) : i \in ImplIds}
Places == Outer \cup Inner

\* Guards that are written differently differ.
LEMMA GuardsDiffer ==
  /\ \A o : Guard!Null # Guard!Raw(o) /\ Guard!IsRaw(Guard!Raw(o)) /\ ~Guard!IsImpl(Guard!Raw(o))
  /\ \A i : Guard!Null # Guard!Impl(i) /\ Guard!IsImpl(Guard!Impl(i)) /\ ~Guard!IsRaw(Guard!Impl(i))
  /\ \A o, i : Guard!Raw(o) # Guard!Impl(i)
  /\ \A o, p : Guard!Raw(o) = Guard!Raw(p) => o = p
  /\ \A i, j : Guard!Impl(i) = Guard!Impl(j) => i = j
  /\ \A o : Guard!Raw(o)[2] = o
  /\ \A i : Guard!Impl(i)[2] = i
  /\ ~Guard!IsRaw(Guard!Null) /\ ~Guard!IsImpl(Guard!Null)
  BY DEF Guard!Null, Guard!Raw, Guard!Impl, Guard!IsRaw, Guard!IsImpl

LEMMA WildDiffers ==
  /\ Guard!Wild # Guard!Null
  /\ \A o : Guard!Wild # Guard!Raw(o)
  /\ \A i : Guard!Wild # Guard!Impl(i)
  BY DEF Guard!Wild, Guard!Null, Guard!Raw, Guard!Impl

\* So do places.
LEMMA PlacesDiffer ==
  /\ \A i, j : Owns(i) # Behind(j) /\ (Owns(i) = Owns(j) => i = j) /\ (Behind(i) = Behind(j) => i = j)
  /\ \A i, b : Owns(i) # InBlob(b) /\ Behind(i) # InBlob(b) /\ Owns(i) # Waiting(b) /\ Behind(i) # Waiting(b)
  /\ \A b, c : InBlob(b) # Waiting(c) /\ (InBlob(b) = InBlob(c) => b = c) /\ (Waiting(b) = Waiting(c) => b = c)
  BY DEF Owns, Behind, InBlob, Waiting

LEMMA PlacesIn ==
  /\ \A i \in ImplIds : Owns(i) \in Places /\ Behind(i) \in Places
  /\ \A i : Owns(i) \notin Outer /\ Behind(i) \notin Outer
  /\ \A p \in Outer : p \in Places
  /\ \A b \in Guard!Holders : InBlob(b) \in Outer
  /\ \A n \in 1 .. Guard!MaxReleases : Waiting(n) \in Outer
  <1>1. /\ \A i \in ImplIds : Owns(i) \in Places /\ Behind(i) \in Places
        /\ \A p \in Outer : p \in Places
    BY DEF Places, Inner
  <1>2. /\ \A b \in Guard!Holders : InBlob(b) \in Outer
        /\ \A n \in 1 .. Guard!MaxReleases : Waiting(n) \in Outer
    BY DEF Outer
  <1>3. \A i : Owns(i) \notin Outer /\ Behind(i) \notin Outer
    BY PlacesDiffer DEF Outer
  <1> QED BY <1>1, <1>2, <1>3

LEMMA GuardCases ==
  ASSUME NEW g \in AllGuards
  PROVE  \/ g = Guard!Null
         \/ \E o \in ObjectIds : g = Guard!Raw(o)
         \/ \E i \in ImplIds : g = Guard!Impl(i)
  BY DEF AllGuards

LEMMA GuardIn ==
  /\ Guard!Null \in AllGuards
  /\ \A o \in ObjectIds : Guard!Raw(o) \in AllGuards
  /\ \A i \in ImplIds : Guard!Impl(i) \in AllGuards
  BY DEF AllGuards

LEMMA PlaceCases ==
  ASSUME NEW p \in Places
  PROVE  \/ \E b \in Guard!Holders : p = InBlob(b)
         \/ \E n \in 1 .. Guard!MaxReleases : p = Waiting(n)
         \/ \E i \in ImplIds : p = Owns(i)
         \/ \E i \in ImplIds : p = Behind(i)
  BY DEF Places, Outer, Inner

\* What a function makes of a finite set is finite.
LEMMA ImageFinite ==
  ASSUME NEW S, IsFiniteSet(S), NEW T, NEW f \in [S -> T], \A t \in T : \E x \in S : f[x] = t
  PROVE  IsFiniteSet(T)
  <1>1. f \in Surjection(S, T)
    BY DEF Surjection
  <1> QED BY <1>1, FS_Surjection

LEMMA PlacesFinite ==
  ASSUME GuardAssumption
  PROVE  IsFiniteSet(Places)
  <1>1. IsFiniteSet(Guard!Holders)
    <2>1. IsFiniteSet(Slots \cup {Arena})
      BY FS_AddElement DEF GuardAssumption
    <2> QED BY <2>1 DEF Guard!Holders
  <1>2. Guard!MaxReleases \in Int /\ MaxImpls \in Int /\ 1 \in Int
    BY DEF GuardAssumption, Guard!MaxReleases
  <1>3. IsFiniteSet(1 .. Guard!MaxReleases) /\ IsFiniteSet(ImplIds)
    BY <1>2, FS_Interval DEF ImplIds
  <1> DEFINE inBlobs == {InBlob(b) : b \in Guard!Holders}
             waiting == {Waiting(n) : n \in 1 .. Guard!MaxReleases}
             owned   == {Owns(i) : i \in ImplIds}
             chained == {Behind(i) : i \in ImplIds}
  <1>4. IsFiniteSet(inBlobs)
    <2> DEFINE f == [b \in Guard!Holders |-> InBlob(b)]
    <2>1. f \in [Guard!Holders -> inBlobs] /\ \A t \in inBlobs : \E x \in Guard!Holders : f[x] = t
      OBVIOUS
    <2> HIDE DEF f, inBlobs
    <2> QED BY <1>1, <2>1, ImageFinite
  <1>5. IsFiniteSet(waiting)
    <2> DEFINE f == [n \in 1 .. Guard!MaxReleases |-> Waiting(n)]
    <2>1. /\ f \in [1 .. Guard!MaxReleases -> waiting]
          /\ \A t \in waiting : \E x \in 1 .. Guard!MaxReleases : f[x] = t
      OBVIOUS
    <2> HIDE DEF f, waiting
    <2> QED BY <1>3, <2>1, ImageFinite
  <1>6. IsFiniteSet(owned)
    <2> DEFINE f == [i \in ImplIds |-> Owns(i)]
    <2>1. f \in [ImplIds -> owned] /\ \A t \in owned : \E x \in ImplIds : f[x] = t
      OBVIOUS
    <2> HIDE DEF f, owned
    <2> QED BY <1>3, <2>1, ImageFinite
  <1>7. IsFiniteSet(chained)
    <2> DEFINE f == [i \in ImplIds |-> Behind(i)]
    <2>1. f \in [ImplIds -> chained] /\ \A t \in chained : \E x \in ImplIds : f[x] = t
      OBVIOUS
    <2> HIDE DEF f, chained
    <2> QED BY <1>3, <2>1, ImageFinite
  <1>8. Places = (inBlobs \cup waiting) \cup (owned \cup chained)
    BY DEF Places, Outer, Inner
  <1> HIDE DEF inBlobs, waiting, owned, chained
  <1>9. IsFiniteSet(inBlobs \cup waiting)
    BY <1>4, <1>5, FS_Union
  <1>10. IsFiniteSet(owned \cup chained)
    BY <1>6, <1>7, FS_Union
  <1> QED BY <1>8, <1>9, <1>10, FS_Union

----------------------------------------------------------------------------
(***************************************************************************)
(* How many places a guard is in.                                          *)
(***************************************************************************)

PlacesOf(ptr, g) == {p \in Places : ptr[p] = g}
Count(ptr, g) == Cardinality(PlacesOf(ptr, g))

\* 1 if a is b.
Same(a, b) == IF a = b THEN 1 ELSE 0

LEMMA SameIs ==
  ASSUME NEW a, NEW b
  PROVE  /\ Same(a, b) \in Nat
         /\ a = b => Same(a, b) = 1
         /\ a # b => Same(a, b) = 0
  BY DEF Same

LEMMA CountType ==
  ASSUME GuardAssumption, NEW ptr, NEW g
  PROVE  /\ Count(ptr, g) \in Nat /\ IsFiniteSet(PlacesOf(ptr, g))
         /\ Count(ptr, g) = 0 <=> PlacesOf(ptr, g) = {}
         /\ Count(ptr, g) = 1 => \E p : PlacesOf(ptr, g) = {p}
  <1>1. PlacesOf(ptr, g) \in SUBSET Places
    BY DEF PlacesOf
  <1>2. IsFiniteSet(PlacesOf(ptr, g))
    BY <1>1, PlacesFinite, FS_Subset
  <1>3. Count(ptr, g) \in Nat
    BY <1>2, FS_CardinalityType DEF Count
  <1>4. Count(ptr, g) = 0 <=> PlacesOf(ptr, g) = {}
    BY <1>2, FS_EmptySet DEF Count
  <1>5. Count(ptr, g) = 1 => \E p : PlacesOf(ptr, g) = {p}
    BY <1>2, FS_Singleton DEF Count
  <1> QED BY <1>2, <1>3, <1>4, <1>5

\* No place, one place, some place.
LEMMA CountZero ==
  ASSUME GuardAssumption, NEW ptr, NEW g, Count(ptr, g) = 0, NEW p \in Places
  PROVE  ptr[p] # g
  BY CountType DEF PlacesOf

LEMMA CountOne ==
  ASSUME GuardAssumption, NEW ptr, NEW g, Count(ptr, g) = 1,
         NEW p \in Places, NEW q \in Places, ptr[p] = g, ptr[q] = g
  PROVE  p = q
  <1>1. PICK x : PlacesOf(ptr, g) = {x}
    BY CountType
  <1>2. p \in PlacesOf(ptr, g) /\ q \in PlacesOf(ptr, g)
    BY DEF PlacesOf
  <1> QED BY <1>1, <1>2

LEMMA CountSome ==
  ASSUME GuardAssumption, NEW ptr, NEW g, NEW p \in Places, ptr[p] = g
  PROVE  Count(ptr, g) # 0
  BY CountZero

LEMMA CountHas ==
  ASSUME GuardAssumption, NEW ptr, NEW g, Count(ptr, g) # 0
  PROVE  \E p \in Places : ptr[p] = g
  BY CountType DEF PlacesOf

\* One place changes.
Put(ptr, p, g) == [ptr EXCEPT ![p] = g]

LEMMA CountSet ==
  ASSUME GuardAssumption, NEW ptr \in [Places -> AllGuards], NEW p \in Places, NEW g, NEW x,
         NEW new, new = Put(ptr, p, g)
  PROVE  Count(new, x) = Count(ptr, x) - Same(ptr[p], x) + Same(g, x)
  <1>2. new[p] = g /\ \A q \in Places : q # p => new[q] = ptr[q]
    BY DEF Put
  <1>3. PICK S : S = PlacesOf(ptr, x) /\ IsFiniteSet(S) /\ Cardinality(S) = Count(ptr, x) /\ Cardinality(S) \in Nat
    BY CountType DEF Count
  <1>4. CASE g = x
    <2>1. PlacesOf(new, x) = S \cup {p}
      BY <1>2, <1>3, <1>4 DEF PlacesOf
    <2>2. Cardinality(S \cup {p}) = IF p \in S THEN Cardinality(S) ELSE Cardinality(S) + 1
      BY <1>3, FS_AddElement
    <2>3. p \in S <=> ptr[p] = x
      BY <1>3 DEF PlacesOf
    <2>4. Count(new, x) = Cardinality(S \cup {p})
      BY <2>1 DEF Count
    <2>5. Same(g, x) = 1
      BY <1>4, SameIs
    <2>6. CASE ptr[p] = x
      <3>1. Same(ptr[p], x) = 1
        BY <2>6, SameIs
      <3> QED BY <1>3, <2>2, <2>3, <2>4, <2>5, <2>6, <3>1
    <2>7. CASE ptr[p] # x
      <3>1. Same(ptr[p], x) = 0
        BY <2>7, SameIs
      <3> QED BY <1>3, <2>2, <2>3, <2>4, <2>5, <2>7, <3>1
    <2> QED BY <2>6, <2>7
  <1>5. CASE g # x
    <2>1. PlacesOf(new, x) = S \ {p}
      BY <1>2, <1>3, <1>5 DEF PlacesOf
    <2>2. Cardinality(S \ {p}) = IF p \in S THEN Cardinality(S) - 1 ELSE Cardinality(S)
      BY <1>3, FS_RemoveElement
    <2>3. p \in S <=> ptr[p] = x
      BY <1>3 DEF PlacesOf
    <2>4. Count(new, x) = Cardinality(S \ {p})
      BY <2>1 DEF Count
    <2>5. Same(g, x) = 0
      BY <1>5, SameIs
    <2>6. CASE ptr[p] = x
      <3>1. Same(ptr[p], x) = 1
        BY <2>6, SameIs
      <3> QED BY <1>3, <2>2, <2>3, <2>4, <2>5, <2>6, <3>1
    <2>7. CASE ptr[p] # x
      <3>1. Same(ptr[p], x) = 0
        BY <2>7, SameIs
      <3> QED BY <1>3, <2>2, <2>3, <2>4, <2>5, <2>7, <3>1
    <2> QED BY <2>6, <2>7
  <1> QED BY <1>4, <1>5

\* The objects that a guard keeps, if impl i keeps R[i].
Keeps(R, g) ==
  {o \in ObjectIds : g = Guard!Raw(o) \/ \E i \in ImplIds : g = Guard!Impl(i) /\ o \in R[i]}

LEMMA KeepsIs ==
  ASSUME NEW R \in [ImplIds -> SUBSET ObjectIds]
  PROVE  /\ Keeps(R, Guard!Null) = {}
         /\ \A o \in ObjectIds : Keeps(R, Guard!Raw(o)) = {o}
         /\ \A i \in ImplIds : Keeps(R, Guard!Impl(i)) = R[i]
  <1>1. Keeps(R, Guard!Null) = {}
    BY GuardsDiffer DEF Keeps
  <1>2. ASSUME NEW o \in ObjectIds PROVE Keeps(R, Guard!Raw(o)) = {o}
    BY GuardsDiffer DEF Keeps
  <1>3. ASSUME NEW i \in ImplIds PROVE Keeps(R, Guard!Impl(i)) = R[i]
    <2>1. R[i] \subseteq ObjectIds
      OBVIOUS
    <2>2. ASSUME NEW o \in Keeps(R, Guard!Impl(i)) PROVE o \in R[i]
      BY GuardsDiffer DEF Keeps
    <2>3. ASSUME NEW o \in R[i] PROVE o \in Keeps(R, Guard!Impl(i))
      BY <2>1 DEF Keeps
    <2> QED BY <2>2, <2>3
  <1> QED BY <1>1, <1>2, <1>3

LEMMA KeepsSame ==
  ASSUME NEW R, NEW Q, NEW g, \A i \in ImplIds : g = Guard!Impl(i) => Q[i] = R[i]
  PROVE  Keeps(Q, g) = Keeps(R, g)
  BY DEF Keeps

LEMMA KeepsType ==
  ASSUME NEW R, NEW g
  PROVE  Keeps(R, g) \in SUBSET ObjectIds
  BY DEF Keeps

----------------------------------------------------------------------------
(***************************************************************************)
(* The graph that the guards make.  refs counts the places of each impl;   *)
(* an object that is not freed is in one place; an impl that is not used   *)
(* has no guards; R says which objects an impl keeps, and the ranks that   *)
(* there are no cycles.                                                    *)
(***************************************************************************)

GraphTypes(ptr, refs, freed, R, rank) ==
  /\ ptr \in [Places -> AllGuards]
  /\ refs \in [ImplIds -> Nat]
  /\ freed \in [ObjectIds -> {0, 1}]
  /\ R \in [ImplIds -> SUBSET ObjectIds]
  /\ rank \in [ImplIds -> Nat]

Counted(ptr, refs, freed) ==
  /\ \A i \in ImplIds : Count(ptr, Guard!Impl(i)) = refs[i]
  /\ \A o \in ObjectIds : Count(ptr, Guard!Raw(o)) = 1 - freed[o]

UnusedEmpty(ptr, refs) ==
  \A i \in ImplIds :
    refs[i] = 0 => ptr[Owns(i)] = Guard!Null /\ ptr[Behind(i)] = Guard!Null

Reaches(ptr, R) ==
  \A i \in ImplIds : R[i] = Keeps(R, ptr[Owns(i)]) \cup Keeps(R, ptr[Behind(i)])

Ranked(ptr, rank) ==
  \A i, j \in ImplIds :
    (ptr[Owns(i)] = Guard!Impl(j) \/ ptr[Behind(i)] = Guard!Impl(j)) => rank[j] < rank[i]

Graph(ptr, refs, freed, R, rank) ==
  /\ GraphTypes(ptr, refs, freed, R, rank)
  /\ Counted(ptr, refs, freed)
  /\ UnusedEmpty(ptr, refs)
  /\ Reaches(ptr, R)
  /\ Ranked(ptr, rank)

\* The impls keep their guards.
SameInside(ptr, new) ==
  \A i \in ImplIds : new[Owns(i)] = ptr[Owns(i)] /\ new[Behind(i)] = ptr[Behind(i)]

LEMMA ShapeKept ==
  ASSUME NEW ptr, NEW new, NEW R, NEW rank, Reaches(ptr, R), Ranked(ptr, rank),
         SameInside(ptr, new)
  PROVE  Reaches(new, R) /\ Ranked(new, rank)
  BY DEF Reaches, Ranked, SameInside

\* A place outside of the impls changes.
Sets(ptr, p, g, new) ==
  /\ new \in [Places -> AllGuards] /\ new[p] = g
  /\ \A q \in Places : q # p => new[q] = ptr[q]
  /\ \A i \in ImplIds : new[Owns(i)] = ptr[Owns(i)] /\ new[Behind(i)] = ptr[Behind(i)]
  /\ \A x : Count(new, x) = Count(ptr, x) - Same(ptr[p], x) + Same(g, x)

LEMMA OuterSet ==
  ASSUME GuardAssumption, NEW ptr \in [Places -> AllGuards], NEW p \in Outer, NEW g \in AllGuards,
         NEW new, new = Put(ptr, p, g)
  PROVE  Sets(ptr, p, g, new)
  <1>1. p \in Places
    BY PlacesIn
  <1>2. new \in [Places -> AllGuards] /\ new[p] = g /\ \A q \in Places : q # p => new[q] = ptr[q]
    BY <1>1 DEF Put
  <1>3. ASSUME NEW i \in ImplIds
        PROVE  new[Owns(i)] = ptr[Owns(i)] /\ new[Behind(i)] = ptr[Behind(i)]
    <2>1. Owns(i) \in Places /\ Behind(i) \in Places /\ Owns(i) # p /\ Behind(i) # p
      BY PlacesIn
    <2> QED BY <1>2, <2>1
  <1>4. ASSUME NEW x PROVE Count(new, x) = Count(ptr, x) - Same(ptr[p], x) + Same(g, x)
    BY <1>1, CountSet
  <1> QED BY <1>2, <1>3, <1>4 DEF Sets

\* What a graph says of one impl and of one object.
LEMMA GraphSays ==
  ASSUME NEW ptr, NEW refs, NEW freed, NEW R, NEW rank, Graph(ptr, refs, freed, R, rank)
  PROVE  /\ ptr \in [Places -> AllGuards] /\ refs \in [ImplIds -> Nat]
         /\ freed \in [ObjectIds -> {0, 1}]
         /\ R \in [ImplIds -> SUBSET ObjectIds] /\ rank \in [ImplIds -> Nat]
         /\ \A i \in ImplIds : Count(ptr, Guard!Impl(i)) = refs[i] /\ refs[i] \in Nat
         /\ \A o \in ObjectIds : Count(ptr, Guard!Raw(o)) = 1 - freed[o] /\ freed[o] \in {0, 1}
  BY DEF Graph, GraphTypes, Counted

\* A guard moves.
LEMMA GraphMove ==
  ASSUME GuardAssumption, NEW ptr, NEW refs, NEW freed, NEW R, NEW rank, Graph(ptr, refs, freed, R, rank),
         NEW p \in Outer, NEW q \in Outer, p # q, ptr[q] = Guard!Null,
         NEW new, new = Put(Put(ptr, q, ptr[p]), p, Guard!Null)
  PROVE  Graph(new, refs, freed, R, rank)
  <1>1. ptr \in [Places -> AllGuards] /\ p \in Places /\ q \in Places /\ ptr[p] \in AllGuards
    BY GraphSays, PlacesIn
  <1>2. PICK mid : mid = Put(ptr, q, ptr[p])
    OBVIOUS
  <1>3. /\ mid \in [Places -> AllGuards]
        /\ \A x \in Places : x # q => mid[x] = ptr[x]
        /\ \A i \in ImplIds : mid[Owns(i)] = ptr[Owns(i)] /\ mid[Behind(i)] = ptr[Behind(i)]
        /\ \A x : Count(mid, x) = Count(ptr, x) - Same(ptr[q], x) + Same(ptr[p], x)
    <2>1. Sets(ptr, q, ptr[p], mid)
      BY <1>1, <1>2, OuterSet
    <2> QED BY <2>1 DEF Sets
  <1>4. /\ new \in [Places -> AllGuards]
        /\ \A i \in ImplIds : new[Owns(i)] = mid[Owns(i)] /\ new[Behind(i)] = mid[Behind(i)]
        /\ \A x : Count(new, x) = Count(mid, x) - Same(mid[p], x) + Same(Guard!Null, x)
    <2>1. Sets(mid, p, Guard!Null, new)
      <3>1. new = Put(mid, p, Guard!Null) /\ Guard!Null \in AllGuards
        BY <1>2, GuardIn
      <3> QED BY <1>3, <3>1, OuterSet
    <2> QED BY <2>1 DEF Sets
  <1>5. mid[p] = ptr[p]
    BY <1>1, <1>3
  <1>6. ASSUME NEW x PROVE Count(new, x) = Count(ptr, x)
    <2>1. Count(mid, x) = Count(ptr, x) - Same(Guard!Null, x) + Same(ptr[p], x)
      BY <1>3
    <2>2. Count(new, x) = Count(mid, x) - Same(ptr[p], x) + Same(Guard!Null, x)
      BY <1>4, <1>5
    <2>3. Count(ptr, x) \in Nat /\ Same(Guard!Null, x) \in Nat /\ Same(ptr[p], x) \in Nat
      BY CountType, SameIs
    <2> QED BY <2>1, <2>2, <2>3
  <1>7. Counted(new, refs, freed)
    BY <1>6 DEF Graph, Counted
  <1>8. \A i \in ImplIds : new[Owns(i)] = ptr[Owns(i)] /\ new[Behind(i)] = ptr[Behind(i)]
    BY <1>3, <1>4
  <1>9. UnusedEmpty(new, refs)
    BY <1>8 DEF Graph, UnusedEmpty
  <1>10. Reaches(new, R) /\ Ranked(new, rank)
    <2>1. Reaches(ptr, R) /\ Ranked(ptr, rank)
      BY DEF Graph
    <2>2. SameInside(ptr, new)
      BY <1>8 DEF SameInside
    <2> QED BY <2>1, <2>2, ShapeKept
  <1> QED BY <1>4, <1>7, <1>9, <1>10 DEF Graph, GraphTypes

\* The counts follow a guard that changes from old to g.
Recounted(refs, freed, old, g, refs2, freed2) ==
  /\ refs2 \in [ImplIds -> Nat] /\ freed2 \in [ObjectIds -> {0, 1}]
  /\ \A i \in ImplIds :
       refs2[i] = refs[i] - Same(old, Guard!Impl(i)) + Same(g, Guard!Impl(i))
  /\ \A o \in ObjectIds :
       1 - freed2[o] = (1 - freed[o]) - Same(old, Guard!Raw(o)) + Same(g, Guard!Raw(o))

LEMMA GraphSet ==
  ASSUME GuardAssumption, NEW ptr, NEW refs, NEW freed, NEW R, NEW rank, Graph(ptr, refs, freed, R, rank),
         NEW p \in Outer, NEW g \in AllGuards, NEW new, new = Put(ptr, p, g),
         NEW refs2, NEW freed2, Recounted(refs, freed, ptr[p], g, refs2, freed2),
         UnusedEmpty(ptr, refs2)
  PROVE  Graph(new, refs2, freed2, R, rank)
  <1>1. ptr \in [Places -> AllGuards]
    BY GraphSays
  <1>2. Sets(ptr, p, g, new)
    BY <1>1, OuterSet
  <1>3. ASSUME NEW i \in ImplIds PROVE Count(new, Guard!Impl(i)) = refs2[i]
    <2>1. Count(new, Guard!Impl(i)) = Count(ptr, Guard!Impl(i)) - Same(ptr[p], Guard!Impl(i)) + Same(g, Guard!Impl(i))
      BY <1>2 DEF Sets
    <2>2. Count(ptr, Guard!Impl(i)) = refs[i]
      BY GraphSays
    <2> QED BY <2>1, <2>2 DEF Recounted
  <1>4. ASSUME NEW o \in ObjectIds PROVE Count(new, Guard!Raw(o)) = 1 - freed2[o]
    <2>1. Count(new, Guard!Raw(o)) = Count(ptr, Guard!Raw(o)) - Same(ptr[p], Guard!Raw(o)) + Same(g, Guard!Raw(o))
      BY <1>2 DEF Sets
    <2>2. Count(ptr, Guard!Raw(o)) = 1 - freed[o]
      BY GraphSays
    <2> QED BY <2>1, <2>2 DEF Recounted
  <1>5. SameInside(ptr, new)
    BY <1>2 DEF Sets, SameInside
  <1>6. Reaches(new, R) /\ Ranked(new, rank)
    <2>1. Reaches(ptr, R) /\ Ranked(ptr, rank)
      BY DEF Graph
    <2> QED BY <1>5, <2>1, ShapeKept
  <1>7. UnusedEmpty(new, refs2)
    BY <1>5 DEF UnusedEmpty, SameInside
  <1>8. GraphTypes(new, refs2, freed2, R, rank)
    BY <1>2, GraphSays DEF GraphTypes, Sets, Recounted
  <1> QED BY <1>3, <1>4, <1>6, <1>7, <1>8 DEF Graph, Counted

\* A guard of an impl is added; the impl is used already.
LEMMA GraphFill ==
  ASSUME GuardAssumption, NEW ptr, NEW refs, NEW freed, NEW R, NEW rank, Graph(ptr, refs, freed, R, rank),
         NEW p \in Outer, ptr[p] = Guard!Null, NEW i \in ImplIds, refs[i] # 0
  PROVE  Graph(Put(ptr, p, Guard!Impl(i)), [refs EXCEPT ![i] = @ + 1], freed, R, rank)
  <1>1. PICK refs2 : refs2 = [refs EXCEPT ![i] = @ + 1]
    OBVIOUS
  <1>2. refs \in [ImplIds -> Nat] /\ freed \in [ObjectIds -> {0, 1}]
    BY GraphSays
  <1>3. refs2 \in [ImplIds -> Nat] /\ refs2[i] = refs[i] + 1 /\ \A j \in ImplIds : j # i => refs2[j] = refs[j]
    BY <1>1, <1>2
  <1>4. \A j \in ImplIds : Same(Guard!Null, Guard!Impl(j)) = 0 /\ (j # i => Same(Guard!Impl(i), Guard!Impl(j)) = 0)
    BY GuardsDiffer, SameIs
  <1>5. Same(Guard!Impl(i), Guard!Impl(i)) = 1
    BY SameIs
  <1>6. \A o \in ObjectIds : Same(Guard!Null, Guard!Raw(o)) = 0 /\ Same(Guard!Impl(i), Guard!Raw(o)) = 0
    BY GuardsDiffer, SameIs
  <1>7. Recounted(refs, freed, ptr[p], Guard!Impl(i), refs2, freed)
    <2>1. ASSUME NEW j \in ImplIds
          PROVE  refs2[j] = refs[j] - Same(ptr[p], Guard!Impl(j)) + Same(Guard!Impl(i), Guard!Impl(j))
      <3>1. refs[j] \in Nat
        BY <1>2
      <3>2. CASE j = i
        BY <1>3, <1>4, <1>5, <3>1, <3>2
      <3>3. CASE j # i
        BY <1>3, <1>4, <3>1, <3>3
      <3> QED BY <3>2, <3>3
    <2>2. ASSUME NEW o \in ObjectIds
          PROVE  1 - freed[o] = (1 - freed[o]) - Same(ptr[p], Guard!Raw(o)) + Same(Guard!Impl(i), Guard!Raw(o))
      <3>1. freed[o] \in Int
        BY <1>2
      <3> QED BY <1>6, <3>1
    <2> QED BY <1>2, <1>3, <2>1, <2>2 DEF Recounted
  <1>8. UnusedEmpty(ptr, refs2)
    <2>1. UnusedEmpty(ptr, refs)
      BY DEF Graph
    <2>2. \A j \in ImplIds : refs2[j] = 0 => refs[j] = 0
      BY <1>2, <1>3
    <2> QED BY <2>1, <2>2 DEF UnusedEmpty
  <1>9. Guard!Impl(i) \in AllGuards
    BY GuardIn
  <1> QED BY <1>1, <1>7, <1>8, <1>9, GraphSet

\* One of several guards of an impl is released.
LEMMA GraphDrop ==
  ASSUME GuardAssumption, NEW ptr, NEW refs, NEW freed, NEW R, NEW rank, Graph(ptr, refs, freed, R, rank),
         NEW p \in Outer, NEW i \in ImplIds, ptr[p] = Guard!Impl(i), refs[i] > 1
  PROVE  Graph(Put(ptr, p, Guard!Null), [refs EXCEPT ![i] = @ - 1], freed, R, rank)
  <1>1. PICK refs2 : refs2 = [refs EXCEPT ![i] = @ - 1]
    OBVIOUS
  <1>2. refs \in [ImplIds -> Nat] /\ freed \in [ObjectIds -> {0, 1}]
    BY GraphSays
  <1>3. refs2 \in [ImplIds -> Nat] /\ refs2[i] = refs[i] - 1 /\ \A j \in ImplIds : j # i => refs2[j] = refs[j]
    <2>1. refs[i] - 1 \in Nat
      BY <1>2
    <2> QED BY <1>1, <1>2, <2>1
  <1>4. \A j \in ImplIds : Same(Guard!Null, Guard!Impl(j)) = 0 /\ (j # i => Same(Guard!Impl(i), Guard!Impl(j)) = 0)
    BY GuardsDiffer, SameIs
  <1>5. Same(Guard!Impl(i), Guard!Impl(i)) = 1
    BY SameIs
  <1>6. \A o \in ObjectIds : Same(Guard!Null, Guard!Raw(o)) = 0 /\ Same(Guard!Impl(i), Guard!Raw(o)) = 0
    BY GuardsDiffer, SameIs
  <1>7. Recounted(refs, freed, ptr[p], Guard!Null, refs2, freed)
    <2>1. ASSUME NEW j \in ImplIds
          PROVE  refs2[j] = refs[j] - Same(ptr[p], Guard!Impl(j)) + Same(Guard!Null, Guard!Impl(j))
      <3>1. refs[j] \in Nat
        BY <1>2
      <3>2. CASE j = i
        BY <1>3, <1>4, <1>5, <3>1, <3>2
      <3>3. CASE j # i
        BY <1>3, <1>4, <3>1, <3>3
      <3> QED BY <3>2, <3>3
    <2>2. ASSUME NEW o \in ObjectIds
          PROVE  1 - freed[o] = (1 - freed[o]) - Same(ptr[p], Guard!Raw(o)) + Same(Guard!Null, Guard!Raw(o))
      <3>1. freed[o] \in Int
        BY <1>2
      <3> QED BY <1>6, <3>1
    <2> QED BY <1>2, <1>3, <2>1, <2>2 DEF Recounted
  <1>8. UnusedEmpty(ptr, refs2)
    <2>1. UnusedEmpty(ptr, refs)
      BY DEF Graph
    <2>2. \A j \in ImplIds : refs2[j] = 0 => refs[j] = 0
      BY <1>2, <1>3
    <2> QED BY <2>1, <2>2 DEF UnusedEmpty
  <1>9. Guard!Null \in AllGuards
    BY GuardIn
  <1> QED BY <1>1, <1>7, <1>8, <1>9, GraphSet

\* Memory is allocated, and its guard frees it.
LEMMA GraphAllocate ==
  ASSUME GuardAssumption, NEW ptr, NEW refs, NEW freed, NEW R, NEW rank, Graph(ptr, refs, freed, R, rank),
         NEW p \in Outer, ptr[p] = Guard!Null, NEW o \in ObjectIds, freed[o] # 0
  PROVE  Graph(Put(ptr, p, Guard!Raw(o)), refs, [freed EXCEPT ![o] = 0], R, rank)
  <1>1. PICK freed2 : freed2 = [freed EXCEPT ![o] = 0]
    OBVIOUS
  <1>2. refs \in [ImplIds -> Nat] /\ freed \in [ObjectIds -> {0, 1}] /\ freed[o] = 1
    BY GraphSays
  <1>3. freed2 \in [ObjectIds -> {0, 1}] /\ freed2[o] = 0 /\ \A q \in ObjectIds : q # o => freed2[q] = freed[q]
    BY <1>1, <1>2
  <1>4. \A j \in ImplIds : Same(Guard!Null, Guard!Impl(j)) = 0 /\ Same(Guard!Raw(o), Guard!Impl(j)) = 0
    BY GuardsDiffer, SameIs
  <1>5. Same(Guard!Raw(o), Guard!Raw(o)) = 1
    BY SameIs
  <1>6. \A q \in ObjectIds : Same(Guard!Null, Guard!Raw(q)) = 0 /\ (q # o => Same(Guard!Raw(o), Guard!Raw(q)) = 0)
    BY GuardsDiffer, SameIs
  <1>7. Recounted(refs, freed, ptr[p], Guard!Raw(o), refs, freed2)
    <2>1. ASSUME NEW j \in ImplIds
          PROVE  refs[j] = refs[j] - Same(ptr[p], Guard!Impl(j)) + Same(Guard!Raw(o), Guard!Impl(j))
      <3>1. refs[j] \in Nat
        BY <1>2
      <3> QED BY <1>4, <3>1
    <2>2. ASSUME NEW q \in ObjectIds
          PROVE  1 - freed2[q] = (1 - freed[q]) - Same(ptr[p], Guard!Raw(q)) + Same(Guard!Raw(o), Guard!Raw(q))
      <3>1. freed[q] \in Int
        BY <1>2
      <3>2. CASE q = o
        BY <1>2, <1>3, <1>5, <1>6, <3>2
      <3>3. CASE q # o
        BY <1>3, <1>6, <3>1, <3>3
      <3> QED BY <3>2, <3>3
    <2> QED BY <1>2, <1>3, <2>1, <2>2 DEF Recounted
  <1>8. UnusedEmpty(ptr, refs)
    BY DEF Graph
  <1>9. Guard!Raw(o) \in AllGuards
    BY GuardIn
  <1> QED BY <1>1, <1>7, <1>8, <1>9, GraphSet

\* Memory is freed: it was not yet.
LEMMA GraphFree ==
  ASSUME GuardAssumption, NEW ptr, NEW refs, NEW freed, NEW R, NEW rank, Graph(ptr, refs, freed, R, rank),
         NEW p \in Outer, NEW o \in ObjectIds, ptr[p] = Guard!Raw(o)
  PROVE  Graph(Put(ptr, p, Guard!Null), refs, [freed EXCEPT ![o] = @ + 1], R, rank)
  <1>1. PICK freed2 : freed2 = [freed EXCEPT ![o] = @ + 1]
    OBVIOUS
  <1>2. refs \in [ImplIds -> Nat] /\ freed \in [ObjectIds -> {0, 1}]
    BY GraphSays
  <1>10. freed[o] = 0
    <2>1. Count(ptr, Guard!Raw(o)) # 0
      BY PlacesIn, CountSome
    <2>2. Count(ptr, Guard!Raw(o)) = 1 - freed[o]
      BY GraphSays
    <2> QED BY <1>2, <2>1, <2>2
  <1>3. freed2 \in [ObjectIds -> {0, 1}] /\ freed2[o] = 1 /\ \A q \in ObjectIds : q # o => freed2[q] = freed[q]
    BY <1>1, <1>2, <1>10
  <1>4. \A j \in ImplIds : Same(Guard!Null, Guard!Impl(j)) = 0 /\ Same(Guard!Raw(o), Guard!Impl(j)) = 0
    BY GuardsDiffer, SameIs
  <1>5. Same(Guard!Raw(o), Guard!Raw(o)) = 1
    BY SameIs
  <1>6. \A q \in ObjectIds : Same(Guard!Null, Guard!Raw(q)) = 0 /\ (q # o => Same(Guard!Raw(o), Guard!Raw(q)) = 0)
    BY GuardsDiffer, SameIs
  <1>7. Recounted(refs, freed, ptr[p], Guard!Null, refs, freed2)
    <2>1. ASSUME NEW j \in ImplIds
          PROVE  refs[j] = refs[j] - Same(ptr[p], Guard!Impl(j)) + Same(Guard!Null, Guard!Impl(j))
      <3>1. refs[j] \in Nat
        BY <1>2
      <3> QED BY <1>4, <3>1
    <2>2. ASSUME NEW q \in ObjectIds
          PROVE  1 - freed2[q] = (1 - freed[q]) - Same(ptr[p], Guard!Raw(q)) + Same(Guard!Null, Guard!Raw(q))
      <3>1. freed[q] \in Int
        BY <1>2
      <3>2. CASE q = o
        BY <1>10, <1>3, <1>5, <1>6, <3>2
      <3>3. CASE q # o
        BY <1>3, <1>6, <3>1, <3>3
      <3> QED BY <3>2, <3>3
    <2> QED BY <1>2, <1>3, <2>1, <2>2 DEF Recounted
  <1>8. UnusedEmpty(ptr, refs)
    BY DEF Graph
  <1>9. Guard!Null \in AllGuards
    BY GuardIn
  <1> QED BY <1>1, <1>7, <1>8, <1>9, GraphSet

\* Two places exchange their guards: nothing is counted differently.
Swaps(ptr, p, q, new) ==
  /\ new \in [Places -> AllGuards] /\ new[p] = ptr[q] /\ new[q] = ptr[p]
  /\ \A x \in Places : x # p /\ x # q => new[x] = ptr[x]
  /\ \A x : Count(new, x) = Count(ptr, x)

LEMMA SwapPlaces ==
  ASSUME GuardAssumption, NEW ptr \in [Places -> AllGuards], NEW p \in Places, NEW q \in Places, p # q
  PROVE  \E new : Swaps(ptr, p, q, new)
  <1>1. ptr[p] \in AllGuards /\ ptr[q] \in AllGuards
    OBVIOUS
  <1>2. PICK mid : mid = Put(ptr, q, ptr[p])
    OBVIOUS
  <1>3. mid \in [Places -> AllGuards] /\ mid[q] = ptr[p] /\ \A x \in Places : x # q => mid[x] = ptr[x]
    BY <1>1, <1>2 DEF Put
  <1>4. PICK new : new = Put(mid, p, ptr[q])
    OBVIOUS
  <1>5. new \in [Places -> AllGuards] /\ new[p] = ptr[q] /\ \A x \in Places : x # p => new[x] = mid[x]
    BY <1>1, <1>3, <1>4 DEF Put
  <1>6. ASSUME NEW x PROVE Count(new, x) = Count(ptr, x)
    <2>1. Count(mid, x) = Count(ptr, x) - Same(ptr[q], x) + Same(ptr[p], x)
      BY <1>2, CountSet
    <2>2. Count(new, x) = Count(mid, x) - Same(mid[p], x) + Same(ptr[q], x)
      BY <1>3, <1>4, CountSet
    <2>3. mid[p] = ptr[p]
      BY <1>3
    <2>4. Count(ptr, x) \in Nat /\ Same(ptr[q], x) \in Nat /\ Same(ptr[p], x) \in Nat
      BY CountType, SameIs
    <2> QED BY <2>1, <2>2, <2>3, <2>4
  <1>7. new[q] = ptr[p] /\ \A x \in Places : x # p /\ x # q => new[x] = ptr[x]
    BY <1>3, <1>5
  <1> QED BY <1>5, <1>6, <1>7 DEF Swaps

\* The ranks have a bound.
LEMMA RankBound ==
  ASSUME GuardAssumption, NEW rank \in [ImplIds -> Nat]
  PROVE  \E top \in Nat : \A i \in ImplIds : rank[i] <= top
  <1> DEFINE Has(n) == \E top \in Nat : \A i \in 1 .. n : rank[i] <= top
             T == {n \in 0 .. MaxImpls : ~Has(n)}
  <1>0. MaxImpls \in Nat
    BY DEF GuardAssumption
  <1>1. SUFFICES ASSUME ~Has(MaxImpls) PROVE FALSE
    BY DEF ImplIds
  <1>2. T # {} /\ T \subseteq Nat
    <2> HIDE DEF Has
    <2> QED BY <1>0, <1>1
  <1>3. PICK n \in T : \A k \in T : n <= k
    <2> HIDE DEF T
    <2> QED BY <1>2, LeastLength
  <1>4. n \in 0 .. MaxImpls /\ ~Has(n)
    <2> HIDE DEF Has
    <2> QED BY <1>3
  <1>5. n # 0
    <2>1. Has(0)
      <3>1. \A i \in 1 .. 0 : rank[i] <= 0
        OBVIOUS
      <3> QED BY <3>1
    <2> HIDE DEF Has
    <2> QED BY <1>4, <2>1
  <1>6. Has(n - 1)
    <2> HIDE DEF Has
    <2>1. n - 1 \in 0 .. MaxImpls /\ ~(n <= n - 1)
      BY <1>0, <1>4, <1>5
    <2>2. n - 1 \notin T
      BY <1>3, <2>1
    <2> QED BY <2>1, <2>2
  <1>7. PICK top \in Nat : \A i \in 1 .. n - 1 : rank[i] <= top
    BY <1>6
  <1>8. n \in ImplIds /\ rank[n] \in Nat
    BY <1>0, <1>4, <1>5 DEF ImplIds
  <1>9. PICK C \in Nat : C = top + rank[n]
    BY <1>8
  <1>10. ASSUME NEW i \in 1 .. n PROVE rank[i] <= C
    <2>1. i \in ImplIds /\ rank[i] \in Nat
      BY <1>0, <1>4 DEF ImplIds
    <2>2. CASE i = n
      BY <1>8, <1>9, <2>2
    <2>3. CASE i # n
      <3>1. i \in 1 .. n - 1
        BY <1>4, <2>3
      <3>2. rank[i] <= top
        BY <1>7, <3>1
      <3> QED BY <1>8, <1>9, <2>1, <3>2
    <2> QED BY <2>2, <2>3
  <1>11. Has(n)
    BY <1>10
  <1> HIDE DEF Has
  <1> QED BY <1>4, <1>11

----------------------------------------------------------------------------
(***************************************************************************)
(* An impl is made for the guard at p, with the guard at n behind it.      *)
(***************************************************************************)

NewAt(ptr, k, p, n, new) ==
  /\ new[p] = Guard!Impl(k) /\ new[n] = Guard!Null
  /\ new[Owns(k)] = ptr[p] /\ new[Behind(k)] = ptr[n]
  /\ \A x \in Places : x \notin {p, n, Owns(k), Behind(k)} => new[x] = ptr[x]

\* What impl k keeps changes.
Keeping(R, k, s, R2) ==
  /\ R2 \in [ImplIds -> SUBSET ObjectIds] /\ R2[k] = s
  /\ \A i \in ImplIds : i # k => R2[i] = R[i]
  /\ \A g : g # Guard!Impl(k) => Keeps(R2, g) = Keeps(R, g)

LEMMA KeepingIs ==
  ASSUME NEW R \in [ImplIds -> SUBSET ObjectIds], NEW k \in ImplIds, NEW s \in SUBSET ObjectIds
  PROVE  \E R2 : Keeping(R, k, s, R2)
  <1>1. PICK R2 : R2 = [R EXCEPT ![k] = s]
    OBVIOUS
  <1>2. R2 \in [ImplIds -> SUBSET ObjectIds] /\ R2[k] = s /\ \A i \in ImplIds : i # k => R2[i] = R[i]
    BY <1>1
  <1>3. ASSUME NEW g, g # Guard!Impl(k) PROVE Keeps(R2, g) = Keeps(R, g)
    <2>1. \A i \in ImplIds : g = Guard!Impl(i) => R2[i] = R[i]
      BY <1>2, <1>3
    <2> QED BY <2>1, KeepsSame
  <1> QED BY <1>2, <1>3 DEF Keeping

LEMMA GraphNew ==
  ASSUME GuardAssumption, NEW ptr, NEW refs, NEW freed, NEW R, NEW rank, Graph(ptr, refs, freed, R, rank),
         NEW k \in ImplIds, refs[k] = 0, NEW p \in Outer, NEW n \in Outer, p # n
  PROVE  \E new, R2, rank2 :
           /\ Graph(new, [refs EXCEPT ![k] = 1], freed, R2, rank2)
           /\ NewAt(ptr, k, p, n, new)
           /\ Keeping(R, k, Keeps(R, ptr[p]) \cup Keeps(R, ptr[n]), R2)
  <1>1. /\ ptr \in [Places -> AllGuards] /\ refs \in [ImplIds -> Nat] /\ freed \in [ObjectIds -> {0, 1}]
        /\ R \in [ImplIds -> SUBSET ObjectIds] /\ rank \in [ImplIds -> Nat]
    BY GraphSays
  <1>2. /\ p \in Places /\ n \in Places /\ Owns(k) \in Places /\ Behind(k) \in Places
        /\ p # Owns(k) /\ p # Behind(k) /\ n # Owns(k) /\ n # Behind(k) /\ Owns(k) # Behind(k)
    BY PlacesIn, PlacesDiffer
  <1>3. ptr[Owns(k)] = Guard!Null /\ ptr[Behind(k)] = Guard!Null
    BY DEF Graph, UnusedEmpty
  <1>4. PICK a : Swaps(ptr, p, Owns(k), a)
    BY <1>1, <1>2, SwapPlaces
  <1>5. PICK b : Swaps(a, n, Behind(k), b)
    <2>1. a \in [Places -> AllGuards]
      BY <1>4 DEF Swaps
    <2> QED BY <1>2, <2>1, SwapPlaces
  <1>6. PICK new : new = Put(b, p, Guard!Impl(k))
    OBVIOUS
  <1>7. b \in [Places -> AllGuards] /\ Guard!Impl(k) \in AllGuards
    BY <1>5, GuardIn DEF Swaps
  <1>8. Sets(b, p, Guard!Impl(k), new)
    BY <1>6, <1>7, OuterSet
  <1>9. /\ a[p] = Guard!Null /\ a[Owns(k)] = ptr[p] /\ a[n] = ptr[n] /\ a[Behind(k)] = Guard!Null
        /\ \A x \in Places : x \notin {p, n, Owns(k), Behind(k)} => a[x] = ptr[x]
    BY <1>2, <1>3, <1>4 DEF Swaps
  <1>10. /\ b[p] = Guard!Null /\ b[Owns(k)] = ptr[p] /\ b[n] = Guard!Null /\ b[Behind(k)] = ptr[n]
         /\ \A x \in Places : x \notin {p, n, Owns(k), Behind(k)} => b[x] = ptr[x]
    BY <1>2, <1>5, <1>9 DEF Swaps
  <1>11. NewAt(ptr, k, p, n, new)
    BY <1>2, <1>8, <1>10 DEF Sets, NewAt
  <1>12. ASSUME NEW x PROVE Count(new, x) = Count(ptr, x) - Same(Guard!Null, x) + Same(Guard!Impl(k), x)
    <2>1. Count(b, x) = Count(ptr, x)
      BY <1>4, <1>5 DEF Swaps
    <2>2. Count(new, x) = Count(b, x) - Same(b[p], x) + Same(Guard!Impl(k), x)
      BY <1>8 DEF Sets
    <2> QED BY <1>10, <2>1, <2>2
  <1>13. PICK refs2 : refs2 = [refs EXCEPT ![k] = 1]
    OBVIOUS
  <1>14. refs2 \in [ImplIds -> Nat] /\ refs2[k] = 1 /\ \A i \in ImplIds : i # k => refs2[i] = refs[i]
    BY <1>1, <1>13
  <1>15. Counted(new, refs2, freed)
    <2>1. ASSUME NEW i \in ImplIds PROVE Count(new, Guard!Impl(i)) = refs2[i]
      <3>1. Count(ptr, Guard!Impl(i)) = refs[i] /\ refs[i] \in Nat
        BY GraphSays
      <3>2. Same(Guard!Null, Guard!Impl(i)) = 0
        BY GuardsDiffer, SameIs
      <3>3. CASE i = k
        <4>1. Same(Guard!Impl(k), Guard!Impl(i)) = 1
          BY <3>3, SameIs
        <4> QED BY <1>12, <1>14, <3>1, <3>2, <3>3, <4>1
      <3>4. CASE i # k
        <4>1. Same(Guard!Impl(k), Guard!Impl(i)) = 0
          BY <3>4, GuardsDiffer, SameIs
        <4> QED BY <1>12, <1>14, <3>1, <3>2, <3>4, <4>1
      <3> QED BY <3>3, <3>4
    <2>2. ASSUME NEW o \in ObjectIds PROVE Count(new, Guard!Raw(o)) = 1 - freed[o]
      <3>1. Count(ptr, Guard!Raw(o)) = 1 - freed[o] /\ Count(ptr, Guard!Raw(o)) \in Nat
        BY GraphSays, CountType
      <3>2. Same(Guard!Null, Guard!Raw(o)) = 0 /\ Same(Guard!Impl(k), Guard!Raw(o)) = 0
        BY GuardsDiffer, SameIs
      <3> QED BY <1>12, <3>1, <3>2
    <2> QED BY <2>1, <2>2 DEF Counted
  <1>16. ASSUME NEW i \in ImplIds, i # k
         PROVE  new[Owns(i)] = ptr[Owns(i)] /\ new[Behind(i)] = ptr[Behind(i)]
    <2>1. /\ Owns(i) \in Places /\ Behind(i) \in Places
          /\ Owns(i) \notin {p, n, Owns(k), Behind(k)} /\ Behind(i) \notin {p, n, Owns(k), Behind(k)}
      BY <1>16, PlacesIn, PlacesDiffer
    <2> QED BY <1>11, <2>1 DEF NewAt
  <1>17. UnusedEmpty(new, refs2)
    <2>1. UnusedEmpty(ptr, refs)
      BY DEF Graph
    <2> QED BY <1>14, <1>16, <2>1 DEF UnusedEmpty
  <1>18. PICK R2 : Keeping(R, k, Keeps(R, ptr[p]) \cup Keeps(R, ptr[n]), R2)
    <2>1. Keeps(R, ptr[p]) \cup Keeps(R, ptr[n]) \in SUBSET ObjectIds
      BY KeepsType
    <2> QED BY <1>1, <2>1, KeepingIs
  <1>19. ASSUME NEW x \in Places PROVE ptr[x] # Guard!Impl(k)
    <2>1. Count(ptr, Guard!Impl(k)) = 0
      BY GraphSays
    <2> QED BY <2>1, CountZero
  <1>20. ASSUME NEW x \in Places PROVE Keeps(R2, ptr[x]) = Keeps(R, ptr[x])
    BY <1>18, <1>19 DEF Keeping
  <1>21. Reaches(new, R2)
    <2>1. ASSUME NEW i \in ImplIds PROVE R2[i] = Keeps(R2, new[Owns(i)]) \cup Keeps(R2, new[Behind(i)])
      <3>1. CASE i = k
        <4>1. new[Owns(i)] = ptr[p] /\ new[Behind(i)] = ptr[n]
          BY <1>11, <3>1 DEF NewAt
        <4>2. R2[i] = Keeps(R, ptr[p]) \cup Keeps(R, ptr[n])
          BY <1>18, <3>1 DEF Keeping
        <4> QED BY <1>2, <1>20, <4>1, <4>2
      <3>2. CASE i # k
        <4>1. new[Owns(i)] = ptr[Owns(i)] /\ new[Behind(i)] = ptr[Behind(i)]
          BY <1>16, <3>2
        <4>2. Owns(i) \in Places /\ Behind(i) \in Places
          BY PlacesIn
        <4>3. R[i] = Keeps(R, ptr[Owns(i)]) \cup Keeps(R, ptr[Behind(i)])
          BY DEF Graph, Reaches
        <4>4. R2[i] = R[i]
          BY <1>18, <3>2 DEF Keeping
        <4> QED BY <1>20, <4>1, <4>2, <4>3, <4>4
      <3> QED BY <3>1, <3>2
    <2> QED BY <2>1 DEF Reaches
  <1>22. PICK top \in Nat : \A i \in ImplIds : rank[i] <= top
    BY <1>1, RankBound
  <1>23. PICK rank2 : rank2 = [rank EXCEPT ![k] = top + 1]
    OBVIOUS
  <1>24. rank2 \in [ImplIds -> Nat] /\ rank2[k] = top + 1 /\ \A i \in ImplIds : i # k => rank2[i] = rank[i]
    BY <1>1, <1>23
  <1>25. Ranked(new, rank2)
    <2>1. ASSUME NEW i \in ImplIds, NEW j \in ImplIds,
                 new[Owns(i)] = Guard!Impl(j) \/ new[Behind(i)] = Guard!Impl(j)
          PROVE  rank2[j] < rank2[i]
      <3>1. CASE i = k
        <4>1. ptr[p] = Guard!Impl(j) \/ ptr[n] = Guard!Impl(j)
          BY <1>11, <2>1, <3>1 DEF NewAt
        <4>2. j # k
          BY <1>2, <1>19, <4>1
        <4>3. rank2[j] = rank[j] /\ rank[j] <= top /\ rank[j] \in Nat
          BY <1>1, <1>22, <1>24, <4>2
        <4> QED BY <1>24, <3>1, <4>3
      <3>2. CASE i # k
        <4>1. ptr[Owns(i)] = Guard!Impl(j) \/ ptr[Behind(i)] = Guard!Impl(j)
          BY <1>16, <2>1, <3>2
        <4>2. Owns(i) \in Places /\ Behind(i) \in Places
          BY PlacesIn
        <4>3. j # k
          BY <1>19, <4>1, <4>2
        <4>4. rank[j] < rank[i]
          BY <4>1 DEF Graph, Ranked
        <4> QED BY <1>24, <3>2, <4>3, <4>4
      <3> QED BY <3>1, <3>2
    <2> QED BY <2>1 DEF Ranked
  <1>26. GraphTypes(new, refs2, freed, R2, rank2)
    BY <1>1, <1>8, <1>14, <1>18, <1>24 DEF GraphTypes, Sets, Keeping
  <1>27. Graph(new, refs2, freed, R2, rank2)
    BY <1>15, <1>17, <1>21, <1>25, <1>26 DEF Graph
  <1> QED BY <1>11, <1>13, <1>18, <1>27

----------------------------------------------------------------------------
(***************************************************************************)
(* The last guard of an impl is released: what it had waits at p and q.    *)
(***************************************************************************)

DeleteAt(ptr, i, p, q, new) ==
  /\ new[p] = ptr[Behind(i)] /\ new[q] = ptr[Owns(i)]
  /\ new[Owns(i)] = Guard!Null /\ new[Behind(i)] = Guard!Null
  /\ \A x \in Places : x \notin {p, q, Owns(i), Behind(i)} => new[x] = ptr[x]

LEMMA GraphDelete ==
  ASSUME GuardAssumption, NEW ptr, NEW refs, NEW freed, NEW R, NEW rank, Graph(ptr, refs, freed, R, rank),
         NEW k \in ImplIds, refs[k] = 1, NEW p \in Outer, NEW q \in Outer, p # q,
         ptr[p] = Guard!Impl(k), ptr[q] = Guard!Null
  PROVE  \E new, R2 :
           /\ Graph(new, [refs EXCEPT ![k] = 0], freed, R2, rank)
           /\ DeleteAt(ptr, k, p, q, new)
           /\ Keeping(R, k, {}, R2)
  <1>1. /\ ptr \in [Places -> AllGuards] /\ refs \in [ImplIds -> Nat] /\ freed \in [ObjectIds -> {0, 1}]
        /\ R \in [ImplIds -> SUBSET ObjectIds] /\ rank \in [ImplIds -> Nat]
    BY GraphSays
  <1>2. /\ p \in Places /\ q \in Places /\ Owns(k) \in Places /\ Behind(k) \in Places
        /\ p # Owns(k) /\ p # Behind(k) /\ q # Owns(k) /\ q # Behind(k) /\ Owns(k) # Behind(k)
    BY PlacesIn, PlacesDiffer
  <1>3. ASSUME NEW x \in Places, x # p PROVE ptr[x] # Guard!Impl(k)
    <2>1. Count(ptr, Guard!Impl(k)) = 1
      BY GraphSays
    <2> QED BY <1>2, <1>3, <2>1, CountOne
  <1>4. PICK a : a = Put(ptr, p, Guard!Null)
    OBVIOUS
  <1>5. Sets(ptr, p, Guard!Null, a)
    BY <1>1, <1>4, GuardIn, OuterSet
  <1>6. PICK b : Swaps(a, q, Owns(k), b)
    <2>1. a \in [Places -> AllGuards]
      BY <1>5 DEF Sets
    <2> QED BY <1>2, <2>1, SwapPlaces
  <1>7. PICK new : Swaps(b, p, Behind(k), new)
    <2>1. b \in [Places -> AllGuards]
      BY <1>6 DEF Swaps
    <2> QED BY <1>2, <2>1, SwapPlaces
  <1>8. a[p] = Guard!Null /\ \A x \in Places : x # p => a[x] = ptr[x]
    BY <1>5 DEF Sets
  <1>9. /\ b[p] = Guard!Null /\ b[q] = ptr[Owns(k)] /\ b[Owns(k)] = Guard!Null /\ b[Behind(k)] = ptr[Behind(k)]
        /\ \A x \in Places : x \notin {p, q, Owns(k), Behind(k)} => b[x] = ptr[x]
    BY <1>2, <1>6, <1>8 DEF Swaps
  <1>10. DeleteAt(ptr, k, p, q, new)
    BY <1>2, <1>7, <1>9 DEF Swaps, DeleteAt
  <1>12. ASSUME NEW x PROVE Count(new, x) = Count(ptr, x) - Same(Guard!Impl(k), x) + Same(Guard!Null, x)
    <2>1. Count(new, x) = Count(a, x)
      BY <1>6, <1>7 DEF Swaps
    <2>2. Count(a, x) = Count(ptr, x) - Same(ptr[p], x) + Same(Guard!Null, x)
      BY <1>5 DEF Sets
    <2> QED BY <2>1, <2>2
  <1>13. PICK refs2 : refs2 = [refs EXCEPT ![k] = 0]
    OBVIOUS
  <1>14. refs2 \in [ImplIds -> Nat] /\ refs2[k] = 0 /\ \A i \in ImplIds : i # k => refs2[i] = refs[i]
    BY <1>1, <1>13
  <1>15. Counted(new, refs2, freed)
    <2>1. ASSUME NEW i \in ImplIds PROVE Count(new, Guard!Impl(i)) = refs2[i]
      <3>1. Count(ptr, Guard!Impl(i)) = refs[i] /\ refs[i] \in Nat
        BY GraphSays
      <3>2. Same(Guard!Null, Guard!Impl(i)) = 0
        BY GuardsDiffer, SameIs
      <3>3. CASE i = k
        <4>1. Same(Guard!Impl(k), Guard!Impl(i)) = 1
          BY <3>3, SameIs
        <4> QED BY <1>12, <1>14, <3>1, <3>2, <3>3, <4>1
      <3>4. CASE i # k
        <4>1. Same(Guard!Impl(k), Guard!Impl(i)) = 0
          BY <3>4, GuardsDiffer, SameIs
        <4> QED BY <1>12, <1>14, <3>1, <3>2, <3>4, <4>1
      <3> QED BY <3>3, <3>4
    <2>2. ASSUME NEW o \in ObjectIds PROVE Count(new, Guard!Raw(o)) = 1 - freed[o]
      <3>1. Count(ptr, Guard!Raw(o)) = 1 - freed[o] /\ Count(ptr, Guard!Raw(o)) \in Nat
        BY GraphSays, CountType
      <3>2. Same(Guard!Null, Guard!Raw(o)) = 0 /\ Same(Guard!Impl(k), Guard!Raw(o)) = 0
        BY GuardsDiffer, SameIs
      <3> QED BY <1>12, <3>1, <3>2
    <2> QED BY <2>1, <2>2 DEF Counted
  <1>16. ASSUME NEW i \in ImplIds, i # k
         PROVE  new[Owns(i)] = ptr[Owns(i)] /\ new[Behind(i)] = ptr[Behind(i)]
    <2>1. /\ Owns(i) \in Places /\ Behind(i) \in Places
          /\ Owns(i) \notin {p, q, Owns(k), Behind(k)} /\ Behind(i) \notin {p, q, Owns(k), Behind(k)}
      BY <1>16, PlacesIn, PlacesDiffer
    <2> QED BY <1>10, <2>1 DEF DeleteAt
  <1>17. UnusedEmpty(new, refs2)
    <2>1. UnusedEmpty(ptr, refs)
      BY DEF Graph
    <2>2. new[Owns(k)] = Guard!Null /\ new[Behind(k)] = Guard!Null
      BY <1>10 DEF DeleteAt
    <2> QED BY <1>14, <1>16, <2>1, <2>2 DEF UnusedEmpty
  <1>18. PICK R2 : Keeping(R, k, {}, R2)
    BY <1>1, KeepingIs
  <1>20. ASSUME NEW x \in Places, x # p PROVE Keeps(R2, ptr[x]) = Keeps(R, ptr[x])
    BY <1>3, <1>18, <1>20 DEF Keeping
  <1>21. Reaches(new, R2)
    <2>1. ASSUME NEW i \in ImplIds PROVE R2[i] = Keeps(R2, new[Owns(i)]) \cup Keeps(R2, new[Behind(i)])
      <3>1. CASE i = k
        <4>1. new[Owns(i)] = Guard!Null /\ new[Behind(i)] = Guard!Null
          BY <1>10, <3>1 DEF DeleteAt
        <4>2. R2[i] = {} /\ R2 \in [ImplIds -> SUBSET ObjectIds]
          BY <1>18, <3>1 DEF Keeping
        <4>3. Keeps(R2, Guard!Null) = {}
          BY <4>2, KeepsIs
        <4> QED BY <4>1, <4>2, <4>3
      <3>2. CASE i # k
        <4>1. new[Owns(i)] = ptr[Owns(i)] /\ new[Behind(i)] = ptr[Behind(i)]
          BY <1>16, <3>2
        <4>2. Owns(i) \in Places /\ Behind(i) \in Places /\ Owns(i) # p /\ Behind(i) # p
          BY PlacesIn
        <4>3. R[i] = Keeps(R, ptr[Owns(i)]) \cup Keeps(R, ptr[Behind(i)])
          BY DEF Graph, Reaches
        <4>4. R2[i] = R[i]
          BY <1>18, <3>2 DEF Keeping
        <4> QED BY <1>20, <4>1, <4>2, <4>3, <4>4
      <3> QED BY <3>1, <3>2
    <2> QED BY <2>1 DEF Reaches
  <1>25. Ranked(new, rank)
    <2>1. ASSUME NEW i \in ImplIds, NEW j \in ImplIds,
                 new[Owns(i)] = Guard!Impl(j) \/ new[Behind(i)] = Guard!Impl(j)
          PROVE  rank[j] < rank[i]
      <3>1. i # k
        <4>1. Guard!Impl(j) # Guard!Null
          BY GuardsDiffer
        <4> QED BY <1>10, <2>1, <4>1 DEF DeleteAt
      <3>2. ptr[Owns(i)] = Guard!Impl(j) \/ ptr[Behind(i)] = Guard!Impl(j)
        BY <1>16, <2>1, <3>1
      <3> QED BY <3>2 DEF Graph, Ranked
    <2> QED BY <2>1 DEF Ranked
  <1>26. GraphTypes(new, refs2, freed, R2, rank)
    BY <1>1, <1>7, <1>14, <1>18 DEF GraphTypes, Swaps, Keeping
  <1>27. Graph(new, refs2, freed, R2, rank)
    BY <1>15, <1>17, <1>21, <1>25, <1>26 DEF Graph
  <1> QED BY <1>10, <1>13, <1>18, <1>27

----------------------------------------------------------------------------
(***************************************************************************)
(* The guard at p goes behind impl k, at the end of a part u of a chain    *)
(* that nothing but the place s leads to; the impls of u keep what it      *)
(* keeps, too.                                                             *)
(***************************************************************************)

\* u is reached from s only, and through its impls one after the other to k.
ChainPart(ptr, u, k, s) ==
  /\ u \in SUBSET ImplIds /\ k \in u
  /\ \A x \in Places, i \in u :
       ptr[x] = Guard!Impl(i) => x = s \/ \E j \in u : x = Behind(j)
  /\ \A i \in u : i # k => \E j \in u : ptr[Behind(i)] = Guard!Impl(j)

KeepingMore(R, u, s, R2) ==
  /\ R2 \in [ImplIds -> SUBSET ObjectIds]
  /\ \A i \in u : R2[i] = R[i] \cup s
  /\ \A i \in ImplIds : i \notin u => R2[i] = R[i]
  /\ \A g : (\A i \in u : g # Guard!Impl(i)) => Keeps(R2, g) = Keeps(R, g)

LEMMA KeepingMoreIs ==
  ASSUME NEW R \in [ImplIds -> SUBSET ObjectIds], NEW u \in SUBSET ImplIds, NEW s \in SUBSET ObjectIds
  PROVE  \E R2 : KeepingMore(R, u, s, R2)
  <1>1. PICK R2 : R2 = [i \in ImplIds |-> IF i \in u THEN R[i] \cup s ELSE R[i]]
    OBVIOUS
  <1>2. /\ R2 \in [ImplIds -> SUBSET ObjectIds]
        /\ \A i \in u : R2[i] = R[i] \cup s
        /\ \A i \in ImplIds : i \notin u => R2[i] = R[i]
    BY <1>1
  <1>3. ASSUME NEW g, \A i \in u : g # Guard!Impl(i) PROVE Keeps(R2, g) = Keeps(R, g)
    <2>1. \A i \in ImplIds : g = Guard!Impl(i) => R2[i] = R[i]
      BY <1>2, <1>3
    <2> QED BY <2>1, KeepsSame
  <1> QED BY <1>2, <1>3 DEF KeepingMore

LEMMA GraphSwap ==
  ASSUME GuardAssumption, NEW ptr, NEW refs, NEW freed, NEW R, NEW rank, Graph(ptr, refs, freed, R, rank),
         NEW u, NEW k, NEW s, ChainPart(ptr, u, k, s), refs[k] # 0,
         NEW p \in Outer, p # s, s \in Outer, Keeps(R, ptr[Behind(k)]) \subseteq Keeps(R, ptr[p])
  PROVE  \E new, R2, rank2 :
           /\ Graph(new, refs, freed, R2, rank2)
           /\ Swaps(ptr, p, Behind(k), new)
           /\ KeepingMore(R, u, Keeps(R, ptr[p]), R2)
  <1>1. /\ ptr \in [Places -> AllGuards] /\ refs \in [ImplIds -> Nat] /\ freed \in [ObjectIds -> {0, 1}]
        /\ R \in [ImplIds -> SUBSET ObjectIds] /\ rank \in [ImplIds -> Nat]
    BY GraphSays
  <1>2. /\ u \in SUBSET ImplIds /\ k \in u /\ k \in ImplIds /\ p \in Places
        /\ Owns(k) \in Places /\ Behind(k) \in Places /\ p # Behind(k)
    BY PlacesIn DEF ChainPart
  <1>3. PICK new : Swaps(ptr, p, Behind(k), new)
    BY <1>1, <1>2, SwapPlaces
  <1>4. PICK R2 : KeepingMore(R, u, Keeps(R, ptr[p]), R2)
    BY <1>1, <1>2, KeepsType, KeepingMoreIs
  <1>5. PICK top \in Nat : \A i \in ImplIds : rank[i] <= top
    BY <1>1, RankBound
  <1>6. PICK rank2 : rank2 = [i \in ImplIds |-> IF i \in u THEN rank[i] + top + 1 ELSE rank[i]]
    OBVIOUS
  <1>7. /\ rank2 \in [ImplIds -> Nat]
        /\ \A i \in u : rank2[i] = rank[i] + top + 1
        /\ \A i \in ImplIds : i \notin u => rank2[i] = rank[i]
    <2>1. \A i \in ImplIds : rank[i] \in Nat /\ rank[i] + top + 1 \in Nat
      BY <1>1
    <2> QED BY <1>2, <1>6, <2>1
  \* What does not lead into u.
  <1>8. ASSUME NEW i \in u PROVE ptr[p] # Guard!Impl(i)
    <2>1. \A j \in u : p # Behind(j)
      BY <1>2, PlacesIn
    <2> QED BY <1>2, <2>1 DEF ChainPart
  <1>9. ASSUME NEW i \in ImplIds, NEW j \in u PROVE ptr[Owns(i)] # Guard!Impl(j)
    <2>1. Owns(i) \in Places /\ Owns(i) # s /\ \A m \in u : Owns(i) # Behind(m)
      BY PlacesIn, PlacesDiffer
    <2> QED BY <2>1 DEF ChainPart
  <1>10. ASSUME NEW i \in ImplIds, i \notin u, NEW j \in u PROVE ptr[Behind(i)] # Guard!Impl(j)
    <2>1. Behind(i) \in Places /\ Behind(i) # s /\ \A m \in u : Behind(i) # Behind(m)
      BY <1>10, PlacesIn, PlacesDiffer
    <2> QED BY <2>1 DEF ChainPart
  <1>11. ASSUME NEW i \in ImplIds PROVE new[Owns(i)] = ptr[Owns(i)] /\ (i # k => new[Behind(i)] = ptr[Behind(i)])
    <2>1. Owns(i) \in Places /\ Behind(i) \in Places /\ Owns(i) # p /\ Behind(i) # p /\ Owns(i) # Behind(k)
      BY PlacesIn, PlacesDiffer
    <2>2. i # k => Behind(i) # Behind(k)
      BY PlacesDiffer
    <2> QED BY <1>3, <2>1, <2>2 DEF Swaps
  <1>12. new[Behind(k)] = ptr[p]
    BY <1>3 DEF Swaps
  <1>13. Counted(new, refs, freed)
    BY <1>3 DEF Graph, Counted, Swaps
  <1>14. UnusedEmpty(new, refs)
    <2>1. UnusedEmpty(ptr, refs)
      BY DEF Graph
    <2> QED BY <1>11, <2>1 DEF UnusedEmpty
  <1>15. Reaches(new, R2)
    <2>1. ASSUME NEW i \in ImplIds PROVE R2[i] = Keeps(R2, new[Owns(i)]) \cup Keeps(R2, new[Behind(i)])
      <3>1. R[i] = Keeps(R, ptr[Owns(i)]) \cup Keeps(R, ptr[Behind(i)])
        BY DEF Graph, Reaches
      <3>2. Keeps(R2, new[Owns(i)]) = Keeps(R, ptr[Owns(i)])
        BY <1>4, <1>9, <1>11 DEF KeepingMore
      <3>3. CASE i = k
        <4>1. Keeps(R2, new[Behind(i)]) = Keeps(R, ptr[p])
          BY <1>4, <1>8, <1>12, <3>3 DEF KeepingMore
        <4>2. R2[i] = R[i] \cup Keeps(R, ptr[p])
          BY <1>2, <1>4, <3>3 DEF KeepingMore
        <4> QED BY <3>1, <3>2, <3>3, <4>1, <4>2
      <3>4. CASE i \in u /\ i # k
        <4>1. PICK j \in u : ptr[Behind(i)] = Guard!Impl(j)
          BY <3>4 DEF ChainPart
        <4>2. R2[i] = R[i] \cup Keeps(R, ptr[p]) /\ R2[j] = R[j] \cup Keeps(R, ptr[p])
          BY <1>4, <3>4 DEF KeepingMore
        <4>3. R2 \in [ImplIds -> SUBSET ObjectIds] /\ j \in ImplIds
          BY <1>2, <1>4 DEF KeepingMore
        <4>4. Keeps(R2, Guard!Impl(j)) = R2[j] /\ Keeps(R, Guard!Impl(j)) = R[j]
          BY <1>1, <4>3, KeepsIs
        <4>5. new[Behind(i)] = Guard!Impl(j)
          BY <1>11, <3>4, <4>1
        <4> QED BY <3>1, <3>2, <4>1, <4>2, <4>4, <4>5
      <3>5. CASE i \notin u
        <4>1. R2[i] = R[i]
          BY <1>4, <3>5 DEF KeepingMore
        <4>2. new[Behind(i)] = ptr[Behind(i)]
          BY <1>2, <1>11, <3>5
        <4>3. Keeps(R2, ptr[Behind(i)]) = Keeps(R, ptr[Behind(i)])
          BY <1>4, <1>10, <3>5 DEF KeepingMore
        <4> QED BY <3>1, <3>2, <4>1, <4>2, <4>3
      <3> QED BY <3>3, <3>4, <3>5
    <2> QED BY <2>1 DEF Reaches
  <1>16. Ranked(new, rank2)
    <2>1. ASSUME NEW i \in ImplIds, NEW j \in ImplIds,
                 new[Owns(i)] = Guard!Impl(j) \/ new[Behind(i)] = Guard!Impl(j)
          PROVE  rank2[j] < rank2[i]
      <3>1. rank[i] \in Nat /\ rank[j] \in Nat /\ rank[j] <= top
        BY <1>1, <1>5
      <3>2. rank2[i] >= rank[i]
        BY <1>7, <3>1
      <3>3. CASE new[Owns(i)] = Guard!Impl(j)
        <4>1. ptr[Owns(i)] = Guard!Impl(j)
          BY <1>11, <3>3
        <4>2. rank[j] < rank[i]
          BY <4>1 DEF Graph, Ranked
        <4>3. j \notin u
          BY <1>9, <4>1
        <4>4. rank2[j] = rank[j]
          BY <1>7, <4>3
        <4>5. rank2[i] \in Nat
          BY <1>7
        <4> QED BY <3>1, <3>2, <4>2, <4>4, <4>5
      <3>4. CASE new[Behind(i)] = Guard!Impl(j) /\ i = k
        <4>1. j \notin u
          BY <1>8, <1>12, <3>4
        <4>2. rank2[j] = rank[j] /\ rank2[i] = rank[i] + top + 1
          BY <1>2, <1>7, <3>4, <4>1
        <4> QED BY <3>1, <4>2
      <3>5. CASE new[Behind(i)] = Guard!Impl(j) /\ i # k
        <4>1. ptr[Behind(i)] = Guard!Impl(j)
          BY <1>11, <3>5
        <4>2. rank[j] < rank[i]
          BY <4>1 DEF Graph, Ranked
        <4>3. CASE i \in u
          <5>1. PICK m \in u : ptr[Behind(i)] = Guard!Impl(m)
            BY <3>5, <4>3 DEF ChainPart
          <5>2. m = j
            BY <4>1, <5>1, GuardsDiffer
          <5>3. rank2[i] = rank[i] + top + 1 /\ rank2[j] = rank[j] + top + 1
            BY <1>7, <4>3, <5>2
          <5> QED BY <3>1, <4>2, <5>3
        <4>4. CASE i \notin u
          <5>1. j \notin u
            BY <1>10, <4>1, <4>4
          <5> QED BY <1>7, <4>2, <4>4, <5>1
        <4> QED BY <4>3, <4>4
      <3> QED BY <2>1, <3>3, <3>4, <3>5
    <2> QED BY <2>1 DEF Ranked
  <1>17. GraphTypes(new, refs, freed, R2, rank2)
    BY <1>1, <1>3, <1>4, <1>7 DEF GraphTypes, Swaps, KeepingMore
  <1>18. Graph(new, refs, freed, R2, rank2)
    BY <1>13, <1>14, <1>15, <1>16, <1>17 DEF Graph
  <1> QED BY <1>3, <1>4, <1>18

----------------------------------------------------------------------------
(***************************************************************************)
(* The graph of a heap, of the guards in blobs, and of those that wait to  *)
(* be released.                                                            *)
(***************************************************************************)

ImplRecords == [refs : Nat, next : AllGuards, owns : AllGuards]
Heaps == [impls : [ImplIds -> ImplRecords], freed : [ObjectIds -> Nat], misused : {FALSE}]

Shows(ptr, refs, h, gs, pend) ==
  /\ \A b \in Guard!Holders : ptr[InBlob(b)] = gs[b]
  /\ \A n \in 1 .. Guard!MaxReleases :
       ptr[Waiting(n)] = IF n <= Len(pend) THEN pend[n] ELSE Guard!Null
  /\ \A i \in ImplIds : /\ ptr[Owns(i)] = h.impls[i].owns /\ ptr[Behind(i)] = h.impls[i].next
                        /\ refs[i] = h.impls[i].refs

KeptAre(ks, R, gs) == \A b \in Guard!Holders : ks[b] = Keeps(R, gs[b])

OkTypes(h, gs, pend) ==
  /\ h \in Heaps /\ gs \in [Guard!Holders -> AllGuards]
  /\ pend \in Seq(AllGuards) /\ Len(pend) <= Guard!MaxReleases

OkState(h, gs, pend, ks) ==
  /\ OkTypes(h, gs, pend)
  /\ \E ptr, refs, R, rank : /\ Graph(ptr, refs, h.freed, R, rank)
                             /\ Shows(ptr, refs, h, gs, pend)
                             /\ KeptAre(ks, R, gs)

\* Impl k of a heap changes.
Edits(h, k, r, nx, ow, h2) ==
  /\ h2 \in Heaps
  /\ h2.impls[k].refs = r /\ h2.impls[k].next = nx /\ h2.impls[k].owns = ow
  /\ \A j \in ImplIds : j # k => h2.impls[j] = h.impls[j]
  /\ h2.freed = h.freed

LEMMA ImplEdited ==
  ASSUME NEW h \in Heaps, NEW k \in ImplIds, NEW r \in Nat, NEW nx \in AllGuards, NEW ow \in AllGuards
  PROVE  Edits(h, k, r, nx, ow, [h EXCEPT !.impls[k] = [refs |-> r, next |-> nx, owns |-> ow]])
  BY DEF Edits, Heaps, ImplRecords

LEMMA RefsEdited ==
  ASSUME NEW h \in Heaps, NEW k \in ImplIds, NEW r \in Nat
  PROVE  Edits(h, k, r, h.impls[k].next, h.impls[k].owns, [h EXCEPT !.impls[k].refs = r])
  BY DEF Edits, Heaps, ImplRecords

LEMMA NextEdited ==
  ASSUME NEW h \in Heaps, NEW k \in ImplIds, NEW nx \in AllGuards
  PROVE  Edits(h, k, h.impls[k].refs, nx, h.impls[k].owns, [h EXCEPT !.impls[k].next = nx])
  BY DEF Edits, Heaps, ImplRecords

\* An object is allocated or freed.
LEMMA FreedEdited ==
  ASSUME NEW h \in Heaps, NEW o \in ObjectIds, NEW n \in Nat
  PROVE  /\ [h EXCEPT !.freed[o] = n] \in Heaps
         /\ [h EXCEPT !.freed[o] = n].impls = h.impls
         /\ [h EXCEPT !.freed[o] = n].freed = [h.freed EXCEPT ![o] = n]
  BY DEF Heaps

----------------------------------------------------------------------------
(***************************************************************************)
(* One guard is released.                                                  *)
(***************************************************************************)

Stack(h, pend) == [heap |-> h, pending |-> pend]

\* The stack has n guards, and rest is all but the last.
Cut(pend, n, rest) == n = Len(pend) /\ rest = SubSeq(pend, 1, n - 1)

LEMMA ReleaseOneIs ==
  ASSUME NEW h, NEW pend, NEW n \in Nat, NEW rest, Cut(pend, n, rest)
  PROVE  /\ n = 0 => Guard!ReleaseOne(Stack(h, pend)) = Stack(h, pend)
         /\ n > 0 /\ pend[n] = Guard!Null => Guard!ReleaseOne(Stack(h, pend)) = Stack(h, rest)
         /\ \A o : n > 0 /\ pend[n] = Guard!Raw(o)
              => Guard!ReleaseOne(Stack(h, pend)) = Stack(Guard!FreeObject(h, o), rest)
         /\ \A k : n > 0 /\ pend[n] = Guard!Impl(k)
              => Guard!ReleaseOne(Stack(h, pend)) = Guard!DropImpl(h, k, rest)
  <1>0. n = Len(pend) /\ rest = SubSeq(pend, 1, n - 1)
    BY DEF Cut
  <1>1. PICK s : s = Stack(h, pend)
    OBVIOUS
  <1>2. s.heap = h /\ s.pending = pend
    BY <1>1 DEF Stack
  <1>3. n = 0 => Guard!ReleaseOne(s) = s
    BY <1>0, <1>2 DEF Guard!ReleaseOne
  <1>4. n > 0 /\ pend[n] = Guard!Null => Guard!ReleaseOne(s) = Stack(h, rest)
    BY <1>0, <1>2, GuardsDiffer, WildDiffers DEF Guard!ReleaseOne, Stack
  <1>5. ASSUME NEW o, n > 0, pend[n] = Guard!Raw(o)
        PROVE  Guard!ReleaseOne(s) = Stack(Guard!FreeObject(h, o), rest)
    <2>1. /\ n # 0 /\ pend[n] # Guard!Null /\ Guard!IsRaw(pend[n]) /\ ~Guard!IsImpl(pend[n])
          /\ pend[n][2] = o
      BY <1>5, GuardsDiffer
    <2>2. pend[n] # Guard!Wild
      BY <1>5, WildDiffers
    <2> QED BY <1>0, <1>2, <1>5, <2>1, <2>2 DEF Guard!ReleaseOne, Stack
  <1>6. ASSUME NEW k, n > 0, pend[n] = Guard!Impl(k)
        PROVE  Guard!ReleaseOne(s) = Guard!DropImpl(h, k, rest)
    <2>1. /\ n # 0 /\ pend[n] # Guard!Null /\ ~Guard!IsRaw(pend[n]) /\ Guard!IsImpl(pend[n])
          /\ pend[n][2] = k
      BY <1>6, GuardsDiffer
    <2>2. pend[n] # Guard!Wild
      BY <1>6, WildDiffers
    <2> QED BY <1>0, <1>2, <1>6, <2>1, <2>2 DEF Guard!ReleaseOne
  <1> QED BY <1>1, <1>3, <1>4, <1>5, <1>6

\* What is left of the stack.
LEMMA RestIs ==
  ASSUME NEW pend \in Seq(AllGuards), NEW n \in Nat, n = Len(pend), n > 0
  PROVE  /\ SubSeq(pend, 1, n - 1) \in Seq(AllGuards) /\ Len(SubSeq(pend, 1, n - 1)) = n - 1
         /\ \A i \in 1 .. n - 1 : SubSeq(pend, 1, n - 1)[i] = pend[i]
         /\ pend[n] \in AllGuards
  <1>1. \A i \in 1 .. n : pend[i] \in AllGuards
    BY ElementOfSeq
  <1>2. 1 \in Int /\ n - 1 \in Int /\ n - 1 - 1 + 1 = n - 1 /\ \A i \in 1 .. n - 1 : 1 + i - 1 = i /\ pend[i] \in AllGuards
    BY <1>1
  <1>3. /\ SubSeq(pend, 1, n - 1) \in Seq(AllGuards)
        /\ Len(SubSeq(pend, 1, n - 1)) = IF 1 <= n - 1 THEN n - 1 - 1 + 1 ELSE 0
        /\ \A i \in 1 .. n - 1 - 1 + 1 : SubSeq(pend, 1, n - 1)[i] = pend[1 + i - 1]
    BY <1>2, SubSeqProperties
  <1>4. n - 1 = IF 1 <= n - 1 THEN n - 1 - 1 + 1 ELSE 0
    OBVIOUS
  <1>5. n \in 1 .. n
    OBVIOUS
  <1> QED BY <1>1, <1>2, <1>3, <1>4, <1>5

LEMMA TwoMore ==
  ASSUME NEW s \in Seq(AllGuards), NEW a \in AllGuards, NEW b \in AllGuards, NEW m \in Nat, m = Len(s)
  PROVE  /\ s \o <<a, b>> \in Seq(AllGuards) /\ Len(s \o <<a, b>>) = m + 2
         /\ \A i \in 1 .. m : (s \o <<a, b>>)[i] = s[i]
         /\ (s \o <<a, b>>)[m + 1] = a /\ (s \o <<a, b>>)[m + 2] = b
  <1>1. PICK t \in Seq(AllGuards) : t = <<a, b>> /\ Len(t) = 2 /\ t[1] = a /\ t[2] = b
    <2>1. <<a, b>> \in Seq(AllGuards) /\ Len(<<a, b>>) = 2 /\ <<a, b>>[1] = a /\ <<a, b>>[2] = b
      OBVIOUS
    <2> QED BY <2>1
  <1>2. /\ s \o t \in Seq(AllGuards) /\ Len(s \o t) = Len(s) + Len(t)
        /\ \A i \in 1 .. Len(s) + Len(t) : (s \o t)[i] = IF i <= Len(s) THEN s[i] ELSE t[i - Len(s)]
    BY ConcatProperties
  <1>3. /\ s \o t \in Seq(AllGuards) /\ Len(s \o t) = m + 2
        /\ \A i \in 1 .. m + 2 : (s \o t)[i] = IF i <= m THEN s[i] ELSE t[i - m]
    BY <1>1, <1>2
  <1>4. /\ m + 1 \in 1 .. m + 2 /\ ~(m + 1 <= m) /\ (m + 1) - m = 1
        /\ m + 2 \in 1 .. m + 2 /\ ~(m + 2 <= m) /\ (m + 2) - m = 2
        /\ \A i \in 1 .. m : i \in 1 .. m + 2 /\ i <= m
    OBVIOUS
  <1>5. (s \o t)[m + 1] = t[1] /\ (s \o t)[m + 2] = t[2] /\ \A i \in 1 .. m : (s \o t)[i] = s[i]
    BY <1>3, <1>4
  <1> QED BY <1>1, <1>3, <1>5

LEMMA MaxReleasesType ==
  ASSUME GuardAssumption
  PROVE  Guard!MaxReleases \in Nat /\ Guard!MaxReleases = 2 * MaxImpls + 1
  BY DEF Guard!MaxReleases, GuardAssumption

\* A guard at the end of the stack has its place, and so has one more.
LEMMA StackPlaces ==
  ASSUME NEW n \in 1 .. Guard!MaxReleases
  PROVE  Waiting(n) \in Outer /\ Waiting(n) \in Places
  BY PlacesIn

\* Blobs and impls are where they were.
SameBut(ptr, n, new) ==
  /\ \A b \in Guard!Holders : new[InBlob(b)] = ptr[InBlob(b)]
  /\ \A i \in ImplIds : new[Owns(i)] = ptr[Owns(i)] /\ new[Behind(i)] = ptr[Behind(i)]
  /\ \A m \in 1 .. Guard!MaxReleases : m # n => new[Waiting(m)] = ptr[Waiting(m)]

LEMMA PutWaiting ==
  ASSUME NEW ptr \in [Places -> AllGuards], NEW n \in 1 .. Guard!MaxReleases, NEW g, NEW new,
         new = Put(ptr, Waiting(n), g)
  PROVE  SameBut(ptr, n, new) /\ new[Waiting(n)] = g
  <1>1. new[Waiting(n)] = g /\ \A q \in Places : q # Waiting(n) => new[q] = ptr[q]
    BY StackPlaces DEF Put
  <1>2. ASSUME NEW b \in Guard!Holders PROVE new[InBlob(b)] = ptr[InBlob(b)]
    <2>1. InBlob(b) \in Places /\ InBlob(b) # Waiting(n)
      BY PlacesIn, PlacesDiffer
    <2> QED BY <1>1, <2>1
  <1>3. ASSUME NEW i \in ImplIds PROVE new[Owns(i)] = ptr[Owns(i)] /\ new[Behind(i)] = ptr[Behind(i)]
    <2>1. Owns(i) \in Places /\ Behind(i) \in Places /\ Owns(i) # Waiting(n) /\ Behind(i) # Waiting(n)
      BY PlacesIn, PlacesDiffer
    <2> QED BY <1>1, <2>1
  <1>4. ASSUME NEW m \in 1 .. Guard!MaxReleases, m # n PROVE new[Waiting(m)] = ptr[Waiting(m)]
    <2>1. Waiting(m) \in Places /\ Waiting(m) # Waiting(n)
      BY <1>4, PlacesIn, PlacesDiffer
    <2> QED BY <1>1, <2>1
  <1> QED BY <1>1, <1>2, <1>3, <1>4 DEF SameBut

\* Null at the end of the stack.
LEMMA ReleaseNull ==
  ASSUME GuardAssumption, NEW h, NEW gs, NEW pend, NEW ks, OkState(h, gs, pend, ks),
         NEW n \in Nat, NEW rest, Cut(pend, n, rest), n > 0, pend[n] = Guard!Null
  PROVE  OkState(h, gs, rest, ks)
  <1>0. n = Len(pend) /\ rest = SubSeq(pend, 1, n - 1)
    BY DEF Cut
  <1>1. PICK ptr, refs, R, rank : /\ Graph(ptr, refs, h.freed, R, rank)
                                  /\ Shows(ptr, refs, h, gs, pend)
                                  /\ KeptAre(ks, R, gs)
    BY DEF OkState
  <1>2. OkTypes(h, gs, pend)
    BY DEF OkState
  <1>3. rest \in Seq(AllGuards) /\ Len(rest) = n - 1 /\ \A i \in 1 .. n - 1 : rest[i] = pend[i]
    BY <1>0, <1>2, RestIs DEF OkTypes
  <1>4. ASSUME NEW m \in 1 .. Guard!MaxReleases
        PROVE  ptr[Waiting(m)] = IF m <= Len(rest) THEN rest[m] ELSE Guard!Null
    <2>1. ptr[Waiting(m)] = IF m <= n THEN pend[m] ELSE Guard!Null
      BY <1>0, <1>1 DEF Shows
    <2> QED BY <1>3, <2>1
  <1>5. Shows(ptr, refs, h, gs, rest)
    BY <1>1, <1>4 DEF Shows
  <1>6. OkTypes(h, gs, rest)
    <2>1. Guard!MaxReleases \in Nat
      BY MaxReleasesType
    <2>2. n <= Guard!MaxReleases
      BY <1>0, <1>2 DEF OkTypes
    <2> QED BY <1>2, <1>3, <2>1, <2>2 DEF OkTypes
  <1> QED BY <1>1, <1>5, <1>6 DEF OkState

\* The impls have the same guards, and the counts of refs2.
SameLinks(h, h2, refs2) ==
  \A i \in ImplIds : /\ h2.impls[i].owns = h.impls[i].owns /\ h2.impls[i].next = h.impls[i].next
                     /\ h2.impls[i].refs = refs2[i]

\* rest is the stack without its end.
IsRest(pend, n, rest) == Len(rest) = n - 1 /\ \A i \in 1 .. n - 1 : rest[i] = pend[i]

\* The end of the stack is gone.
LEMMA ShowsRest ==
  ASSUME NEW ptr, NEW refs, NEW h, NEW gs, NEW pend, Shows(ptr, refs, h, gs, pend),
         NEW n \in Nat, n = Len(pend), NEW rest, IsRest(pend, n, rest),
         NEW new, SameBut(ptr, n, new), new[Waiting(n)] = Guard!Null,
         NEW refs2, NEW h2, SameLinks(h, h2, refs2)
  PROVE  Shows(new, refs2, h2, gs, rest)
  <1>1. ASSUME NEW m \in 1 .. Guard!MaxReleases
        PROVE  new[Waiting(m)] = IF m <= Len(rest) THEN rest[m] ELSE Guard!Null
    <2>1. ptr[Waiting(m)] = IF m <= n THEN pend[m] ELSE Guard!Null
      BY DEF Shows
    <2>2. CASE m = n
      BY <2>2 DEF IsRest
    <2>3. CASE m # n
      <3>1. new[Waiting(m)] = ptr[Waiting(m)]
        BY <2>3 DEF SameBut
      <3> QED BY <2>1, <2>3, <3>1 DEF IsRest
    <2> QED BY <2>2, <2>3 DEF IsRest
  <1> QED BY <1>1 DEF Shows, SameBut, SameLinks

\* Where the guard at the end of the stack is.
LEMMA StackTop ==
  ASSUME GuardAssumption, NEW h, NEW gs, NEW pend, NEW ks, OkState(h, gs, pend, ks),
         NEW n \in Nat, n = Len(pend), n > 0
  PROVE  /\ n \in 1 .. Guard!MaxReleases /\ pend[n] \in AllGuards
         /\ \A ptr, refs : Shows(ptr, refs, h, gs, pend) => ptr[Waiting(n)] = pend[n]
  <1>1. n \in 1 .. Guard!MaxReleases
    BY MaxReleasesType DEF OkState, OkTypes
  <1>2. pend[n] \in AllGuards
    BY RestIs DEF OkState, OkTypes
  <1>3. ASSUME NEW ptr, NEW refs, Shows(ptr, refs, h, gs, pend) PROVE ptr[Waiting(n)] = pend[n]
    BY <1>1, <1>3 DEF Shows
  <1> QED BY <1>1, <1>2, <1>3

RestTypes(pend, n, rest) ==
  /\ rest \in Seq(AllGuards) /\ IsRest(pend, n, rest)
  /\ n - 1 <= Guard!MaxReleases

LEMMA RestTyped ==
  ASSUME GuardAssumption, NEW h, NEW gs, NEW pend, NEW ks, OkState(h, gs, pend, ks),
         NEW n \in Nat, NEW rest, Cut(pend, n, rest), n > 0
  PROVE  RestTypes(pend, n, rest)
  <1>1. pend \in Seq(AllGuards) /\ n <= Guard!MaxReleases
    BY DEF OkState, OkTypes, Cut
  <1>2. rest \in Seq(AllGuards) /\ Len(rest) = n - 1 /\ \A i \in 1 .. n - 1 : rest[i] = pend[i]
    BY <1>1, RestIs DEF Cut
  <1> QED BY <1>1, <1>2, MaxReleasesType DEF RestTypes, IsRest

\* An object at the end of the stack.
LEMMA ReleaseRaw ==
  ASSUME GuardAssumption, NEW h, NEW gs, NEW pend, NEW ks, OkState(h, gs, pend, ks),
         NEW n \in Nat, NEW rest, Cut(pend, n, rest), n > 0,
         NEW o \in ObjectIds, pend[n] = Guard!Raw(o)
  PROVE  OkState(Guard!FreeObject(h, o), gs, rest, ks) /\ Guard!FreeObject(h, o).impls = h.impls
  <1>0. n = Len(pend)
    BY DEF Cut
  <1>1. PICK ptr, refs, R, rank : /\ Graph(ptr, refs, h.freed, R, rank)
                                  /\ Shows(ptr, refs, h, gs, pend)
                                  /\ KeptAre(ks, R, gs)
    BY DEF OkState
  <1>2. h \in Heaps /\ gs \in [Guard!Holders -> AllGuards]
    BY DEF OkState, OkTypes
  <1>3. n \in 1 .. Guard!MaxReleases /\ ptr[Waiting(n)] = Guard!Raw(o)
    BY <1>0, <1>1, StackTop
  <1>4. RestTypes(pend, n, rest)
    BY RestTyped
  <1>5. PICK new : new = Put(ptr, Waiting(n), Guard!Null)
    OBVIOUS
  <1>6. ptr \in [Places -> AllGuards]
    BY <1>1, GraphSays
  <1>7. SameBut(ptr, n, new) /\ new[Waiting(n)] = Guard!Null
    BY <1>3, <1>5, <1>6, PutWaiting
  <1>8. Graph(new, refs, [h.freed EXCEPT ![o] = @ + 1], R, rank)
    BY <1>1, <1>3, <1>5, StackPlaces, GraphFree
  <1>9. PICK h2 : h2 = Guard!FreeObject(h, o)
    OBVIOUS
  <1>10. h2 \in Heaps /\ h2.impls = h.impls /\ h2.freed = [h.freed EXCEPT ![o] = @ + 1]
    <2>1. h.freed[o] + 1 \in Nat
      BY <1>2 DEF Heaps
    <2> QED BY <1>2, <1>9, <2>1, FreedEdited DEF Guard!FreeObject
  <1>11. Shows(new, refs, h2, gs, rest)
    <2>1. \A i \in ImplIds : refs[i] = h.impls[i].refs
      BY <1>1 DEF Shows
    <2>2. SameLinks(h, h2, refs)
      BY <1>10, <2>1 DEF SameLinks
    <2>3. IsRest(pend, n, rest)
      BY <1>4 DEF RestTypes
    <2> QED BY <1>1, <1>7, <2>2, <2>3, <1>0, ShowsRest
  <1>12. OkTypes(h2, gs, rest)
    BY <1>2, <1>4, <1>10 DEF OkTypes, RestTypes, IsRest
  <1> QED BY <1>1, <1>8, <1>9, <1>10, <1>11, <1>12 DEF OkState

\* One of several guards of an impl.
LEMMA ReleaseShared ==
  ASSUME GuardAssumption, NEW h, NEW gs, NEW pend, NEW ks, OkState(h, gs, pend, ks),
         NEW n \in Nat, NEW rest, Cut(pend, n, rest), n > 0,
         NEW k \in ImplIds, pend[n] = Guard!Impl(k), h.impls[k].refs # 0, h.impls[k].refs # 1
  PROVE  \E h2 : /\ Guard!DropImpl(h, k, rest) = Stack(h2, rest)
                 /\ OkState(h2, gs, rest, ks)
                 /\ \A i \in ImplIds : h2.impls[i].refs = 0 <=> h.impls[i].refs = 0
  <1>0. n = Len(pend)
    BY DEF Cut
  <1>1. PICK ptr, refs, R, rank : /\ Graph(ptr, refs, h.freed, R, rank)
                                  /\ Shows(ptr, refs, h, gs, pend)
                                  /\ KeptAre(ks, R, gs)
    BY DEF OkState
  <1>2. h \in Heaps /\ gs \in [Guard!Holders -> AllGuards]
    BY DEF OkState, OkTypes
  <1>3. n \in 1 .. Guard!MaxReleases /\ ptr[Waiting(n)] = Guard!Impl(k)
    BY <1>0, <1>1, StackTop
  <1>4. RestTypes(pend, n, rest)
    BY RestTyped
  <1>5. PICK new : new = Put(ptr, Waiting(n), Guard!Null)
    OBVIOUS
  <1>6. ptr \in [Places -> AllGuards] /\ refs \in [ImplIds -> Nat]
    BY <1>1, GraphSays
  <1>7. SameBut(ptr, n, new) /\ new[Waiting(n)] = Guard!Null
    BY <1>3, <1>5, <1>6, PutWaiting
  <1>8. refs[k] = h.impls[k].refs /\ refs[k] > 1 /\ refs[k] - 1 \in Nat
    BY <1>1, <1>6 DEF Shows
  <1>9. PICK refs2 : refs2 = [refs EXCEPT ![k] = @ - 1]
    OBVIOUS
  <1>10. Graph(new, refs2, h.freed, R, rank)
    BY <1>1, <1>3, <1>5, <1>8, <1>9, StackPlaces, GraphDrop
  <1>11. refs2[k] = refs[k] - 1 /\ \A i \in ImplIds : i # k => refs2[i] = refs[i]
    BY <1>6, <1>9
  <1>12. PICK h2 : h2 = [h EXCEPT !.impls[k].refs = @ - 1]
    OBVIOUS
  <1>13. Edits(h, k, refs[k] - 1, h.impls[k].next, h.impls[k].owns, h2)
    BY <1>2, <1>8, <1>12, RefsEdited
  <1>14. ASSUME NEW i \in ImplIds
         PROVE  /\ h2.impls[i].owns = h.impls[i].owns /\ h2.impls[i].next = h.impls[i].next
                /\ h2.impls[i].refs = refs2[i]
    <2>1. refs[i] = h.impls[i].refs
      BY <1>1 DEF Shows
    <2>2. CASE i = k
      BY <1>11, <1>13, <2>2 DEF Edits
    <2>3. CASE i # k
      BY <1>11, <1>13, <2>1, <2>3 DEF Edits
    <2> QED BY <2>2, <2>3
  <1>15. Shows(new, refs2, h2, gs, rest)
    <2>2. SameLinks(h, h2, refs2)
      BY <1>14 DEF SameLinks
    <2>3. IsRest(pend, n, rest)
      BY <1>4 DEF RestTypes
    <2> QED BY <1>1, <1>7, <2>2, <2>3, <1>0, ShowsRest
  <1>16. OkTypes(h2, gs, rest)
    BY <1>2, <1>4, <1>13 DEF OkTypes, RestTypes, IsRest, Edits
  <1>17. h2.freed = h.freed
    BY <1>13 DEF Edits
  <1>18. OkState(h2, gs, rest, ks)
    BY <1>1, <1>10, <1>15, <1>16, <1>17 DEF OkState
  <1>19. Guard!DropImpl(h, k, rest) = Stack(h2, rest)
    BY <1>12 DEF Guard!DropImpl, Stack
  <1>20. \A i \in ImplIds : h2.impls[i].refs = 0 <=> h.impls[i].refs = 0
    <2>1. ASSUME NEW i \in ImplIds PROVE h2.impls[i].refs = 0 <=> h.impls[i].refs = 0
      <3>1. refs[i] = h.impls[i].refs /\ h2.impls[i].refs = refs2[i]
        BY <1>1, <1>14 DEF Shows
      <3>2. CASE i = k
        BY <1>6, <1>8, <1>11, <3>1, <3>2
      <3>3. CASE i # k
        BY <1>11, <3>1, <3>3
      <3> QED BY <3>2, <3>3
    <2> QED BY <2>1
  <1> QED BY <1>18, <1>19, <1>20

\* The last guard of an impl.
LEMMA ReleaseLast ==
  ASSUME GuardAssumption, NEW h, NEW gs, NEW pend, NEW ks, OkState(h, gs, pend, ks),
         NEW n \in Nat, NEW rest, Cut(pend, n, rest), n > 0, n + 1 <= Guard!MaxReleases,
         NEW k \in ImplIds, pend[n] = Guard!Impl(k), h.impls[k].refs = 1
  PROVE  \E h2, pend2 : /\ Guard!DropImpl(h, k, rest) = Stack(h2, pend2)
                        /\ OkState(h2, gs, pend2, ks)
                        /\ Len(pend2) = n + 1
                        /\ h2.impls[k].refs = 0
                        /\ \A i \in ImplIds : i # k => h2.impls[i].refs = h.impls[i].refs
  <1>0. n = Len(pend)
    BY DEF Cut
  <1>1. PICK ptr, refs, R, rank : /\ Graph(ptr, refs, h.freed, R, rank)
                                  /\ Shows(ptr, refs, h, gs, pend)
                                  /\ KeptAre(ks, R, gs)
    BY DEF OkState
  <1>2. h \in Heaps /\ gs \in [Guard!Holders -> AllGuards]
    BY DEF OkState, OkTypes
  <1>3. n \in 1 .. Guard!MaxReleases /\ ptr[Waiting(n)] = Guard!Impl(k)
    BY <1>0, <1>1, StackTop
  <1>4. RestTypes(pend, n, rest)
    BY RestTyped
  <1>5. n + 1 \in 1 .. Guard!MaxReleases
    BY MaxReleasesType
  <1>6. /\ Waiting(n) \in Outer /\ Waiting(n + 1) \in Outer /\ Waiting(n) # Waiting(n + 1)
        /\ Waiting(n) \in Places /\ Waiting(n + 1) \in Places
    <2>1. n # n + 1
      OBVIOUS
    <2> QED BY <1>3, <1>5, <2>1, StackPlaces, PlacesDiffer
  <1>7. ptr[Waiting(n + 1)] = Guard!Null
    <2>1. ~(n + 1 <= Len(pend))
      BY <1>0
    <2> QED BY <1>1, <1>5, <2>1 DEF Shows
  <1>8. refs[k] = 1 /\ ptr[Owns(k)] = h.impls[k].owns /\ ptr[Behind(k)] = h.impls[k].next
    BY <1>1 DEF Shows
  <1>9. PICK new, R2 : /\ Graph(new, [refs EXCEPT ![k] = 0], h.freed, R2, rank)
                       /\ DeleteAt(ptr, k, Waiting(n), Waiting(n + 1), new)
                       /\ Keeping(R, k, {}, R2)
    BY <1>1, <1>3, <1>6, <1>7, <1>8, GraphDelete
  <1>10. ptr \in [Places -> AllGuards] /\ refs \in [ImplIds -> Nat]
    BY <1>1, GraphSays
  <1>11. PICK refs2 : refs2 = [refs EXCEPT ![k] = 0]
    OBVIOUS
  <1>12. refs2[k] = 0 /\ \A i \in ImplIds : i # k => refs2[i] = refs[i]
    BY <1>10, <1>11
  <1>13. PICK nx, ow : nx = h.impls[k].next /\ ow = h.impls[k].owns
    OBVIOUS
  <1>14. nx \in AllGuards /\ ow \in AllGuards
    BY <1>2, <1>13 DEF Heaps, ImplRecords
  <1>15. PICK pend2 : pend2 = rest \o <<nx, ow>>
    OBVIOUS
  <1>16. /\ pend2 \in Seq(AllGuards) /\ Len(pend2) = n + 1
         /\ \A i \in 1 .. n - 1 : pend2[i] = rest[i]
         /\ pend2[n] = nx /\ pend2[n + 1] = ow
    <2>1. PICK m \in Nat : m = n - 1
      OBVIOUS
    <2>2. rest \in Seq(AllGuards) /\ m = Len(rest)
      BY <1>4, <2>1 DEF RestTypes, IsRest
    <2>3. /\ pend2 \in Seq(AllGuards) /\ Len(pend2) = m + 2
          /\ \A i \in 1 .. m : pend2[i] = rest[i]
          /\ pend2[m + 1] = nx /\ pend2[m + 2] = ow
      BY <1>14, <1>15, <2>2, TwoMore
    <2>4. m + 2 = n + 1 /\ m + 1 = n
      BY <2>1
    <2> QED BY <2>1, <2>3, <2>4
  <1>17. PICK h2 : h2 = [h EXCEPT !.impls[k] = Guard!NoImpl]
    OBVIOUS
  <1>18. Edits(h, k, 0, Guard!Null, Guard!Null, h2)
    BY <1>2, <1>17, GuardIn, ImplEdited DEF Guard!NoImpl
  <1>19. ASSUME NEW i \in ImplIds
         PROVE  new[Owns(i)] = h2.impls[i].owns /\ new[Behind(i)] = h2.impls[i].next /\ refs2[i] = h2.impls[i].refs
    <2>1. CASE i = k
      BY <1>9, <1>12, <1>18, <2>1 DEF Edits, DeleteAt
    <2>2. CASE i # k
      <3>1. /\ Owns(i) \in Places /\ Behind(i) \in Places
            /\ Owns(i) \notin {Waiting(n), Waiting(n + 1), Owns(k), Behind(k)}
            /\ Behind(i) \notin {Waiting(n), Waiting(n + 1), Owns(k), Behind(k)}
        BY <2>2, PlacesIn, PlacesDiffer
      <3>2. new[Owns(i)] = ptr[Owns(i)] /\ new[Behind(i)] = ptr[Behind(i)]
        BY <1>9, <3>1 DEF DeleteAt
      <3>3. ptr[Owns(i)] = h.impls[i].owns /\ ptr[Behind(i)] = h.impls[i].next /\ refs[i] = h.impls[i].refs
        BY <1>1 DEF Shows
      <3>4. h2.impls[i] = h.impls[i]
        BY <1>18, <2>2 DEF Edits
      <3> QED BY <1>12, <2>2, <3>2, <3>3, <3>4
    <2> QED BY <2>1, <2>2
  <1>20. ASSUME NEW b \in Guard!Holders PROVE new[InBlob(b)] = gs[b] /\ gs[b] # Guard!Impl(k)
    <2>1. /\ InBlob(b) \in Places /\ InBlob(b) \notin {Waiting(n), Waiting(n + 1), Owns(k), Behind(k)}
      BY PlacesIn, PlacesDiffer
    <2>2. new[InBlob(b)] = ptr[InBlob(b)]
      BY <1>9, <2>1 DEF DeleteAt
    <2>3. ptr[InBlob(b)] = gs[b]
      BY <1>1 DEF Shows
    <2>4. Count(ptr, Guard!Impl(k)) = 1
      BY <1>1, <1>8, GraphSays
    <2>5. ptr[InBlob(b)] # Guard!Impl(k)
      BY <1>3, <1>6, <2>1, <2>4, CountOne
    <2> QED BY <2>2, <2>3, <2>5
  <1>21. ASSUME NEW m \in 1 .. Guard!MaxReleases
         PROVE  new[Waiting(m)] = IF m <= n + 1 THEN pend2[m] ELSE Guard!Null
    <2>1. CASE m = n
      <3>1. new[Waiting(n)] = nx
        BY <1>8, <1>9, <1>13 DEF DeleteAt
      <3> QED BY <1>16, <2>1, <3>1
    <2>2. CASE m = n + 1
      <3>1. new[Waiting(n + 1)] = ow
        BY <1>8, <1>9, <1>13 DEF DeleteAt
      <3> QED BY <1>16, <2>2, <3>1
    <2>3. CASE m # n /\ m # n + 1
      <3>1. Waiting(m) \in Places /\ Waiting(m) \notin {Waiting(n), Waiting(n + 1), Owns(k), Behind(k)}
        BY <2>3, PlacesDiffer, StackPlaces
      <3>2. new[Waiting(m)] = ptr[Waiting(m)]
        BY <1>9, <3>1 DEF DeleteAt
      <3>3. ptr[Waiting(m)] = IF m <= n THEN pend[m] ELSE Guard!Null
        BY <1>0, <1>1 DEF Shows
      <3>4. CASE m <= n
        <4>1. m \in 1 .. n - 1 /\ m <= n + 1
          BY <2>3, <3>4
        <4>2. pend2[m] = pend[m]
          BY <1>4, <1>16, <4>1 DEF RestTypes, IsRest
        <4> QED BY <3>2, <3>3, <3>4, <4>1, <4>2
      <3>5. CASE ~(m <= n)
        <4>1. ~(m <= n + 1)
          BY <2>3, <3>5
        <4> QED BY <3>2, <3>3, <3>5, <4>1
      <3> QED BY <3>4, <3>5
    <2> QED BY <2>1, <2>2, <2>3
  <1>22. Shows(new, refs2, h2, gs, pend2)
    BY <1>16, <1>19, <1>20, <1>21 DEF Shows
  <1>23. KeptAre(ks, R2, gs)
    BY <1>1, <1>9, <1>20 DEF KeptAre, Keeping
  <1>24. OkTypes(h2, gs, pend2)
    BY <1>2, <1>16, <1>18 DEF OkTypes, Edits
  <1>25. h2.freed = h.freed
    BY <1>18 DEF Edits
  <1>26. OkState(h2, gs, pend2, ks)
    BY <1>9, <1>11, <1>22, <1>23, <1>24, <1>25 DEF OkState
  <1>27. Guard!DropImpl(h, k, rest) = Stack(h2, pend2)
    BY <1>13, <1>15, <1>17 DEF Guard!DropImpl, Stack
  <1>28. h2.impls[k].refs = 0 /\ \A i \in ImplIds : i # k => h2.impls[i].refs = h.impls[i].refs
    BY <1>18 DEF Edits
  <1> QED BY <1>16, <1>26, <1>27, <1>28

----------------------------------------------------------------------------
(***************************************************************************)
(* Guards are released until none waits: each step takes one from the      *)
(* stack, and an impl that puts two there is not used any more.            *)
(***************************************************************************)

Live(h) == {i \in ImplIds : h.impls[i].refs # 0}

LEMMA LiveType ==
  ASSUME GuardAssumption, NEW h
  PROVE  IsFiniteSet(Live(h)) /\ Cardinality(Live(h)) \in Nat /\ Cardinality(Live(h)) <= MaxImpls
  <1>1. MaxImpls \in Nat /\ 1 \in Int /\ MaxImpls \in Int
    BY DEF GuardAssumption
  <1>2. IsFiniteSet(1 .. MaxImpls) /\ Cardinality(1 .. MaxImpls) = MaxImpls
    <2>1. Cardinality(1 .. MaxImpls) = IF 1 > MaxImpls THEN 0 ELSE MaxImpls - 1 + 1
      BY <1>1, FS_Interval
    <2>2. IsFiniteSet(1 .. MaxImpls)
      BY <1>1, FS_Interval
    <2> QED BY <1>1, <2>1, <2>2
  <1>3. Live(h) \in SUBSET (1 .. MaxImpls)
    BY DEF Live, ImplIds
  <1>4. IsFiniteSet(Live(h)) /\ Cardinality(Live(h)) <= Cardinality(1 .. MaxImpls)
    BY <1>2, <1>3, FS_Subset
  <1>5. Cardinality(Live(h)) \in Nat
    BY <1>4, FS_CardinalityType
  <1> QED BY <1>2, <1>4, <1>5

\* m releases suffice.
Within(h, n, m) == n = 0 \/ 2 * Cardinality(Live(h)) + n <= m

\* The state that ReleaseOne leaves, with at most m releases to come.
Releasing(s, gs, ks, live, m) ==
  \E h2, p2 : /\ s = Stack(h2, p2)
              /\ OkState(h2, gs, p2, ks)
              /\ Live(h2) \subseteq live
              /\ Within(h2, Len(p2), m)

LEMMA ReleaseStep ==
  ASSUME GuardAssumption, NEW s, NEW gs, NEW ks, NEW live, NEW m \in Nat, m > 0, m <= Guard!MaxReleases,
         Releasing(s, gs, ks, live, m)
  PROVE  Releasing(Guard!ReleaseOne(s), gs, ks, live, m - 1)
  <1>1. PICK h, pend : /\ s = Stack(h, pend) /\ OkState(h, gs, pend, ks)
                       /\ Live(h) \subseteq live /\ Within(h, Len(pend), m)
    BY DEF Releasing
  <1>2. pend \in Seq(AllGuards) /\ Len(pend) \in Nat
    BY <1>1, LenProperties DEF OkState, OkTypes
  <1>3. PICK n \in Nat : n = Len(pend)
    BY <1>2
  <1>4. PICK rest : Cut(pend, n, rest)
    BY <1>3 DEF Cut
  <1>5. PICK c \in Nat : c = Cardinality(Live(h)) /\ IsFiniteSet(Live(h))
    BY LiveType
  <1>8. /\ n = 0 => Guard!ReleaseOne(s) = s
        /\ n > 0 /\ pend[n] = Guard!Null => Guard!ReleaseOne(s) = Stack(h, rest)
        /\ \A o : n > 0 /\ pend[n] = Guard!Raw(o)
              => Guard!ReleaseOne(s) = Stack(Guard!FreeObject(h, o), rest)
        /\ \A k : n > 0 /\ pend[n] = Guard!Impl(k)
              => Guard!ReleaseOne(s) = Guard!DropImpl(h, k, rest)
    <2>1. s = Stack(h, pend)
      BY <1>1
    <2> QED BY <1>4, <2>1, ReleaseOneIs
  <1>9. OkState(h, gs, pend, ks)
    BY <1>1
  <1>6. CASE n = 0
    <2>1. Guard!ReleaseOne(s) = s
      BY <1>6, <1>8
    <2>2. Within(h, Len(pend), m - 1)
      BY <1>3, <1>6 DEF Within
    <2> QED BY <1>1, <2>1, <2>2 DEF Releasing
  <1>7. CASE n > 0
    <2>1. 2 * c + n <= m
      BY <1>1, <1>3, <1>5, <1>7 DEF Within
    <2>2. pend[n] \in AllGuards
      BY <1>1, <1>3, <1>7, StackTop
    <2>3. Len(rest) = n - 1
      BY <1>4, <1>7, <1>9, RestTyped DEF RestTypes, IsRest
    <2>4. CASE pend[n] = Guard!Null
      <3>1. Guard!ReleaseOne(s) = Stack(h, rest)
        BY <1>7, <1>8, <2>4
      <3>2. OkState(h, gs, rest, ks)
        BY <1>4, <1>7, <1>9, <2>4, ReleaseNull
      <3>3. Within(h, Len(rest), m - 1)
        BY <1>5, <2>1, <2>3 DEF Within
      <3> QED BY <1>1, <3>1, <3>2, <3>3 DEF Releasing
    <2>5. ASSUME NEW o \in ObjectIds, pend[n] = Guard!Raw(o)
          PROVE  Releasing(Guard!ReleaseOne(s), gs, ks, live, m - 1)
      <3>1. PICK h2 : h2 = Guard!FreeObject(h, o)
        OBVIOUS
      <3>2. Guard!ReleaseOne(s) = Stack(h2, rest)
        BY <1>7, <1>8, <2>5, <3>1
      <3>3. OkState(h2, gs, rest, ks) /\ h2.impls = h.impls
        <4>1. OkState(Guard!FreeObject(h, o), gs, rest, ks) /\ Guard!FreeObject(h, o).impls = h.impls
          BY <1>4, <1>7, <1>9, <2>5, ReleaseRaw
        <4> QED BY <3>1, <4>1
      <3>4. Live(h2) = Live(h)
        BY <3>3 DEF Live
      <3>5. Within(h2, Len(rest), m - 1)
        BY <1>5, <2>1, <2>3, <3>4 DEF Within
      <3> QED BY <1>1, <3>2, <3>3, <3>4, <3>5 DEF Releasing
    <2>6. ASSUME NEW k \in ImplIds, pend[n] = Guard!Impl(k)
          PROVE  Releasing(Guard!ReleaseOne(s), gs, ks, live, m - 1)
      <3>1. Guard!ReleaseOne(s) = Guard!DropImpl(h, k, rest)
        BY <1>7, <1>8, <2>6
      <3>2. h.impls[k].refs # 0
        <4>1. PICK ptr, refs, R, rank : /\ Graph(ptr, refs, h.freed, R, rank)
                                        /\ Shows(ptr, refs, h, gs, pend)
          BY <1>1 DEF OkState
        <4>2. n \in 1 .. Guard!MaxReleases /\ ptr[Waiting(n)] = Guard!Impl(k)
          BY <1>1, <1>3, <1>7, <2>6, <4>1, StackTop
        <4>3. Count(ptr, Guard!Impl(k)) # 0
          BY <4>2, StackPlaces, CountSome
        <4>4. Count(ptr, Guard!Impl(k)) = refs[k]
          BY <4>1, GraphSays
        <4>5. refs[k] = h.impls[k].refs
          BY <4>1 DEF Shows
        <4> QED BY <4>3, <4>4, <4>5
      <3>3. CASE h.impls[k].refs = 1
        <4>1. k \in Live(h)
          BY <3>2 DEF Live
        <4>2. c # 0
          BY <1>5, <4>1, FS_EmptySet
        <4>3. n + 1 <= Guard!MaxReleases
          BY <2>1, <4>2, MaxReleasesType
        <4>4. PICK h2, pend2 : /\ Guard!DropImpl(h, k, rest) = Stack(h2, pend2)
                               /\ OkState(h2, gs, pend2, ks)
                               /\ Len(pend2) = n + 1
                               /\ h2.impls[k].refs = 0
                               /\ \A i \in ImplIds : i # k => h2.impls[i].refs = h.impls[i].refs
          BY <1>4, <1>7, <1>9, <2>6, <3>3, <4>3, ReleaseLast
        <4>5. Live(h2) = Live(h) \ {k}
          BY <4>4 DEF Live
        <4>6. Cardinality(Live(h) \ {k}) = c - 1
          BY <1>5, <4>1, FS_RemoveElement
        <4>7. Within(h2, Len(pend2), m - 1)
          <5>1. 2 * (c - 1) + (n + 1) <= m - 1
            BY <2>1
          <5> QED BY <4>4, <4>5, <4>6, <5>1 DEF Within
        <4>8. Live(h2) \subseteq live
          BY <1>1, <4>5
        <4> QED BY <3>1, <4>4, <4>7, <4>8 DEF Releasing
      <3>4. CASE h.impls[k].refs # 1
        <4>1. PICK h2 : /\ Guard!DropImpl(h, k, rest) = Stack(h2, rest)
                        /\ OkState(h2, gs, rest, ks)
                        /\ \A i \in ImplIds : h2.impls[i].refs = 0 <=> h.impls[i].refs = 0
          BY <1>4, <1>7, <1>9, <2>6, <3>2, <3>4, ReleaseShared
        <4>2. Live(h2) = Live(h)
          BY <4>1 DEF Live
        <4>3. Within(h2, Len(rest), m - 1)
          BY <1>5, <2>1, <2>3, <4>2 DEF Within
        <4> QED BY <1>1, <3>1, <4>1, <4>2, <4>3 DEF Releasing
      <3> QED BY <3>3, <3>4
    <2> QED BY <2>2, <2>4, <2>5, <2>6, GuardCases
  <1> QED BY <1>3, <1>6, <1>7

----------------------------------------------------------------------------

States == [heap : Heaps, pending : Seq(AllGuards)]

\* f releases one guard after the other, as long as that gives a state.
Follow(f, a) ==
  /\ f[0] = a
  /\ \A n \in 1 .. Guard!MaxReleases :
       Guard!ReleaseOne(f[n - 1]) \in States => f[n] = Guard!ReleaseOne(f[n - 1])

LEMMA ReleasingState ==
  ASSUME NEW s, NEW gs, NEW ks, NEW live, NEW m, Releasing(s, gs, ks, live, m)
  PROVE  s \in States
  <1>1. PICK h2, p2 : s = Stack(h2, p2) /\ OkState(h2, gs, p2, ks)
    BY DEF Releasing
  <1>2. h2 \in Heaps /\ p2 \in Seq(AllGuards)
    BY <1>1 DEF OkState, OkTypes
  <1> QED BY <1>1, <1>2 DEF States, Stack

LEMMA FollowReleases ==
  ASSUME GuardAssumption, NEW f, NEW a, NEW gs, NEW ks, NEW live, Follow(f, a),
         Releasing(a, gs, ks, live, Guard!MaxReleases)
  PROVE  \A n \in 0 .. Guard!MaxReleases : Releasing(f[n], gs, ks, live, Guard!MaxReleases - n)
  <1>1. PICK M \in Nat : M = Guard!MaxReleases
    BY MaxReleasesType
  <1> DEFINE T == {n \in 0 .. M : ~Releasing(f[n], gs, ks, live, M - n)}
  <1>2. SUFFICES ASSUME T # {} PROVE FALSE
    BY <1>1
  <1>3. T \subseteq Nat
    OBVIOUS
  <1>4. PICK m \in T : \A i \in T : m <= i
    <2> HIDE DEF T
    <2> QED BY <1>2, <1>3, LeastLength
  <1>5. m \in 0 .. M /\ ~Releasing(f[m], gs, ks, live, M - m)
    BY <1>4
  <1>6. m # 0
    <2>1. f[0] = a /\ M - 0 = M
      BY <1>1 DEF Follow
    <2> QED BY <1>1, <1>5, <2>1
  <1>7. m \in 1 .. M /\ m - 1 \in 0 .. M /\ ~(m <= m - 1)
    BY <1>5, <1>6
  <1>8. Releasing(f[m - 1], gs, ks, live, M - (m - 1))
    BY <1>4, <1>7
  <1>9. PICK r \in Nat : r = M - (m - 1) /\ r > 0 /\ r <= M /\ r - 1 = M - m
    BY <1>7
  <1>10. Releasing(Guard!ReleaseOne(f[m - 1]), gs, ks, live, r - 1)
    BY <1>1, <1>8, <1>9, ReleaseStep
  <1>11. Guard!ReleaseOne(f[m - 1]) \in States
    BY <1>10, ReleasingState
  <1>12. f[m] = Guard!ReleaseOne(f[m - 1])
    BY <1>1, <1>7, <1>11 DEF Follow
  <1> QED BY <1>5, <1>9, <1>10, <1>12

\* What the recursion of Released computes.
Unfolds(f, a) ==
  f = [n \in 0 .. Guard!MaxReleases |-> IF n = 0 THEN a ELSE Guard!ReleaseOne(f[n - 1])]

LEMMA ReleasedUnfolds ==
  ASSUME NEW h, NEW g
  PROVE  \E f : f = (CHOOSE x : Unfolds(x, Stack(h, <<g>>))) /\ Guard!Released(h, g) = f[Guard!MaxReleases].heap
  BY DEF Guard!Released, Unfolds, Stack

LEMMA UnfoldsExists ==
  ASSUME GuardAssumption, NEW a, NEW gs, NEW ks, NEW live, Releasing(a, gs, ks, live, Guard!MaxReleases)
  PROVE  \E f : Unfolds(f, a)
  <1>1. PICK M \in Nat : M = Guard!MaxReleases
    BY MaxReleasesType
  <1>2. a \in States
    BY ReleasingState
  <1> DEFINE A == States
             value(s) == IF Guard!ReleaseOne(s) \in A THEN Guard!ReleaseOne(s) ELSE a
             step == [p \in (1 .. M) \X A |-> value(p[2])]
  <1>3. step \in [(1 .. M) \X A -> A]
    <2>1. ASSUME NEW s \in A PROVE value(s) \in A
      <3> HIDE DEF A
      <3> QED BY <1>2 DEF A
    <2> HIDE DEF A, value
    <2> QED BY <2>1
  <1>4. \A i \in 1 .. M, s \in A : step[<<i, s>>] = value(s)
    <2> HIDE DEF A, value
    <2> QED OBVIOUS
  <1>5. PICK f \in [0 .. M -> A] : Recurs(f, a, step, M)
    <2> HIDE DEF A, step, value
    <2> QED BY <1>2, <1>3, RecursionDefined DEF A
  <1>6. ASSUME NEW i \in 1 .. M PROVE f[i] = value(f[i - 1])
    <2> HIDE DEF A, step, value
    <2>1. i - 1 \in 0 .. M
      OBVIOUS
    <2>2. f[i - 1] \in A
      BY <1>5, <2>1
    <2> QED BY <1>4, <1>5, <1>6, <2>2 DEF Recurs
  <1>7. Follow(f, a)
    <2>1. f[0] = a
      BY <1>5 DEF Recurs
    <2>2. ASSUME NEW n \in 1 .. M, Guard!ReleaseOne(f[n - 1]) \in States
          PROVE  f[n] = Guard!ReleaseOne(f[n - 1])
      BY <1>6, <2>2
    <2> HIDE DEF step, value, A
    <2> QED BY <1>1, <2>1, <2>2 DEF Follow
  <1> HIDE DEF A, step, value
  <1>8. \A n \in 0 .. M : Releasing(f[n], gs, ks, live, M - n)
    BY <1>1, <1>7, FollowReleases
  <1>9. ASSUME NEW i \in 0 .. M PROVE f[i] = IF i = 0 THEN a ELSE Guard!ReleaseOne(f[i - 1])
    <2>1. CASE i = 0
      BY <1>7, <2>1 DEF Follow
    <2>2. CASE i # 0
      <3>1. i \in 1 .. M /\ i - 1 \in 0 .. M
        BY <2>2
      <3>2. PICK r \in Nat : r = M - (i - 1) /\ r > 0 /\ r <= M
        BY <3>1
      <3>3. Releasing(f[i - 1], gs, ks, live, r)
        BY <1>8, <3>1, <3>2
      <3>4. Releasing(Guard!ReleaseOne(f[i - 1]), gs, ks, live, r - 1)
        BY <1>1, <3>2, <3>3, ReleaseStep
      <3>5. Guard!ReleaseOne(f[i - 1]) \in States
        BY <3>4, ReleasingState
      <3> QED BY <1>1, <1>7, <2>2, <3>1, <3>5 DEF Follow
    <2> QED BY <2>1, <2>2
  <1>10. f = [i \in 0 .. M |-> IF i = 0 THEN a ELSE Guard!ReleaseOne(f[i - 1])]
    BY <1>5, <1>9
  <1> QED BY <1>1, <1>10 DEF Unfolds

LEMMA UnfoldsFollows ==
  ASSUME GuardAssumption, NEW f, NEW a, Unfolds(f, a)
  PROVE  Follow(f, a)
  <1>1. PICK M \in Nat : M = Guard!MaxReleases
    BY MaxReleasesType
  <1> DEFINE d == 0 .. M
             v(i) == IF i = 0 THEN a ELSE Guard!ReleaseOne(f[i - 1])
  <1>2. f = [i \in d |-> v(i)]
    BY <1>1 DEF Unfolds
  <1>3. \A i \in d : f[i] = v(i)
    <2> HIDE DEF d, v
    <2> QED BY <1>2
  <1>4. 0 \in d /\ \A i \in 1 .. M : i \in d /\ i # 0
    OBVIOUS
  <1> QED BY <1>1, <1>3, <1>4 DEF Follow

\* All that waits is released.
LEMMA ReleasedOk ==
  ASSUME GuardAssumption, NEW h, NEW gs, NEW g, NEW ks, OkState(h, gs, <<g>>, ks)
  PROVE  /\ OkState(Guard!Released(h, g), gs, << >>, ks)
         /\ Live(Guard!Released(h, g)) \subseteq Live(h)
  <1>1. PICK M \in Nat : M = Guard!MaxReleases /\ M = 2 * MaxImpls + 1 /\ MaxImpls \in Nat
    BY MaxReleasesType DEF GuardAssumption
  <1>2. PICK a : a = Stack(h, <<g>>)
    OBVIOUS
  <1>3. Releasing(a, gs, ks, Live(h), M)
    <2>1. Len(<<g>>) = 1
      OBVIOUS
    <2>2. PICK c \in Nat : c = Cardinality(Live(h)) /\ c <= MaxImpls
      BY LiveType
    <2>3. 2 * c + 1 <= M
      BY <1>1, <2>2
    <2>4. Within(h, Len(<<g>>), M)
      BY <2>1, <2>2, <2>3 DEF Within
    <2> QED BY <1>2, <2>4 DEF Releasing
  <1>4. PICK f : f = (CHOOSE x : Unfolds(x, a)) /\ Guard!Released(h, g) = f[M].heap
    BY <1>1, <1>2, ReleasedUnfolds
  <1>5. Unfolds(f, a)
    <2>1. \E x : Unfolds(x, a)
      BY <1>1, <1>3, UnfoldsExists
    <2> QED BY <1>4, <2>1
  <1>6. Follow(f, a)
    BY <1>5, UnfoldsFollows
  <1>7. Releasing(f[M], gs, ks, Live(h), M - M)
    <2>1. \A n \in 0 .. M : Releasing(f[n], gs, ks, Live(h), M - n)
      BY <1>1, <1>3, <1>6, FollowReleases
    <2>2. M \in 0 .. M
      OBVIOUS
    <2> QED BY <2>1, <2>2
  <1>8. PICK h2, p2 : /\ f[M] = Stack(h2, p2)
                      /\ OkState(h2, gs, p2, ks)
                      /\ Live(h2) \subseteq Live(h)
                      /\ Within(h2, Len(p2), M - M)
    BY <1>7 DEF Releasing
  <1>9. p2 \in Seq(AllGuards) /\ Len(p2) \in Nat
    BY <1>8, LenProperties DEF OkState, OkTypes
  <1>10. Len(p2) = 0
    <2>1. PICK c \in Nat : c = Cardinality(Live(h2))
      BY LiveType
    <2>2. M - M = 0
      OBVIOUS
    <2>3. Len(p2) = 0 \/ 2 * c + Len(p2) <= 0
      BY <1>8, <2>1, <2>2 DEF Within
    <2> QED BY <1>9, <2>1, <2>3
  <1>11. p2 = << >>
    BY <1>9, <1>10, EmptySeq
  <1>12. Guard!Released(h, g) = h2
    BY <1>4, <1>8 DEF Stack
  <1> QED BY <1>8, <1>11, <1>12

----------------------------------------------------------------------------
(***************************************************************************)
(* Operations that release nothing: one or two blobs change.               *)
(***************************************************************************)

\* f2 is f with other values for b and c.
Changes(f, b, v, c, w, f2) ==
  /\ f2[b] = v /\ f2[c] = w
  /\ \A d \in Guard!Holders : d # b /\ d # c => f2[d] = f[d]

\* Of the places outside of impls, only those of b, c and one that waits change.
Touches(ptr, b, c, new) ==
  \A x \in Outer : x \notin {InBlob(b), InBlob(c), Waiting(1)} => new[x] = ptr[x]

Inside(new, refs, h) ==
  \A i \in ImplIds : /\ new[Owns(i)] = h.impls[i].owns /\ new[Behind(i)] = h.impls[i].next
                     /\ refs[i] = h.impls[i].refs

NoGuards == << >>

LEMMA NothingWaits ==
  ASSUME GuardAssumption, NEW ptr, NEW refs, NEW h, NEW gs, Shows(ptr, refs, h, gs, NoGuards)
  PROVE  /\ 1 \in 1 .. Guard!MaxReleases /\ Waiting(1) \in Outer /\ Waiting(1) \in Places
         /\ \A n \in 1 .. Guard!MaxReleases : ptr[Waiting(n)] = Guard!Null
         /\ \A b \in Guard!Holders : /\ InBlob(b) \in Outer /\ InBlob(b) \in Places /\ InBlob(b) # Waiting(1)
                                     /\ ptr[InBlob(b)] = gs[b]
         /\ Inside(ptr, refs, h)
  <1>1. 1 \in 1 .. Guard!MaxReleases
    BY MaxReleasesType DEF GuardAssumption
  <1>2. Waiting(1) \in Outer /\ Waiting(1) \in Places
    BY <1>1, StackPlaces
  <1>3. Len(NoGuards) = 0
    BY DEF NoGuards
  <1>4. ASSUME NEW n \in 1 .. Guard!MaxReleases PROVE ptr[Waiting(n)] = Guard!Null
    <2>1. ~(n <= Len(NoGuards))
      BY <1>3, MaxReleasesType
    <2> QED BY <2>1 DEF Shows
  <1>5. \A b \in Guard!Holders : /\ InBlob(b) \in Outer /\ InBlob(b) \in Places /\ InBlob(b) # Waiting(1)
                                 /\ ptr[InBlob(b)] = gs[b]
    BY PlacesIn, PlacesDiffer DEF Shows
  <1>6. Inside(ptr, refs, h)
    BY DEF Shows, Inside
  <1> QED BY <1>1, <1>2, <1>4, <1>5, <1>6

LEMMA ShowsTouched ==
  ASSUME GuardAssumption, NEW ptr, NEW refs, NEW h, NEW gs, Shows(ptr, refs, h, gs, NoGuards),
         NEW b \in Guard!Holders, NEW c \in Guard!Holders, NEW new, Touches(ptr, b, c, new),
         new[Waiting(1)] = Guard!Null,
         NEW gs2, Changes(gs, b, new[InBlob(b)], c, new[InBlob(c)], gs2),
         NEW refs2, NEW h2, Inside(new, refs2, h2)
  PROVE  Shows(new, refs2, h2, gs2, NoGuards)
  <1>1. ASSUME NEW d \in Guard!Holders PROVE new[InBlob(d)] = gs2[d]
    <2>1. CASE d = b \/ d = c
      BY <2>1 DEF Changes
    <2>2. CASE d # b /\ d # c
      <3>1. InBlob(d) \in Outer /\ InBlob(d) \notin {InBlob(b), InBlob(c), Waiting(1)}
        BY <2>2, PlacesIn, PlacesDiffer
      <3>2. new[InBlob(d)] = ptr[InBlob(d)]
        BY <3>1 DEF Touches
      <3>3. gs2[d] = gs[d]
        BY <2>2 DEF Changes
      <3>4. ptr[InBlob(d)] = gs[d]
        BY DEF Shows
      <3> QED BY <3>2, <3>3, <3>4
    <2> QED BY <2>1, <2>2
  <1>2. ASSUME NEW n \in 1 .. Guard!MaxReleases PROVE new[Waiting(n)] = Guard!Null
    <2>1. CASE n = 1
      BY <2>1
    <2>2. CASE n # 1
      <3>1. Waiting(n) \in Outer /\ Waiting(n) \notin {InBlob(b), InBlob(c), Waiting(1)}
        BY <2>2, PlacesIn, PlacesDiffer
      <3>2. new[Waiting(n)] = ptr[Waiting(n)]
        BY <3>1 DEF Touches
      <3> QED BY <3>2, NothingWaits
    <2> QED BY <2>1, <2>2
  <1>3. ASSUME NEW n \in 1 .. Guard!MaxReleases
        PROVE  new[Waiting(n)] = IF n <= Len(NoGuards) THEN NoGuards[n] ELSE Guard!Null
    <2>1. ~(n <= Len(NoGuards))
      BY MaxReleasesType DEF NoGuards
    <2> QED BY <1>2, <2>1
  <1> QED BY <1>1, <1>3 DEF Shows, Inside

\* What the blobs keep.
LEMMA KeptChanged ==
  ASSUME NEW ks, NEW R, NEW gs, KeptAre(ks, R, gs), NEW R2,
         NEW b \in Guard!Holders, NEW c \in Guard!Holders, NEW v, NEW w, NEW gs2, Changes(gs, b, v, c, w, gs2),
         NEW ks2, Changes(ks, b, Keeps(R2, v), c, Keeps(R2, w), ks2),
         \A d \in Guard!Holders : d # b /\ d # c => Keeps(R2, gs[d]) = Keeps(R, gs[d])
  PROVE  KeptAre(ks2, R2, gs2)
  <1>1. ASSUME NEW d \in Guard!Holders PROVE ks2[d] = Keeps(R2, gs2[d])
    <2>1. CASE d = b \/ d = c
      BY <2>1 DEF Changes
    <2>2. CASE d # b /\ d # c
      BY <2>2 DEF Changes, KeptAre
    <2> QED BY <2>1, <2>2
  <1> QED BY <1>1 DEF KeptAre

OkTyped(h, gs) == h \in Heaps /\ gs \in [Guard!Holders -> AllGuards]

Ok(h, gs, ks) ==
  /\ OkTyped(h, gs)
  /\ \E ptr, refs, R, rank : /\ Graph(ptr, refs, h.freed, R, rank)
                             /\ Shows(ptr, refs, h, gs, NoGuards)
                             /\ KeptAre(ks, R, gs)

LEMMA OkIs ==
  ASSUME GuardAssumption, NEW h, NEW gs, NEW ks
  PROVE  Ok(h, gs, ks) <=> OkState(h, gs, NoGuards, ks)
  <1>1. NoGuards \in Seq(AllGuards) /\ Len(NoGuards) = 0 /\ Len(NoGuards) <= Guard!MaxReleases
    BY MaxReleasesType, EmptySeq DEF NoGuards
  <1> QED BY <1>1 DEF Ok, OkState, OkTyped, OkTypes

\* A blob is given the guard of another.
LEMMA OkMove ==
  ASSUME GuardAssumption, NEW h, NEW gs, NEW ks, Ok(h, gs, ks),
         NEW b \in Guard!Holders, NEW c \in Guard!Holders, b # c, gs[c] = Guard!Null,
         NEW gs2, OkTyped(h, gs2), Changes(gs, b, Guard!Null, c, gs[b], gs2),
         NEW ks2, Changes(ks, b, {}, c, ks[b], ks2)
  PROVE  Ok(h, gs2, ks2)
  <1>1. PICK ptr, refs, R, rank : /\ Graph(ptr, refs, h.freed, R, rank)
                                  /\ Shows(ptr, refs, h, gs, NoGuards)
                                  /\ KeptAre(ks, R, gs)
    BY DEF Ok
  <1>2. /\ Waiting(1) \in Outer /\ Waiting(1) \in Places /\ ptr[Waiting(1)] = Guard!Null
        /\ InBlob(b) \in Outer /\ InBlob(b) \in Places /\ InBlob(b) # Waiting(1) /\ ptr[InBlob(b)] = gs[b]
        /\ InBlob(c) \in Outer /\ InBlob(c) \in Places /\ InBlob(c) # Waiting(1) /\ ptr[InBlob(c)] = gs[c]
        /\ Inside(ptr, refs, h)
    BY <1>1, NothingWaits
  <1>3. InBlob(b) # InBlob(c)
    BY PlacesDiffer
  <1>4. PICK new : new = Put(Put(ptr, InBlob(c), ptr[InBlob(b)]), InBlob(b), Guard!Null)
    OBVIOUS
  <1>5. Graph(new, refs, h.freed, R, rank)
    BY <1>1, <1>2, <1>3, <1>4, GraphMove
  <1>6. ptr \in [Places -> AllGuards] /\ R \in [ImplIds -> SUBSET ObjectIds]
    BY <1>1, GraphSays
  <1>7. /\ new[InBlob(c)] = gs[b] /\ new[InBlob(b)] = Guard!Null
        /\ \A x \in Places : x \notin {InBlob(b), InBlob(c)} => new[x] = ptr[x]
    <2>1. PICK mid : mid = Put(ptr, InBlob(c), ptr[InBlob(b)])
      OBVIOUS
    <2>2. /\ mid[InBlob(c)] = gs[b] /\ DOMAIN mid = Places
          /\ \A x \in Places : x # InBlob(c) => mid[x] = ptr[x]
      BY <1>2, <1>6, <2>1 DEF Put
    <2>3. new[InBlob(b)] = Guard!Null /\ \A x \in Places : x # InBlob(b) => new[x] = mid[x]
      BY <1>2, <1>4, <2>1, <2>2 DEF Put
    <2> QED BY <1>2, <1>3, <2>2, <2>3
  <1>8. Touches(ptr, b, c, new) /\ new[Waiting(1)] = Guard!Null
    BY <1>2, <1>7, PlacesIn DEF Touches
  <1>9. Inside(new, refs, h)
    <2>1. ASSUME NEW i \in ImplIds PROVE new[Owns(i)] = ptr[Owns(i)] /\ new[Behind(i)] = ptr[Behind(i)]
      <3>1. /\ Owns(i) \in Places /\ Behind(i) \in Places
            /\ Owns(i) \notin {InBlob(b), InBlob(c)} /\ Behind(i) \notin {InBlob(b), InBlob(c)}
        BY PlacesIn, PlacesDiffer
      <3> QED BY <1>7, <3>1
    <2> QED BY <1>2, <2>1 DEF Inside
  <1>10. Shows(new, refs, h, gs2, NoGuards)
    BY <1>1, <1>7, <1>8, <1>9, ShowsTouched
  <1>11. KeptAre(ks2, R, gs2)
    <2>1. Keeps(R, Guard!Null) = {} /\ ks[b] = Keeps(R, gs[b])
      BY <1>1, <1>6, KeepsIs DEF KeptAre
    <2>2. Changes(ks, b, Keeps(R, Guard!Null), c, Keeps(R, gs[b]), ks2)
      BY <2>1
    <2> QED BY <1>1, <2>2, KeptChanged
  <1> QED BY <1>5, <1>10, <1>11 DEF Ok

\* The guard of a blob is released.
LEMMA OkRelease ==
  ASSUME GuardAssumption, NEW h, NEW gs, NEW ks, Ok(h, gs, ks), NEW b \in Guard!Holders,
         NEW gs2, OkTyped(h, gs2), Changes(gs, b, Guard!Null, b, Guard!Null, gs2),
         NEW ks2, Changes(ks, b, {}, b, {}, ks2)
  PROVE  Ok(Guard!Released(h, gs[b]), gs2, ks2) /\ Live(Guard!Released(h, gs[b])) \subseteq Live(h)
  <1>1. PICK ptr, refs, R, rank : /\ Graph(ptr, refs, h.freed, R, rank)
                                  /\ Shows(ptr, refs, h, gs, NoGuards)
                                  /\ KeptAre(ks, R, gs)
    BY DEF Ok
  <1>2. /\ 1 \in 1 .. Guard!MaxReleases /\ Waiting(1) \in Outer /\ Waiting(1) \in Places /\ ptr[Waiting(1)] = Guard!Null
        /\ InBlob(b) \in Outer /\ InBlob(b) \in Places /\ InBlob(b) # Waiting(1) /\ ptr[InBlob(b)] = gs[b]
        /\ Inside(ptr, refs, h)
    BY <1>1, NothingWaits
  <1>4. PICK new : new = Put(Put(ptr, Waiting(1), ptr[InBlob(b)]), InBlob(b), Guard!Null)
    OBVIOUS
  <1>5. Graph(new, refs, h.freed, R, rank)
    BY <1>1, <1>2, <1>4, GraphMove
  <1>6. ptr \in [Places -> AllGuards] /\ R \in [ImplIds -> SUBSET ObjectIds]
    BY <1>1, GraphSays
  <1>7. /\ new[Waiting(1)] = gs[b] /\ new[InBlob(b)] = Guard!Null
        /\ \A x \in Places : x \notin {InBlob(b), Waiting(1)} => new[x] = ptr[x]
    <2>1. PICK mid : mid = Put(ptr, Waiting(1), ptr[InBlob(b)])
      OBVIOUS
    <2>2. /\ mid[Waiting(1)] = gs[b] /\ DOMAIN mid = Places
          /\ \A x \in Places : x # Waiting(1) => mid[x] = ptr[x]
      BY <1>2, <1>6, <2>1 DEF Put
    <2>3. new[InBlob(b)] = Guard!Null /\ \A x \in Places : x # InBlob(b) => new[x] = mid[x]
      BY <1>2, <1>4, <2>1, <2>2 DEF Put
    <2> QED BY <1>2, <2>2, <2>3
  <1>8. PICK g \in AllGuards : g = gs[b]
    BY DEF Ok, OkTyped
  <1>9. /\ <<g>> \in Seq(AllGuards) /\ Len(<<g>>) = 1 /\ <<g>>[1] = g
    OBVIOUS
  <1>10. ASSUME NEW n \in 1 .. Guard!MaxReleases
         PROVE  new[Waiting(n)] = IF n <= Len(<<g>>) THEN <<g>>[n] ELSE Guard!Null
    <2>1. CASE n = 1
      BY <1>7, <1>8, <1>9, <2>1
    <2>2. CASE n # 1
      <3>1. Waiting(n) \in Places /\ Waiting(n) \notin {InBlob(b), Waiting(1)}
        BY <2>2, StackPlaces, PlacesDiffer
      <3>2. new[Waiting(n)] = ptr[Waiting(n)]
        BY <1>7, <3>1
      <3>3. ptr[Waiting(n)] = Guard!Null
        BY <1>1, NothingWaits
      <3>4. ~(n <= Len(<<g>>))
        BY <1>9, <2>2, MaxReleasesType
      <3> QED BY <3>2, <3>3, <3>4
    <2> QED BY <2>1, <2>2
  <1>11. ASSUME NEW i \in ImplIds PROVE new[Owns(i)] = ptr[Owns(i)] /\ new[Behind(i)] = ptr[Behind(i)]
    <2>1. /\ Owns(i) \in Places /\ Behind(i) \in Places
          /\ Owns(i) \notin {InBlob(b), Waiting(1)} /\ Behind(i) \notin {InBlob(b), Waiting(1)}
      BY PlacesIn, PlacesDiffer
    <2> QED BY <1>7, <2>1
  <1>12. ASSUME NEW d \in Guard!Holders PROVE new[InBlob(d)] = gs2[d]
    <2>1. CASE d = b
      BY <1>7, <2>1 DEF Changes
    <2>2. CASE d # b
      <3>1. InBlob(d) \in Places /\ InBlob(d) \notin {InBlob(b), Waiting(1)}
        BY <2>2, PlacesIn, PlacesDiffer
      <3>2. ptr[InBlob(d)] = gs[d]
        BY <1>1 DEF Shows
      <3>3. gs2[d] = gs[d]
        BY <2>2 DEF Changes
      <3> QED BY <1>7, <3>1, <3>2, <3>3
    <2> QED BY <2>1, <2>2
  <1>13. Shows(new, refs, h, gs2, <<g>>)
    BY <1>2, <1>10, <1>11, <1>12 DEF Shows, Inside
  <1>14. KeptAre(ks2, R, gs2)
    <2>1. Keeps(R, Guard!Null) = {}
      BY <1>6, KeepsIs
    <2>2. Changes(ks, b, Keeps(R, Guard!Null), b, Keeps(R, Guard!Null), ks2)
      BY <2>1
    <2> QED BY <1>1, <2>2, KeptChanged
  <1>15. OkTypes(h, gs2, <<g>>)
    <2>1. Len(<<g>>) <= Guard!MaxReleases
      BY <1>2, <1>9, MaxReleasesType
    <2> QED BY <1>9, <2>1 DEF OkTyped, OkTypes
  <1>16. OkState(h, gs2, <<g>>, ks2)
    BY <1>5, <1>13, <1>14, <1>15 DEF OkState
  <1>17. /\ OkState(Guard!Released(h, g), gs2, << >>, ks2)
         /\ Live(Guard!Released(h, g)) \subseteq Live(h)
    BY <1>16, ReleasedOk
  <1>18. OkState(Guard!Released(h, g), gs2, NoGuards, ks2)
    BY <1>17 DEF NoGuards
  <1>19. Ok(Guard!Released(h, g), gs2, ks2)
    BY <1>18, OkIs
  <1> QED BY <1>8, <1>17, <1>19

\* The places of impls are not those of blobs, nor those that wait.
LEMMA InnerApart ==
  ASSUME NEW i \in ImplIds, NEW b, NEW c, NEW n
  PROVE  /\ Owns(i) \in Places /\ Behind(i) \in Places
         /\ Owns(i) \notin {InBlob(b), InBlob(c), Waiting(n)} /\ Behind(i) \notin {InBlob(b), InBlob(c), Waiting(n)}
         /\ \A k : i # k => Owns(i) \notin {Owns(k), Behind(k)} /\ Behind(i) \notin {Owns(k), Behind(k)}
  BY PlacesIn, PlacesDiffer

\* Memory is allocated for a blob.
LEMMA OkAllocate ==
  ASSUME GuardAssumption, NEW h, NEW gs, NEW ks, Ok(h, gs, ks),
         NEW b \in Guard!Holders, gs[b] = Guard!Null, NEW o \in ObjectIds, h.freed[o] # 0,
         NEW h2, h2 = [h EXCEPT !.freed[o] = 0],
         NEW gs2, OkTyped(h, gs2), Changes(gs, b, Guard!Raw(o), b, Guard!Raw(o), gs2),
         NEW ks2, Changes(ks, b, {o}, b, {o}, ks2)
  PROVE  Ok(h2, gs2, ks2) /\ h2.impls = h.impls
  <1>1. PICK ptr, refs, R, rank : /\ Graph(ptr, refs, h.freed, R, rank)
                                  /\ Shows(ptr, refs, h, gs, NoGuards)
                                  /\ KeptAre(ks, R, gs)
    BY DEF Ok
  <1>2. /\ Waiting(1) \in Outer /\ Waiting(1) \in Places /\ ptr[Waiting(1)] = Guard!Null
        /\ InBlob(b) \in Outer /\ InBlob(b) \in Places /\ InBlob(b) # Waiting(1) /\ ptr[InBlob(b)] = Guard!Null
        /\ Inside(ptr, refs, h)
    BY <1>1, NothingWaits
  <1>3. PICK new : new = Put(ptr, InBlob(b), Guard!Raw(o))
    OBVIOUS
  <1>4. h2 \in Heaps /\ h2.impls = h.impls /\ h2.freed = [h.freed EXCEPT ![o] = 0]
    BY FreedEdited DEF Ok, OkTyped
  <1>5. Graph(new, refs, h2.freed, R, rank)
    BY <1>1, <1>2, <1>3, <1>4, GraphAllocate
  <1>6. ptr \in [Places -> AllGuards] /\ R \in [ImplIds -> SUBSET ObjectIds]
    BY <1>1, GraphSays
  <1>7. new[InBlob(b)] = Guard!Raw(o) /\ \A x \in Places : x # InBlob(b) => new[x] = ptr[x]
    BY <1>2, <1>3, <1>6 DEF Put
  <1>8. Touches(ptr, b, b, new) /\ new[Waiting(1)] = Guard!Null
    BY <1>2, <1>7, PlacesIn DEF Touches
  <1>9. Inside(new, refs, h2)
    <2>1. ASSUME NEW i \in ImplIds PROVE new[Owns(i)] = ptr[Owns(i)] /\ new[Behind(i)] = ptr[Behind(i)]
      BY <1>7, InnerApart
    <2> QED BY <1>2, <1>4, <2>1 DEF Inside
  <1>10. Shows(new, refs, h2, gs2, NoGuards)
    BY <1>1, <1>7, <1>8, <1>9, ShowsTouched
  <1>11. KeptAre(ks2, R, gs2)
    <2>1. Keeps(R, Guard!Raw(o)) = {o}
      BY <1>6, KeepsIs
    <2>2. Changes(ks, b, Keeps(R, Guard!Raw(o)), b, Keeps(R, Guard!Raw(o)), ks2)
      BY <2>1
    <2> QED BY <1>1, <2>2, KeptChanged
  <1> QED BY <1>4, <1>5, <1>10, <1>11 DEF Ok, OkTyped

\* A blob shares the impl of another.
LEMMA OkFill ==
  ASSUME GuardAssumption, NEW h, NEW gs, NEW ks, Ok(h, gs, ks),
         NEW b \in Guard!Holders, NEW c \in Guard!Holders, gs[c] = Guard!Null,
         NEW k \in ImplIds, gs[b] = Guard!Impl(k),
         NEW h2, Edits(h, k, h.impls[k].refs + 1, h.impls[k].next, h.impls[k].owns, h2),
         NEW gs2, OkTyped(h, gs2), Changes(gs, c, Guard!Impl(k), c, Guard!Impl(k), gs2),
         NEW ks2, Changes(ks, c, ks[b], c, ks[b], ks2)
  PROVE  Ok(h2, gs2, ks2)
  <1>1. PICK ptr, refs, R, rank : /\ Graph(ptr, refs, h.freed, R, rank)
                                  /\ Shows(ptr, refs, h, gs, NoGuards)
                                  /\ KeptAre(ks, R, gs)
    BY DEF Ok
  <1>2. /\ Waiting(1) \in Outer /\ Waiting(1) \in Places /\ ptr[Waiting(1)] = Guard!Null
        /\ InBlob(c) \in Outer /\ InBlob(c) \in Places /\ InBlob(c) # Waiting(1) /\ ptr[InBlob(c)] = Guard!Null
        /\ InBlob(b) \in Places /\ ptr[InBlob(b)] = Guard!Impl(k)
        /\ Inside(ptr, refs, h)
    BY <1>1, NothingWaits
  <1>3. PICK new : new = Put(ptr, InBlob(c), Guard!Impl(k))
    OBVIOUS
  <1>4. refs[k] # 0
    <2>1. Count(ptr, Guard!Impl(k)) # 0
      BY <1>2, CountSome
    <2> QED BY <1>1, <2>1, GraphSays
  <1>5. PICK refs2 : refs2 = [refs EXCEPT ![k] = @ + 1]
    OBVIOUS
  <1>6. Graph(new, refs2, h.freed, R, rank)
    BY <1>1, <1>2, <1>3, <1>4, <1>5, GraphFill
  <1>7. ptr \in [Places -> AllGuards] /\ refs \in [ImplIds -> Nat]
    BY <1>1, GraphSays
  <1>8. new[InBlob(c)] = Guard!Impl(k) /\ \A x \in Places : x # InBlob(c) => new[x] = ptr[x]
    BY <1>2, <1>3, <1>7 DEF Put
  <1>9. Touches(ptr, c, c, new) /\ new[Waiting(1)] = Guard!Null
    BY <1>2, <1>8, PlacesIn DEF Touches
  <1>10. refs2[k] = refs[k] + 1 /\ \A i \in ImplIds : i # k => refs2[i] = refs[i]
    BY <1>5, <1>7
  <1>11. Inside(new, refs2, h2)
    <2>1. ASSUME NEW i \in ImplIds
          PROVE  new[Owns(i)] = h2.impls[i].owns /\ new[Behind(i)] = h2.impls[i].next /\ refs2[i] = h2.impls[i].refs
      <3>1. new[Owns(i)] = ptr[Owns(i)] /\ new[Behind(i)] = ptr[Behind(i)]
        BY <1>8, InnerApart
      <3>2. ptr[Owns(i)] = h.impls[i].owns /\ ptr[Behind(i)] = h.impls[i].next /\ refs[i] = h.impls[i].refs
        BY <1>2 DEF Inside
      <3>3. CASE i = k
        BY <1>10, <3>1, <3>2, <3>3 DEF Edits
      <3>4. CASE i # k
        BY <1>10, <3>1, <3>2, <3>4 DEF Edits
      <3> QED BY <3>3, <3>4
    <2> QED BY <2>1 DEF Inside
  <1>12. Shows(new, refs2, h2, gs2, NoGuards)
    BY <1>1, <1>8, <1>9, <1>11, ShowsTouched
  <1>13. KeptAre(ks2, R, gs2)
    <2>1. Keeps(R, Guard!Impl(k)) = ks[b]
      BY <1>1 DEF KeptAre
    <2>2. Changes(ks, c, Keeps(R, Guard!Impl(k)), c, Keeps(R, Guard!Impl(k)), ks2)
      BY <2>1
    <2> QED BY <1>1, <2>2, KeptChanged
  <1> QED BY <1>6, <1>12, <1>13 DEF Ok, OkTyped, Edits

\* What an impl that is not used has.
LEMMA UnusedImpl ==
  ASSUME GuardAssumption, NEW ptr, NEW refs, NEW freed, NEW R, NEW rank, Graph(ptr, refs, freed, R, rank),
         NEW k \in ImplIds, refs[k] = 0, NEW x \in Places
  PROVE  ptr[x] # Guard!Impl(k)
  <1>1. Count(ptr, Guard!Impl(k)) = 0
    BY GraphSays
  <1> QED BY <1>1, CountZero

\* The guard of a blob gets an impl.
LEMMA OkNewImpl ==
  ASSUME GuardAssumption, NEW h, NEW gs, NEW ks, Ok(h, gs, ks),
         NEW b \in Guard!Holders, NEW k \in ImplIds, h.impls[k].refs = 0,
         NEW h2, Edits(h, k, 1, Guard!Null, gs[b], h2),
         NEW gs2, OkTyped(h, gs2), Changes(gs, b, Guard!Impl(k), b, Guard!Impl(k), gs2)
  PROVE  Ok(h2, gs2, ks)
  <1>1. PICK ptr, refs, R, rank : /\ Graph(ptr, refs, h.freed, R, rank)
                                  /\ Shows(ptr, refs, h, gs, NoGuards)
                                  /\ KeptAre(ks, R, gs)
    BY DEF Ok
  <1>2. /\ Waiting(1) \in Outer /\ Waiting(1) \in Places /\ ptr[Waiting(1)] = Guard!Null
        /\ InBlob(b) \in Outer /\ InBlob(b) \in Places /\ InBlob(b) # Waiting(1) /\ ptr[InBlob(b)] = gs[b]
        /\ Inside(ptr, refs, h)
    BY <1>1, NothingWaits
  <1>3. refs[k] = 0
    BY <1>2 DEF Inside
  <1>4. PICK new, R2, rank2 : /\ Graph(new, [refs EXCEPT ![k] = 1], h.freed, R2, rank2)
                              /\ NewAt(ptr, k, InBlob(b), Waiting(1), new)
                              /\ Keeping(R, k, Keeps(R, ptr[InBlob(b)]) \cup Keeps(R, ptr[Waiting(1)]), R2)
    BY <1>1, <1>2, <1>3, GraphNew
  <1>5. PICK refs2 : refs2 = [refs EXCEPT ![k] = 1]
    OBVIOUS
  <1>6. ptr \in [Places -> AllGuards] /\ refs \in [ImplIds -> Nat] /\ R \in [ImplIds -> SUBSET ObjectIds]
    BY <1>1, GraphSays
  <1>7. refs2[k] = 1 /\ \A i \in ImplIds : i # k => refs2[i] = refs[i]
    BY <1>5, <1>6
  <1>8. new[InBlob(b)] = Guard!Impl(k) /\ new[Waiting(1)] = Guard!Null
    BY <1>4 DEF NewAt
  <1>9. Touches(ptr, b, b, new)
    BY <1>4, PlacesIn DEF Touches, NewAt
  <1>10. Inside(new, refs2, h2)
    <2>1. ASSUME NEW i \in ImplIds
          PROVE  new[Owns(i)] = h2.impls[i].owns /\ new[Behind(i)] = h2.impls[i].next /\ refs2[i] = h2.impls[i].refs
      <3>1. CASE i = k
        <4>1. new[Owns(k)] = gs[b] /\ new[Behind(k)] = Guard!Null
          BY <1>2, <1>4 DEF NewAt
        <4> QED BY <1>7, <3>1, <4>1 DEF Edits
      <3>2. CASE i # k
        <4>1. /\ Owns(i) \in Places /\ Owns(i) \notin {InBlob(b), Waiting(1), Owns(k), Behind(k)}
              /\ Behind(i) \in Places /\ Behind(i) \notin {InBlob(b), Waiting(1), Owns(k), Behind(k)}
          BY <3>2, InnerApart
        <4>2. new[Owns(i)] = ptr[Owns(i)] /\ new[Behind(i)] = ptr[Behind(i)]
          BY <1>4, <4>1 DEF NewAt
        <4>3. ptr[Owns(i)] = h.impls[i].owns /\ ptr[Behind(i)] = h.impls[i].next /\ refs[i] = h.impls[i].refs
          BY <1>2 DEF Inside
        <4> QED BY <1>7, <3>2, <4>2, <4>3 DEF Edits
      <3> QED BY <3>1, <3>2
    <2> QED BY <2>1 DEF Inside
  <1>11. Shows(new, refs2, h2, gs2, NoGuards)
    BY <1>1, <1>8, <1>9, <1>10, ShowsTouched
  <1>12. R2[k] = Keeps(R, gs[b]) /\ R2 \in [ImplIds -> SUBSET ObjectIds]
    <2>1. Keeps(R, Guard!Null) = {}
      BY <1>6, KeepsIs
    <2> QED BY <1>2, <1>4, <2>1 DEF Keeping
  <1>13. KeptAre(ks, R2, gs2)
    <2>1. Keeps(R2, Guard!Impl(k)) = ks[b]
      BY <1>1, <1>12, KeepsIs DEF KeptAre
    <2>2. Changes(ks, b, Keeps(R2, Guard!Impl(k)), b, Keeps(R2, Guard!Impl(k)), ks)
      BY <2>1 DEF Changes
    <2>3. ASSUME NEW d \in Guard!Holders PROVE Keeps(R2, gs[d]) = Keeps(R, gs[d])
      <3>1. InBlob(d) \in Places /\ ptr[InBlob(d)] = gs[d]
        BY <1>1, NothingWaits
      <3>2. gs[d] # Guard!Impl(k)
        BY <1>1, <1>3, <3>1, UnusedImpl
      <3> QED BY <1>4, <3>2 DEF Keeping
    <2> QED BY <1>1, <2>2, <2>3, KeptChanged
  <1>14. h2.freed = h.freed /\ h2 \in Heaps
    BY DEF Edits
  <1> QED BY <1>4, <1>5, <1>11, <1>13, <1>14 DEF Ok, OkTyped

\* The guard of b gets an impl, with the guard of c behind it.
LEMMA OkWrap ==
  ASSUME GuardAssumption, NEW h, NEW gs, NEW ks, Ok(h, gs, ks),
         NEW b \in Guard!Holders, NEW c \in Guard!Holders, b # c, NEW k \in ImplIds, h.impls[k].refs = 0,
         NEW h2, Edits(h, k, 1, gs[c], gs[b], h2),
         NEW gs2, OkTyped(h, gs2), Changes(gs, b, Guard!Impl(k), c, Guard!Null, gs2),
         NEW ks2, Changes(ks, b, ks[b] \cup ks[c], c, {}, ks2)
  PROVE  Ok(h2, gs2, ks2)
  <1>1. PICK ptr, refs, R, rank : /\ Graph(ptr, refs, h.freed, R, rank)
                                  /\ Shows(ptr, refs, h, gs, NoGuards)
                                  /\ KeptAre(ks, R, gs)
    BY DEF Ok
  <1>2. /\ Waiting(1) \in Outer /\ Waiting(1) \in Places /\ ptr[Waiting(1)] = Guard!Null
        /\ InBlob(b) \in Outer /\ InBlob(b) \in Places /\ InBlob(b) # Waiting(1) /\ ptr[InBlob(b)] = gs[b]
        /\ InBlob(c) \in Outer /\ InBlob(c) \in Places /\ InBlob(c) # Waiting(1) /\ ptr[InBlob(c)] = gs[c]
        /\ InBlob(b) # InBlob(c) /\ Inside(ptr, refs, h)
    BY <1>1, NothingWaits, PlacesDiffer
  <1>3. refs[k] = 0
    BY <1>2 DEF Inside
  <1>4. PICK new, R2, rank2 : /\ Graph(new, [refs EXCEPT ![k] = 1], h.freed, R2, rank2)
                              /\ NewAt(ptr, k, InBlob(b), InBlob(c), new)
                              /\ Keeping(R, k, Keeps(R, ptr[InBlob(b)]) \cup Keeps(R, ptr[InBlob(c)]), R2)
    BY <1>1, <1>2, <1>3, GraphNew
  <1>5. PICK refs2 : refs2 = [refs EXCEPT ![k] = 1]
    OBVIOUS
  <1>6. ptr \in [Places -> AllGuards] /\ refs \in [ImplIds -> Nat] /\ R \in [ImplIds -> SUBSET ObjectIds]
    BY <1>1, GraphSays
  <1>7. refs2[k] = 1 /\ \A i \in ImplIds : i # k => refs2[i] = refs[i]
    BY <1>5, <1>6
  <1>15. Waiting(1) \notin {InBlob(b), InBlob(c), Owns(k), Behind(k)}
    BY PlacesDiffer
  <1>8. new[InBlob(b)] = Guard!Impl(k) /\ new[InBlob(c)] = Guard!Null /\ new[Waiting(1)] = Guard!Null
    BY <1>2, <1>4, <1>15 DEF NewAt
  <1>9. Touches(ptr, b, c, new)
    BY <1>4, PlacesIn DEF Touches, NewAt
  <1>10. Inside(new, refs2, h2)
    <2>1. ASSUME NEW i \in ImplIds
          PROVE  new[Owns(i)] = h2.impls[i].owns /\ new[Behind(i)] = h2.impls[i].next /\ refs2[i] = h2.impls[i].refs
      <3>1. CASE i = k
        <4>1. new[Owns(k)] = gs[b] /\ new[Behind(k)] = gs[c]
          BY <1>2, <1>4 DEF NewAt
        <4> QED BY <1>7, <3>1, <4>1 DEF Edits
      <3>2. CASE i # k
        <4>1. /\ Owns(i) \in Places /\ Owns(i) \notin {InBlob(b), InBlob(c), Owns(k), Behind(k)}
              /\ Behind(i) \in Places /\ Behind(i) \notin {InBlob(b), InBlob(c), Owns(k), Behind(k)}
          BY <3>2, InnerApart
        <4>2. new[Owns(i)] = ptr[Owns(i)] /\ new[Behind(i)] = ptr[Behind(i)]
          BY <1>4, <4>1 DEF NewAt
        <4>3. ptr[Owns(i)] = h.impls[i].owns /\ ptr[Behind(i)] = h.impls[i].next /\ refs[i] = h.impls[i].refs
          BY <1>2 DEF Inside
        <4> QED BY <1>7, <3>2, <4>2, <4>3 DEF Edits
      <3> QED BY <3>1, <3>2
    <2> QED BY <2>1 DEF Inside
  <1>11. Shows(new, refs2, h2, gs2, NoGuards)
    BY <1>1, <1>8, <1>9, <1>10, ShowsTouched
  <1>12. R2[k] = ks[b] \cup ks[c] /\ R2 \in [ImplIds -> SUBSET ObjectIds]
    BY <1>1, <1>2, <1>4 DEF Keeping, KeptAre
  <1>13. KeptAre(ks2, R2, gs2)
    <2>1. Keeps(R2, Guard!Impl(k)) = ks[b] \cup ks[c] /\ Keeps(R2, Guard!Null) = {}
      BY <1>12, KeepsIs
    <2>2. Changes(ks, b, Keeps(R2, Guard!Impl(k)), c, Keeps(R2, Guard!Null), ks2)
      BY <2>1
    <2>3. ASSUME NEW d \in Guard!Holders PROVE Keeps(R2, gs[d]) = Keeps(R, gs[d])
      <3>1. InBlob(d) \in Places /\ ptr[InBlob(d)] = gs[d]
        BY <1>1, NothingWaits
      <3>2. gs[d] # Guard!Impl(k)
        BY <1>1, <1>3, <3>1, UnusedImpl
      <3> QED BY <1>4, <3>2 DEF Keeping
    <2> QED BY <1>1, <2>2, <2>3, KeptChanged
  <1>14. h2.freed = h.freed /\ h2 \in Heaps
    BY DEF Edits
  <1> QED BY <1>4, <1>5, <1>11, <1>13, <1>14 DEF Ok, OkTyped

LEMMA NewImplIs ==
  ASSUME GuardAssumption, NEW h, Guard!Unused(h) # {}
  PROVE  Guard!NewImpl(h) \in ImplIds /\ h.impls[Guard!NewImpl(h)].refs = 0
  <1>1. PICK T : T = Guard!Unused(h)
    OBVIOUS
  <1>2. T # {} /\ T \subseteq Nat /\ \A i \in T : i \in ImplIds /\ h.impls[i].refs = 0
    BY <1>1 DEF Guard!Unused, ImplIds, GuardAssumption
  <1>3. \E m \in T : \A n \in T : m <= n
    BY <1>2, LeastLength
  <1>4. Guard!NewImpl(h) \in T
    BY <1>1, <1>3 DEF Guard!NewImpl
  <1> QED BY <1>2, <1>4

\* Nothing changes.
LEMMA OkSame ==
  ASSUME NEW h, NEW gs, NEW ks, Ok(h, gs, ks), NEW gs2, NEW ks2, OkTyped(h, gs2),
         \A d \in Guard!Holders : gs2[d] = gs[d] /\ ks2[d] = ks[d]
  PROVE  Ok(h, gs2, ks2)
  <1>1. PICK ptr, refs, R, rank : /\ Graph(ptr, refs, h.freed, R, rank)
                                  /\ Shows(ptr, refs, h, gs, NoGuards)
                                  /\ KeptAre(ks, R, gs)
    BY DEF Ok
  <1>2. Shows(ptr, refs, h, gs2, NoGuards)
    BY <1>1 DEF Shows
  <1>3. KeptAre(ks2, R, gs2)
    BY <1>1 DEF KeptAre
  <1> QED BY <1>1, <1>2, <1>3 DEF Ok

\* A guard that is Null keeps nothing.
LEMMA NullKeeps ==
  ASSUME NEW h, NEW gs, NEW ks, Ok(h, gs, ks), NEW b \in Guard!Holders, gs[b] = Guard!Null
  PROVE  ks[b] = {}
  <1>1. PICK ptr, refs, R, rank : Graph(ptr, refs, h.freed, R, rank) /\ KeptAre(ks, R, gs)
    BY DEF Ok
  <1>2. Keeps(R, Guard!Null) = {}
    BY <1>1, GraphSays, KeepsIs
  <1> QED BY <1>1, <1>2 DEF KeptAre

\* What share makes of a guard.
LEMMA SharedIs ==
  ASSUME NEW h, NEW k, k = Guard!NewImpl(h)
  PROVE  /\ Guard!Shared(h, Guard!Null) = [heap |-> h, guard |-> Guard!Null]
         /\ \A o : Guard!Shared(h, Guard!Raw(o))
                     = [heap |-> [h EXCEPT !.impls[k] = [refs |-> 2, next |-> Guard!Null, owns |-> Guard!Raw(o)]],
                        guard |-> Guard!Impl(k)]
         /\ \A i : Guard!Shared(h, Guard!Impl(i))
                     = [heap |-> [h EXCEPT !.impls[i].refs = @ + 1], guard |-> Guard!Impl(i)]
  <1>1. Guard!Shared(h, Guard!Null) = [heap |-> h, guard |-> Guard!Null]
    BY GuardsDiffer DEF Guard!Shared
  <1>2. ASSUME NEW o
        PROVE  Guard!Shared(h, Guard!Raw(o))
                 = [heap |-> [h EXCEPT !.impls[k] = [refs |-> 2, next |-> Guard!Null, owns |-> Guard!Raw(o)]],
                    guard |-> Guard!Impl(k)]
    <2>1. PICK g : g = Guard!Raw(o)
      OBVIOUS
    <2>2. g # Guard!Null /\ Guard!IsRaw(g) /\ ~Guard!IsImpl(g)
      BY <2>1, GuardsDiffer
    <2>3. Guard!Shared(h, g)
            = [heap |-> [h EXCEPT !.impls[k] = [refs |-> 2, next |-> Guard!Null, owns |-> g]],
               guard |-> Guard!Impl(k)]
      BY <2>2 DEF Guard!Shared
    <2> QED BY <2>1, <2>3
  <1>3. ASSUME NEW i
        PROVE  Guard!Shared(h, Guard!Impl(i))
                 = [heap |-> [h EXCEPT !.impls[i].refs = @ + 1], guard |-> Guard!Impl(i)]
    <2>1. PICK g : g = Guard!Impl(i)
      OBVIOUS
    <2>2. g # Guard!Null /\ ~Guard!IsRaw(g) /\ Guard!IsImpl(g) /\ g[2] = i
      BY <2>1, GuardsDiffer
    <2>3. Guard!Shared(h, g) = [heap |-> [h EXCEPT !.impls[i].refs = @ + 1], guard |-> g]
      BY <2>2 DEF Guard!Shared
    <2> QED BY <2>1, <2>3
  <1> QED BY <1>1, <1>2, <1>3

LEMMA SharedType ==
  ASSUME GuardAssumption, NEW h, NEW g \in AllGuards, Guard!Unused(h) # {}
  PROVE  Guard!Shared(h, g).guard \in AllGuards
  <1>1. PICK k : k = Guard!NewImpl(h)
    OBVIOUS
  <1>2. k \in ImplIds
    BY <1>1, NewImplIs
  <1>3. CASE g = Guard!Null
    <2>1. Guard!Shared(h, g) = [heap |-> h, guard |-> Guard!Null]
      BY <1>3, SharedIs
    <2> QED BY <2>1, GuardIn
  <1>4. ASSUME NEW o \in ObjectIds, g = Guard!Raw(o) PROVE Guard!Shared(h, g).guard \in AllGuards
    <2>1. Guard!Shared(h, g).guard = Guard!Impl(k)
      BY <1>1, <1>4, SharedIs
    <2> QED BY <1>2, <2>1, GuardIn
  <1>5. ASSUME NEW i \in ImplIds, g = Guard!Impl(i) PROVE Guard!Shared(h, g).guard \in AllGuards
    <2>1. Guard!Shared(h, g).guard = Guard!Impl(i)
      BY <1>1, <1>5, SharedIs
    <2> QED BY <2>1, GuardIn
  <1> QED BY <1>3, <1>4, <1>5, GuardCases

\* Two blobs share a guard.
LEMMA OkShare ==
  ASSUME GuardAssumption, NEW h, NEW gs, NEW ks, Ok(h, gs, ks), Guard!Unused(h) # {},
         NEW b \in Guard!Holders, NEW c \in Guard!Holders, b # c, gs[c] = Guard!Null,
         NEW r, r = Guard!Shared(h, gs[b]),
         NEW gs2, OkTyped(h, gs2), Changes(gs, b, r.guard, c, r.guard, gs2),
         NEW ks2, Changes(ks, b, ks[b], c, ks[b], ks2)
  PROVE  Ok(r.heap, gs2, ks2)
  <1>1. gs[b] \in AllGuards /\ h \in Heaps /\ gs \in [Guard!Holders -> AllGuards]
    BY DEF Ok, OkTyped
  <1>2. PICK k : k = Guard!NewImpl(h)
    OBVIOUS
  <1>3. k \in ImplIds /\ h.impls[k].refs = 0
    BY <1>2, NewImplIs
  <1>4. CASE gs[b] = Guard!Null
    <2>1. r.heap = h /\ r.guard = Guard!Null
      BY <1>4, SharedIs
    <2>2. ks[b] = {} /\ ks[c] = {}
      BY <1>4, NullKeeps
    <2>3. \A d \in Guard!Holders : gs2[d] = gs[d] /\ ks2[d] = ks[d]
      BY <1>4, <2>1, <2>2 DEF Changes
    <2> QED BY <2>1, <2>3, OkSame
  <1>5. ASSUME NEW o \in ObjectIds, gs[b] = Guard!Raw(o) PROVE Ok(r.heap, gs2, ks2)
    <2>1. PICK g \in AllGuards : g = gs[b]
      BY <1>1
    <2>2. r = [heap |-> [h EXCEPT !.impls[k] = [refs |-> 2, next |-> Guard!Null, owns |-> g]],
               guard |-> Guard!Impl(k)]
      <3>1. g # Guard!Null /\ Guard!IsRaw(g) /\ ~Guard!IsImpl(g) /\ r = Guard!Shared(h, g)
        BY <1>5, <2>1, GuardsDiffer
      <3> QED BY <1>2, <3>1 DEF Guard!Shared
    <2>3. PICK h2 : h2 = [h EXCEPT !.impls[k] = [refs |-> 2, next |-> Guard!Null, owns |-> g]]
      OBVIOUS
    <2>4. r.heap = h2 /\ r.guard = Guard!Impl(k)
      BY <2>2, <2>3
    <2>5. Edits(h, k, 2, Guard!Null, g, h2)
      BY <1>1, <1>3, <2>1, <2>3, GuardIn, ImplEdited
    <2>6. PICK h1 : Edits(h, k, 1, Guard!Null, g, h1)
      BY <1>1, <1>3, <2>1, GuardIn, ImplEdited
    <2>7. PICK g1 : g1 = Put(gs, b, Guard!Impl(k))
      OBVIOUS
    <2>8. Guard!Impl(k) \in AllGuards
      BY <1>3, GuardIn
    <2>9. OkTyped(h, g1) /\ Changes(gs, b, Guard!Impl(k), b, Guard!Impl(k), g1)
      BY <1>1, <2>7, <2>8 DEF OkTyped, Changes, Put
    <2>10. Ok(h1, g1, ks)
      BY <1>3, <2>1, <2>6, <2>9, OkNewImpl
    <2>11. Edits(h1, k, h1.impls[k].refs + 1, h1.impls[k].next, h1.impls[k].owns, h2)
      BY <2>5, <2>6 DEF Edits
    <2>12. g1[c] = Guard!Null /\ g1[b] = Guard!Impl(k)
      BY <2>9 DEF Changes
    <2>13. Changes(g1, c, Guard!Impl(k), c, Guard!Impl(k), gs2)
      BY <2>4, <2>9 DEF Changes
    <2>14. Changes(ks, c, ks[b], c, ks[b], ks2)
      BY DEF Changes
    <2>15. OkTyped(h1, gs2)
      BY <2>6 DEF OkTyped, Edits
    <2>16. Ok(h2, gs2, ks2)
      BY <1>3, <2>10, <2>11, <2>12, <2>13, <2>14, <2>15, OkFill
    <2> QED BY <2>4, <2>16
  <1>6. ASSUME NEW i \in ImplIds, gs[b] = Guard!Impl(i) PROVE Ok(r.heap, gs2, ks2)
    <2>1. PICK h2 : h2 = [h EXCEPT !.impls[i].refs = @ + 1]
      OBVIOUS
    <2>2. r.heap = h2 /\ r.guard = Guard!Impl(i)
      <3>1. Guard!Shared(h, Guard!Impl(i)) = [heap |-> [h EXCEPT !.impls[i].refs = @ + 1], guard |-> Guard!Impl(i)]
        BY <1>2, SharedIs
      <3>2. r = [heap |-> h2, guard |-> Guard!Impl(i)]
        BY <1>6, <2>1, <3>1
      <3> QED BY <3>2
    <2>3. h.impls[i].refs + 1 \in Nat
      BY <1>1 DEF Heaps, ImplRecords
    <2>4. Edits(h, i, h.impls[i].refs + 1, h.impls[i].next, h.impls[i].owns, h2)
      BY <1>1, <2>1, <2>3, RefsEdited
    <2>5. Changes(gs, c, Guard!Impl(i), c, Guard!Impl(i), gs2)
      BY <1>6, <2>2 DEF Changes
    <2>6. Changes(ks, c, ks[b], c, ks[b], ks2)
      BY DEF Changes
    <2>7. Ok(h2, gs2, ks2)
      BY <1>6, <2>4, <2>5, <2>6, OkFill
    <2> QED BY <2>2, <2>7
  <1> QED BY <1>1, <1>4, <1>5, <1>6, GuardCases

----------------------------------------------------------------------------
(***************************************************************************)
(* Chains.                                                                 *)
(***************************************************************************)

LEMMA ChainIs ==
  ASSUME NEW h, NEW t \in ImplIds, NEW C, C = Guard!Chain(h, Guard!Impl(t))
  PROVE  /\ t \in C /\ C \subseteq ImplIds
         /\ \A S \in SUBSET ImplIds : t \in S /\ Guard!Follows(h, S) => C \subseteq S
         /\ \A x \in C, y \in ImplIds : h.impls[x].next = Guard!Impl(y) => y \in C
  <1>1. C = {i \in ImplIds : \A S \in SUBSET ImplIds : t \in S /\ Guard!Follows(h, S) => i \in S}
    <2>1. PICK g : g = Guard!Impl(t) /\ Guard!IsImpl(g) /\ g[2] = t
      BY GuardsDiffer
    <2>2. C = {i \in 1 .. MaxImpls : Guard!IsImpl(g) /\ \A s \in SUBSET (1 .. MaxImpls) :
                    g[2] \in s /\ Guard!Follows(h, s) => i \in s}
      BY <2>1 DEF Guard!Chain
    <2> QED BY <2>1, <2>2 DEF ImplIds
  <1>2. t \in C /\ C \subseteq ImplIds /\ \A S \in SUBSET ImplIds : t \in S /\ Guard!Follows(h, S) => C \subseteq S
    BY <1>1
  <1>3. ASSUME NEW x \in C, NEW y \in ImplIds, h.impls[x].next = Guard!Impl(y) PROVE y \in C
    <2>1. ASSUME NEW S \in SUBSET ImplIds, t \in S, Guard!Follows(h, S) PROVE y \in S
      <3>1. x \in S
        BY <1>1, <2>1
      <3>2. Guard!IsImpl(h.impls[x].next) /\ h.impls[x].next[2] = y
        BY <1>3, GuardsDiffer
      <3> QED BY <2>1, <3>1, <3>2 DEF Guard!Follows
    <2> QED BY <1>1, <2>1
  <1> QED BY <1>2, <1>3

\* A set that has the impl after each of its impls.
LEMMA FollowsIs ==
  ASSUME NEW h \in Heaps, NEW S \in SUBSET ImplIds,
         \A x \in S, y \in ImplIds : h.impls[x].next = Guard!Impl(y) => y \in S
  PROVE  Guard!Follows(h, S)
  <1>1. ASSUME NEW x \in S, Guard!IsImpl(h.impls[x].next) PROVE h.impls[x].next[2] \in S
    <2>1. h.impls[x].next \in AllGuards
      BY DEF Heaps, ImplRecords
    <2>2. PICK y \in ImplIds : h.impls[x].next = Guard!Impl(y)
      BY <1>1, <2>1, GuardCases, GuardsDiffer
    <2> QED BY <2>2, GuardsDiffer
  <1> QED BY <1>1 DEF Guard!Follows

\* What each impl of a chain but the first follows.
LEMMA ChainBefore ==
  ASSUME NEW h \in Heaps, NEW t \in ImplIds, NEW C, C = Guard!Chain(h, Guard!Impl(t)), NEW x \in C, x # t
  PROVE  \E y \in C : h.impls[y].next = Guard!Impl(x)
  <1>1. SUFFICES ASSUME \A y \in C : h.impls[y].next # Guard!Impl(x) PROVE FALSE
    OBVIOUS
  <1>2. C \ {x} \in SUBSET ImplIds /\ t \in C \ {x}
    BY ChainIs
  <1>3. \A z \in C \ {x}, y \in ImplIds : h.impls[z].next = Guard!Impl(y) => y \in C \ {x}
    <2>1. ASSUME NEW z \in C \ {x}, NEW y \in ImplIds, h.impls[z].next = Guard!Impl(y) PROVE y \in C \ {x}
      <3>1. y \in C
        BY <2>1, ChainIs
      <3>2. y # x
        BY <1>1, <2>1
      <3> QED BY <3>1, <3>2
    <2> QED BY <2>1
  <1>4. Guard!Follows(h, C \ {x})
    BY <1>2, <1>3, FollowsIs
  <1>5. C \subseteq C \ {x}
    BY <1>2, <1>4, ChainIs
  <1> QED BY <1>5

\* A chain that can be appended to has one end, and nothing comes twice in it.
ChainShape(h, C, i) ==
  /\ i \in C /\ h.impls[i].next = Guard!Null
  /\ \A x \in C : x # i => \E y \in C : h.impls[x].next = Guard!Impl(y)
  /\ \A x, y \in C : x # i /\ y # i /\ h.impls[x].next = h.impls[y].next => x = y

LEMMA ChainEnds ==
  ASSUME GuardAssumption, NEW h \in Heaps, NEW t \in ImplIds, NEW C, C = Guard!Chain(h, Guard!Impl(t)),
         NEW rank \in [ImplIds -> Nat],
         \A x, y \in ImplIds : h.impls[x].next = Guard!Impl(y) => rank[y] < rank[x],
         Guard!Appendable(h, Guard!Impl(t)), NEW i \in C, h.impls[i].next = Guard!Null
  PROVE  ChainShape(h, C, i)
  <1>1. C \subseteq ImplIds /\ t \in C
    BY ChainIs
  <1>2. ASSUME NEW x \in C, h.impls[x].next # Guard!Null
        PROVE  \E y \in C : h.impls[x].next = Guard!Impl(y)
    <2>1. Guard!IsImpl(h.impls[x].next)
      BY <1>2 DEF Guard!Appendable
    <2>2. h.impls[x].next \in AllGuards
      BY <1>1 DEF Heaps, ImplRecords
    <2>3. PICK y \in ImplIds : h.impls[x].next = Guard!Impl(y)
      BY <2>1, <2>2, GuardCases, GuardsDiffer
    <2> QED BY <2>3, ChainIs
  <1> DEFINE N == {x \in C : h.impls[x].next # Guard!Null}
             f == [x \in N |-> CHOOSE y \in C : h.impls[x].next = Guard!Impl(y)]
             T == {y \in C : \E x \in N : f[x] = y}
  <1>3. ASSUME NEW x \in N PROVE f[x] \in C /\ h.impls[x].next = Guard!Impl(f[x])
    <2>1. \E y \in C : h.impls[x].next = Guard!Impl(y)
      BY <1>2
    <2>2. f[x] = CHOOSE y \in C : h.impls[x].next = Guard!Impl(y)
      OBVIOUS
    <2> HIDE DEF f, N
    <2> QED BY <2>1, <2>2
  <1>4. N \subseteq C /\ i \notin N /\ \A x \in C : x \notin N => h.impls[x].next = Guard!Null
    OBVIOUS
  <1>5. f \in [N -> T] /\ \A y \in T : \E x \in N : f[x] = y
    <2>1. \A x \in N : f[x] \in T
      BY <1>3
    <2>2. DOMAIN f = N /\ f = [x \in N |-> f[x]]
      OBVIOUS
    <2> HIDE DEF f, N
    <2> QED BY <2>1, <2>2
  <1>6. C \ {t} \subseteq T /\ T \subseteq C
    <2>1. ASSUME NEW y \in C, y # t PROVE y \in T
      <3>1. PICK x \in C : h.impls[x].next = Guard!Impl(y)
        BY <2>1, ChainBefore
      <3>2. x \in N
        BY <3>1, GuardsDiffer
      <3>3. h.impls[x].next = Guard!Impl(f[x])
        BY <1>3, <3>2
      <3>4. f[x] = y
        BY <3>1, <3>3, GuardsDiffer
      <3> HIDE DEF f, N
      <3> QED BY <3>2, <3>4
    <2> QED BY <2>1
  <1> HIDE DEF f, N, T
  <1>7. IsFiniteSet(C)
    <2>1. IsFiniteSet(ImplIds)
      <3>1. 1 \in Int /\ MaxImpls \in Int
        BY DEF GuardAssumption
      <3> QED BY <3>1, FS_Interval DEF ImplIds
    <2> QED BY <1>1, <2>1, FS_Subset
  <1>8. PICK n \in Nat : n = Cardinality(C)
    BY <1>7, FS_CardinalityType
  <1>9. IsFiniteSet(C \ {i}) /\ Cardinality(C \ {i}) = n - 1 /\ IsFiniteSet(C \ {t}) /\ Cardinality(C \ {t}) = n - 1
    BY <1>1, <1>7, <1>8, FS_RemoveElement
  <1>10. N \in SUBSET (C \ {i}) /\ IsFiniteSet(N) /\ Cardinality(N) <= n - 1 /\ Cardinality(N) \in Nat
    <2>1. N \in SUBSET (C \ {i})
      BY <1>4
    <2>2. IsFiniteSet(N) /\ Cardinality(N) <= n - 1
      BY <1>9, <2>1, FS_Subset
    <2> QED BY <2>1, <2>2, FS_CardinalityType
  <1>11. f \in Surjection(N, T)
    BY <1>5 DEF Surjection
  <1>12. IsFiniteSet(T) /\ Cardinality(T) <= Cardinality(N) /\ Cardinality(T) \in Nat
         /\ (Cardinality(T) = Cardinality(N) => f \in Injection(N, T))
    BY <1>10, <1>11, FS_Surjection, FS_CardinalityType
  <1>13. n - 1 <= Cardinality(T)
    <2>1. C \ {t} \in SUBSET T
      BY <1>6
    <2> QED BY <1>9, <1>12, <2>1, FS_Subset
  <1>14. Cardinality(N) = n - 1 /\ Cardinality(T) = Cardinality(N)
    BY <1>8, <1>10, <1>12, <1>13
  <1>15. N = C \ {i}
    BY <1>9, <1>10, <1>14, FS_Subset
  <1>16. \A x \in C : x # i => \E y \in C : h.impls[x].next = Guard!Impl(y)
    BY <1>3, <1>15
  <1>17. ASSUME NEW x \in C, NEW y \in C, x # i, y # i, h.impls[x].next = h.impls[y].next PROVE x = y
    <2>1. x \in N /\ y \in N
      BY <1>15, <1>17
    <2>2. f[x] = f[y]
      BY <1>3, <1>17, <2>1, GuardsDiffer
    <2>3. f \in Injection(N, T)
      BY <1>12, <1>14
    <2> QED BY <2>1, <2>2, <2>3 DEF Injection, IsInjective
  <1> QED BY <1>16, <1>17 DEF ChainShape

\* There is an end.
LEMMA ChainHasEnd ==
  ASSUME GuardAssumption, NEW h \in Heaps, NEW t \in ImplIds, NEW C, C = Guard!Chain(h, Guard!Impl(t)),
         NEW rank \in [ImplIds -> Nat],
         \A x, y \in ImplIds : h.impls[x].next = Guard!Impl(y) => rank[y] < rank[x],
         Guard!Appendable(h, Guard!Impl(t))
  PROVE  \E i \in C : h.impls[i].next = Guard!Null
  <1>1. C \subseteq ImplIds /\ t \in C
    BY ChainIs
  <1> DEFINE T == {rank[x] : x \in C}
  <1>2. T # {} /\ T \subseteq Nat
    BY <1>1
  <1>3. PICK m \in T : \A n \in T : m <= n
    <2> HIDE DEF T
    <2> QED BY <1>2, LeastLength
  <1>4. PICK i \in C : m = rank[i]
    BY <1>3
  <1>5. h.impls[i].next = Guard!Null
    <2>1. SUFFICES ASSUME h.impls[i].next # Guard!Null PROVE FALSE
      OBVIOUS
    <2>2. Guard!IsImpl(h.impls[i].next)
      BY <2>1 DEF Guard!Appendable
    <2>3. h.impls[i].next \in AllGuards
      BY <1>1 DEF Heaps, ImplRecords
    <2>4. PICK y \in ImplIds : h.impls[i].next = Guard!Impl(y)
      BY <2>2, <2>3, GuardCases, GuardsDiffer
    <2>5. y \in C
      BY <2>4, ChainIs
    <2>6. rank[y] < rank[i] /\ rank[y] \in Nat /\ rank[i] \in Nat
      BY <1>1, <2>4
    <2>7. m <= rank[y]
      BY <1>3, <2>5
    <2> QED BY <1>4, <2>6, <2>7
  <1> QED BY <1>5

\* The first impl keeps what the others do.
LEMMA ChainKeeps ==
  ASSUME NEW h \in Heaps, NEW t \in ImplIds, NEW C, C = Guard!Chain(h, Guard!Impl(t)),
         NEW R \in [ImplIds -> SUBSET ObjectIds],
         \A x, y \in ImplIds : h.impls[x].next = Guard!Impl(y) => R[y] \subseteq R[x],
         NEW i \in C
  PROVE  R[i] \subseteq R[t]
  <1>1. C \subseteq ImplIds /\ t \in C
    BY ChainIs
  <1>2. PICK S : S = {x \in C : R[x] \subseteq R[t]}
    OBVIOUS
  <1>3. S \in SUBSET ImplIds /\ t \in S
    BY <1>1, <1>2
  <1>4. ASSUME NEW x \in S, NEW y \in ImplIds, h.impls[x].next = Guard!Impl(y) PROVE y \in S
    <2>1. y \in C
      BY <1>2, <1>4, ChainIs
    <2>2. R[y] \subseteq R[x] /\ R[x] \subseteq R[t]
      BY <1>1, <1>2, <1>4
    <2> QED BY <1>2, <2>1, <2>2
  <1>5. Guard!Follows(h, S)
    BY <1>3, <1>4, FollowsIs
  <1>6. C \subseteq S
    BY <1>3, <1>5, ChainIs
  <1> QED BY <1>2, <1>6

\* Impls that have one guard each, one after the other from s on.
LEMMA ChainPartOf ==
  ASSUME GuardAssumption, NEW ptr, NEW refs, NEW freed, NEW R, NEW rank, Graph(ptr, refs, freed, R, rank),
         NEW u \in SUBSET ImplIds, NEW t, NEW k \in u, NEW s \in Places, ptr[s] = Guard!Impl(t),
         \A i \in u : refs[i] = 1,
         \A i \in u : i = t \/ \E j \in u : ptr[Behind(j)] = Guard!Impl(i),
         \A i \in u : i # k => \E j \in u : ptr[Behind(i)] = Guard!Impl(j)
  PROVE  ChainPart(ptr, u, k, s)
  <1>1. ASSUME NEW x \in Places, NEW i \in u, ptr[x] = Guard!Impl(i)
        PROVE  x = s \/ \E j \in u : x = Behind(j)
    <2>1. i \in ImplIds /\ Count(ptr, Guard!Impl(i)) = 1
      BY GraphSays
    <2>2. CASE i = t
      <3>1. x = s
        BY <1>1, <2>1, <2>2, CountOne
      <3> QED BY <3>1
    <2>3. ASSUME NEW j \in u, ptr[Behind(j)] = Guard!Impl(i) PROVE x = Behind(j)
      <3>1. Behind(j) \in Places
        BY PlacesIn
      <3> QED BY <1>1, <2>1, <2>3, <3>1, CountOne
    <2> QED BY <2>2, <2>3
  <1> QED BY <1>1 DEF ChainPart

\* Only s leads into the part from outside of it.
LEMMA ChainPartEntry ==
  ASSUME NEW ptr, NEW u, NEW k, NEW s, ChainPart(ptr, u, k, s), NEW x \in Outer, x # s
  PROVE  \A i \in u : ptr[x] # Guard!Impl(i)
  BY PlacesIn DEF ChainPart

----------------------------------------------------------------------------
(***************************************************************************)
(* Impl k is made for impl i, which others share, with the guard at p      *)
(* behind it, and takes the place of i behind impl j.                      *)
(***************************************************************************)

Grafts(ptr, k, i, j, p, new) ==
  /\ new[p] = Guard!Null /\ new[Owns(k)] = Guard!Impl(i) /\ new[Behind(k)] = ptr[p]
  /\ new[Behind(j)] = Guard!Impl(k)
  /\ \A x \in Places : x \notin {p, Owns(k), Behind(k), Behind(j)} => new[x] = ptr[x]

KeepingGraft(R, u, k, s, R2) ==
  /\ R2 \in [ImplIds -> SUBSET ObjectIds]
  /\ \A m \in u : R2[m] = R[m] \cup s
  /\ \A g : g # Guard!Impl(k) /\ (\A m \in u : g # Guard!Impl(m)) => Keeps(R2, g) = Keeps(R, g)

\* Only k is counted anew.
CountsNew(refs, k, refs2) == refs2[k] = 1 /\ \A m \in ImplIds : m # k => refs2[m] = refs[m]

LEMMA GraphGraft ==
  ASSUME GuardAssumption, NEW ptr, NEW refs, NEW freed, NEW R, NEW rank, Graph(ptr, refs, freed, R, rank),
         NEW k \in ImplIds, refs[k] = 0, NEW i \in ImplIds, refs[i] # 0,
         NEW u, NEW j, NEW s \in Outer, ChainPart(ptr, u, j, s), i \notin u, k \notin u,
         refs[j] # 0, ptr[Behind(j)] = Guard!Impl(i),
         NEW p \in Outer, NEW w \in Outer, p # s, w # s, w # p, ptr[w] = Guard!Null
  PROVE  \E new, refs2, R2, rank2 :
           /\ Graph(new, refs2, freed, R2, rank2)
           /\ CountsNew(refs, k, refs2)
           /\ Grafts(ptr, k, i, j, p, new)
           /\ KeepingGraft(R, u, k, R[i] \cup Keeps(R, ptr[p]), R2)
  <1>1. /\ ptr \in [Places -> AllGuards] /\ refs \in [ImplIds -> Nat]
        /\ R \in [ImplIds -> SUBSET ObjectIds]
    BY GraphSays
  <1>2. /\ u \in SUBSET ImplIds /\ j \in u /\ j \in ImplIds /\ j # k /\ i # k /\ i # j
        /\ p \in Places /\ w \in Places /\ s \in Places
    BY PlacesIn DEF ChainPart
  <1>3. ASSUME NEW m \in ImplIds
        PROVE  /\ Owns(m) \in Places /\ Behind(m) \in Places
               /\ \A x \in Outer : x # Owns(m) /\ x # Behind(m)
               /\ \A n \in ImplIds : Owns(m) # Behind(n) /\ (m # n => Owns(m) # Owns(n) /\ Behind(m) # Behind(n))
    BY PlacesIn, PlacesDiffer
  \* A guard of i waits.
  <1>4. PICK p1 : p1 = Put(ptr, w, Guard!Impl(i))
    OBVIOUS
  <1>5. PICK refs1 : refs1 = [refs EXCEPT ![i] = @ + 1]
    OBVIOUS
  <1>6. Graph(p1, refs1, freed, R, rank)
    BY <1>4, <1>5, GraphFill
  <1>7. p1[w] = Guard!Impl(i) /\ \A x \in Places : x # w => p1[x] = ptr[x]
    BY <1>1, <1>2, <1>4 DEF Put
  <1>8. refs1[i] = refs[i] + 1 /\ refs1 \in [ImplIds -> Nat] /\ \A m \in ImplIds : m # i => refs1[m] = refs[m]
    BY <1>1, <1>5
  \* It gets the impl.
  <1>9. refs1[k] = 0
    BY <1>2, <1>8
  <1>10. PICK p2, R2, rank2 : /\ Graph(p2, [refs1 EXCEPT ![k] = 1], freed, R2, rank2)
                              /\ NewAt(p1, k, w, p, p2)
                              /\ Keeping(R, k, Keeps(R, p1[w]) \cup Keeps(R, p1[p]), R2)
    BY <1>6, <1>9, GraphNew
  <1>11. PICK refs2 : refs2 = [refs1 EXCEPT ![k] = 1]
    OBVIOUS
  <1>12. /\ refs2[k] = 1 /\ refs2[i] = refs[i] + 1 /\ refs2 \in [ImplIds -> Nat]
         /\ \A m \in ImplIds : m # i /\ m # k => refs2[m] = refs[m]
    BY <1>2, <1>8, <1>11
  <1>13. Graph(p2, refs2, freed, R2, rank2)
    BY <1>10, <1>11
  <1>14. /\ p2[w] = Guard!Impl(k) /\ p2[p] = Guard!Null /\ p2[Owns(k)] = Guard!Impl(i) /\ p2[Behind(k)] = ptr[p]
         /\ \A x \in Places : x \notin {w, p, Owns(k), Behind(k)} => p2[x] = ptr[x]
    <2>1. p2[w] = Guard!Impl(k) /\ p2[p] = Guard!Null /\ p2[Owns(k)] = p1[w] /\ p2[Behind(k)] = p1[p]
          /\ \A x \in Places : x \notin {w, p, Owns(k), Behind(k)} => p2[x] = p1[x]
      BY <1>10 DEF NewAt
    <2>2. p1[p] = ptr[p]
      BY <1>2, <1>7
    <2> QED BY <1>7, <2>1, <2>2
  <1>15. R2[k] = R[i] \cup Keeps(R, ptr[p]) /\ R2 \in [ImplIds -> SUBSET ObjectIds]
         /\ (\A m \in ImplIds : m # k => R2[m] = R[m])
         /\ (\A g : g # Guard!Impl(k) => Keeps(R2, g) = Keeps(R, g))
    <2>1. p1[p] = ptr[p] /\ p1[w] = Guard!Impl(i)
      BY <1>2, <1>7
    <2>2. Keeps(R, Guard!Impl(i)) = R[i]
      BY <1>1, KeepsIs
    <2>3. Keeping(R, k, R[i] \cup Keeps(R, ptr[p]), R2)
      BY <1>10, <2>1, <2>2
    <2> QED BY <2>3 DEF Keeping
  \* It changes places with the one behind j.
  <1>16. p2[Behind(j)] = Guard!Impl(i)
    <2>1. Behind(j) \in Places /\ Behind(j) \notin {w, p, Owns(k), Behind(k)}
      BY <1>2, <1>3
    <2> QED BY <1>14, <2>1
  <1>17. ChainPart(p2, u, j, s)
    <2>1. ASSUME NEW x \in Places, NEW m \in u, p2[x] = Guard!Impl(m)
          PROVE  x = s \/ \E n \in u : x = Behind(n)
      <3>1. x # w /\ x # p /\ x # Owns(k)
        BY <1>2, <1>14, <2>1, GuardsDiffer
      <3>2. x # Behind(k)
        <4>1. ptr[p] # Guard!Impl(m)
          BY ChainPartEntry
        <4> QED BY <1>14, <2>1, <4>1
      <3>3. ptr[x] = Guard!Impl(m)
        BY <1>14, <2>1, <3>1, <3>2
      <3> QED BY <3>3 DEF ChainPart
    <2>2. ASSUME NEW m \in u, m # j PROVE \E n \in u : p2[Behind(m)] = Guard!Impl(n)
      <3>1. Behind(m) \in Places /\ Behind(m) \notin {w, p, Owns(k), Behind(k)}
        BY <1>2, <1>3
      <3>2. p2[Behind(m)] = ptr[Behind(m)]
        BY <1>14, <3>1
      <3> QED BY <2>2, <3>2 DEF ChainPart
    <2> QED BY <1>2, <2>1, <2>2 DEF ChainPart
  <1>18. Keeps(R2, p2[Behind(j)]) \subseteq Keeps(R2, p2[w])
    <2>1. Keeps(R2, Guard!Impl(i)) = R2[i] /\ Keeps(R2, Guard!Impl(k)) = R2[k]
      BY <1>15, KeepsIs
    <2>2. R2[i] = R[i]
      BY <1>2, <1>15
    <2> QED BY <1>14, <1>15, <1>16, <2>1, <2>2
  <1>19. refs2[j] # 0
    BY <1>2, <1>12
  <1>20. PICK p3, R3, rank3 : /\ Graph(p3, refs2, freed, R3, rank3)
                              /\ Swaps(p2, w, Behind(j), p3)
                              /\ KeepingMore(R2, u, Keeps(R2, p2[w]), R3)
    BY <1>13, <1>17, <1>18, <1>19, GraphSwap
  <1>21. /\ p3 \in [Places -> AllGuards] /\ p3[w] = Guard!Impl(i) /\ p3[Behind(j)] = Guard!Impl(k)
         /\ \A x \in Places : x # w /\ x # Behind(j) => p3[x] = p2[x]
    BY <1>14, <1>16, <1>20 DEF Swaps
  \* The other is dropped.
  <1>22. PICK new : new = Put(p3, w, Guard!Null)
    OBVIOUS
  <1>23. PICK refs3 : refs3 = [refs2 EXCEPT ![i] = @ - 1]
    OBVIOUS
  <1>24. refs2[i] > 1
    BY <1>1, <1>12
  <1>25. Graph(new, refs3, freed, R3, rank3)
    BY <1>20, <1>21, <1>22, <1>23, <1>24, GraphDrop
  <1>26. CountsNew(refs, k, refs3)
    BY <1>1, <1>2, <1>12, <1>23 DEF CountsNew
  <1>27. new[w] = Guard!Null /\ \A x \in Places : x # w => new[x] = p3[x]
    BY <1>2, <1>21, <1>22 DEF Put
  <1>28. Grafts(ptr, k, i, j, p, new)
    <2>1. /\ Owns(k) \in Places /\ Behind(k) \in Places /\ Behind(j) \in Places
          /\ {p, Owns(k), Behind(k)} \cap {w, Behind(j)} = {} /\ Behind(j) # w
      BY <1>2, <1>3
    <2>2. new[p] = p2[p] /\ new[Owns(k)] = p2[Owns(k)] /\ new[Behind(k)] = p2[Behind(k)]
      BY <1>2, <1>21, <1>27, <2>1
    <2>3. new[Behind(j)] = Guard!Impl(k)
      BY <1>21, <1>27, <2>1
    <2>4. ASSUME NEW x \in Places, x \notin {p, Owns(k), Behind(k), Behind(j)} PROVE new[x] = ptr[x]
      <3>1. CASE x = w
        BY <1>27, <3>1
      <3>2. CASE x # w
        BY <1>14, <1>21, <1>27, <2>4, <3>2
      <3> QED BY <3>1, <3>2
    <2> QED BY <1>14, <2>2, <2>3, <2>4 DEF Grafts
  <1>29. KeepingGraft(R, u, k, R[i] \cup Keeps(R, ptr[p]), R3)
    <2>1. Keeps(R2, p2[w]) = R[i] \cup Keeps(R, ptr[p])
      BY <1>14, <1>15, KeepsIs
    <2>2. ASSUME NEW m \in u PROVE R3[m] = R[m] \cup (R[i] \cup Keeps(R, ptr[p]))
      <3>1. R3[m] = R2[m] \cup Keeps(R2, p2[w])
        BY <1>20 DEF KeepingMore
      <3>2. R2[m] = R[m]
        BY <1>2, <1>15
      <3> QED BY <2>1, <3>1, <3>2
    <2>3. ASSUME NEW g, g # Guard!Impl(k), \A m \in u : g # Guard!Impl(m) PROVE Keeps(R3, g) = Keeps(R, g)
      <3>1. Keeps(R3, g) = Keeps(R2, g)
        BY <1>20, <2>3 DEF KeepingMore
      <3> QED BY <1>15, <2>3, <3>1
    <2>4. R3 \in [ImplIds -> SUBSET ObjectIds]
      BY <1>20 DEF KeepingMore
    <2> QED BY <2>2, <2>3, <2>4 DEF KeepingGraft
  <1> QED BY <1>25, <1>26, <1>28, <1>29

----------------------------------------------------------------------------
(***************************************************************************)
(* A guard is appended to a chain.                                         *)
(***************************************************************************)

\* What the chain that the guard of b starts is like: C is its impls and i the
\* last one.
ChainAt(h, t, C, i) ==
  /\ t \in ImplIds /\ C = Guard!Chain(h, Guard!Impl(t))
  /\ Guard!Appendable(h, Guard!Impl(t))
  /\ ChainShape(h, C, i)

LEMMA ChainAtSays ==
  ASSUME NEW h \in Heaps, NEW t, NEW C, NEW i, ChainAt(h, t, C, i)
  PROVE  /\ C \subseteq ImplIds /\ t \in C /\ i \in C /\ h.impls[i].next = Guard!Null
         /\ \A x \in C : x # i => h.impls[x].refs = 1
         /\ \A x \in C : x # t => \E y \in C : y # i /\ h.impls[y].next = Guard!Impl(x)
         /\ \A x \in C : x # i => \E y \in C : h.impls[x].next = Guard!Impl(y)
         /\ \A x, y \in C : x # i /\ y # i /\ h.impls[x].next = h.impls[y].next => x = y
  <1>1. t \in ImplIds /\ C = Guard!Chain(h, Guard!Impl(t)) /\ ChainShape(h, C, i)
    BY DEF ChainAt
  <1>2. C \subseteq ImplIds /\ t \in C
    BY <1>1, ChainIs
  <1>3. ASSUME NEW x \in C, x # i PROVE h.impls[x].refs = 1
    <2>1. h.impls[x].next # Guard!Null
      BY <1>1, <1>3, GuardsDiffer DEF ChainShape
    <2>2. x \in Guard!Chain(h, Guard!Impl(t)) /\ Guard!Appendable(h, Guard!Impl(t))
      BY <1>1 DEF ChainAt
    <2> QED BY <2>1, <2>2 DEF Guard!Appendable
  <1>4. ASSUME NEW x \in C, x # t PROVE \E y \in C : y # i /\ h.impls[y].next = Guard!Impl(x)
    <2>1. PICK y \in C : h.impls[y].next = Guard!Impl(x)
      BY <1>1, <1>4, ChainBefore
    <2>2. y # i
      BY <1>1, <2>1, GuardsDiffer DEF ChainShape
    <2> QED BY <2>1, <2>2
  <1> QED BY <1>1, <1>2, <1>3, <1>4 DEF ChainShape

\* The last impl of the chain is shared with nobody.
LEMMA OkAppendLast ==
  ASSUME GuardAssumption, NEW h, NEW gs, NEW ks, Ok(h, gs, ks),
         NEW b \in Guard!Holders, NEW c \in Guard!Holders, b # c,
         NEW t, NEW C, NEW i, ChainAt(h, t, C, i), gs[b] = Guard!Impl(t), h.impls[i].refs = 1,
         NEW h2, Edits(h, i, h.impls[i].refs, gs[c], h.impls[i].owns, h2),
         NEW gs2, OkTyped(h, gs2), Changes(gs, b, gs[b], c, Guard!Null, gs2),
         NEW ks2, Changes(ks, b, ks[b] \cup ks[c], c, {}, ks2)
  PROVE  Ok(h2, gs2, ks2)
  <1>1. PICK ptr, refs, R, rank : /\ Graph(ptr, refs, h.freed, R, rank)
                                  /\ Shows(ptr, refs, h, gs, NoGuards)
                                  /\ KeptAre(ks, R, gs)
    BY DEF Ok
  <1>2. /\ Waiting(1) \in Outer /\ Waiting(1) \in Places /\ ptr[Waiting(1)] = Guard!Null
        /\ InBlob(b) \in Outer /\ InBlob(b) \in Places /\ InBlob(b) # Waiting(1) /\ ptr[InBlob(b)] = gs[b]
        /\ InBlob(c) \in Outer /\ InBlob(c) \in Places /\ InBlob(c) # Waiting(1) /\ ptr[InBlob(c)] = gs[c]
        /\ InBlob(b) # InBlob(c) /\ Inside(ptr, refs, h)
    BY <1>1, NothingWaits, PlacesDiffer
  <1>3. h \in Heaps
    BY DEF Ok, OkTyped
  <1>4. /\ C \in SUBSET ImplIds /\ t \in C /\ i \in C /\ i \in ImplIds /\ h.impls[i].next = Guard!Null
        /\ \A x \in C : h.impls[x].refs = 1
        /\ \A x \in C : x # t => \E y \in C : h.impls[y].next = Guard!Impl(x)
        /\ \A x \in C : x # i => \E y \in C : h.impls[x].next = Guard!Impl(y)
    BY <1>3, ChainAtSays
  <1>5. ASSUME NEW x \in C PROVE ptr[Behind(x)] = h.impls[x].next /\ refs[x] = 1
    BY <1>2, <1>4 DEF Inside
  <1>6. ChainPart(ptr, C, i, InBlob(b))
    <2>1. \A x \in C : x = t \/ \E y \in C : ptr[Behind(y)] = Guard!Impl(x)
      BY <1>4, <1>5
    <2>2. \A x \in C : x # i => \E y \in C : ptr[Behind(x)] = Guard!Impl(y)
      BY <1>4, <1>5
    <2>3. \A x \in C : refs[x] = 1
      BY <1>5
    <2>4. ptr[InBlob(b)] = Guard!Impl(t)
      BY <1>2
    <2> QED BY <1>1, <1>2, <1>4, <2>1, <2>2, <2>3, <2>4, ChainPartOf
  <1>7. /\ ptr \in [Places -> AllGuards] /\ refs \in [ImplIds -> Nat] /\ R \in [ImplIds -> SUBSET ObjectIds]
    BY <1>1, GraphSays
  <1>8. ptr[Behind(i)] = Guard!Null /\ refs[i] # 0
    BY <1>4, <1>5
  <1>9. Keeps(R, ptr[Behind(i)]) \subseteq Keeps(R, ptr[InBlob(c)])
    BY <1>7, <1>8, KeepsIs
  <1>10. PICK new, R2, rank2 : /\ Graph(new, refs, h.freed, R2, rank2)
                               /\ Swaps(ptr, InBlob(c), Behind(i), new)
                               /\ KeepingMore(R, C, Keeps(R, ptr[InBlob(c)]), R2)
    BY <1>1, <1>2, <1>6, <1>8, <1>9, GraphSwap
  <1>11. /\ new[InBlob(c)] = Guard!Null /\ new[Behind(i)] = gs[c]
         /\ \A x \in Places : x # InBlob(c) /\ x # Behind(i) => new[x] = ptr[x]
    BY <1>2, <1>8, <1>10 DEF Swaps
  <1>12. new[Waiting(1)] = Guard!Null /\ new[InBlob(b)] = gs[b]
    BY <1>2, <1>11, PlacesDiffer
  <1>13. Touches(ptr, b, c, new)
    BY <1>11, PlacesIn DEF Touches
  <1>14. Inside(new, refs, h2)
    <2>1. ASSUME NEW m \in ImplIds
          PROVE  new[Owns(m)] = h2.impls[m].owns /\ new[Behind(m)] = h2.impls[m].next /\ refs[m] = h2.impls[m].refs
      <3>1. /\ Owns(m) \in Places /\ Owns(m) # InBlob(c) /\ Owns(m) # Behind(i)
            /\ Behind(m) \in Places /\ Behind(m) # InBlob(c) /\ (m # i => Behind(m) # Behind(i))
        BY PlacesIn, PlacesDiffer
      <3>2. ptr[Owns(m)] = h.impls[m].owns /\ ptr[Behind(m)] = h.impls[m].next /\ refs[m] = h.impls[m].refs
        BY <1>2 DEF Inside
      <3>3. new[Owns(m)] = ptr[Owns(m)]
        BY <1>11, <3>1
      <3>4. CASE m = i
        BY <1>11, <3>2, <3>3, <3>4 DEF Edits
      <3>5. CASE m # i
        <4>1. new[Behind(m)] = ptr[Behind(m)]
          BY <1>11, <3>1, <3>5
        <4> QED BY <3>2, <3>3, <3>5, <4>1 DEF Edits
      <3> QED BY <3>4, <3>5
    <2> QED BY <2>1 DEF Inside
  <1>15. Changes(gs, b, new[InBlob(b)], c, new[InBlob(c)], gs2)
    BY <1>11, <1>12
  <1>16. Shows(new, refs, h2, gs2, NoGuards)
    BY <1>1, <1>12, <1>13, <1>14, <1>15, ShowsTouched
  <1>17. KeptAre(ks2, R2, gs2)
    <2>1. Keeps(R2, gs[b]) = ks[b] \cup ks[c] /\ Keeps(R2, Guard!Null) = {}
      <3>1. R2 \in [ImplIds -> SUBSET ObjectIds] /\ R2[t] = R[t] \cup Keeps(R, gs[c])
        BY <1>2, <1>4, <1>10 DEF KeepingMore
      <3>2. Keeps(R2, Guard!Impl(t)) = R2[t] /\ Keeps(R, Guard!Impl(t)) = R[t] /\ Keeps(R2, Guard!Null) = {}
        BY <1>4, <1>7, <3>1, KeepsIs
      <3>3. ks[b] = Keeps(R, gs[b]) /\ ks[c] = Keeps(R, gs[c])
        BY <1>1 DEF KeptAre
      <3> QED BY <3>1, <3>2, <3>3
    <2>2. Changes(ks, b, Keeps(R2, gs[b]), c, Keeps(R2, Guard!Null), ks2)
      BY <2>1
    <2>3. ASSUME NEW d \in Guard!Holders, d # b, d # c PROVE Keeps(R2, gs[d]) = Keeps(R, gs[d])
      <3>1. InBlob(d) \in Outer /\ ptr[InBlob(d)] = gs[d] /\ InBlob(d) # InBlob(b)
        BY <1>1, <2>3, NothingWaits, PlacesDiffer
      <3>2. \A x \in C : gs[d] # Guard!Impl(x)
        BY <1>6, <3>1, ChainPartEntry
      <3> QED BY <1>10, <3>2 DEF KeepingMore
    <2> QED BY <1>1, <2>2, <2>3, KeptChanged
  <1>18. h2.freed = h.freed /\ h2 \in Heaps
    BY DEF Edits
  <1> QED BY <1>10, <1>16, <1>17, <1>18 DEF Ok, OkTyped

\* Others share it, and it is not the first: it gets an impl of its own behind j.
Relinks(h, k, i, j, g, h2) ==
  /\ h2 \in Heaps /\ h2.freed = h.freed
  /\ h2.impls[k].refs = 1 /\ h2.impls[k].next = g /\ h2.impls[k].owns = Guard!Impl(i)
  /\ h2.impls[j].refs = h.impls[j].refs /\ h2.impls[j].next = Guard!Impl(k)
  /\ h2.impls[j].owns = h.impls[j].owns
  /\ \A m \in ImplIds : m # k /\ m # j => h2.impls[m] = h.impls[m]

LEMMA OkAppendShared ==
  ASSUME GuardAssumption, NEW h, NEW gs, NEW ks, Ok(h, gs, ks),
         NEW b \in Guard!Holders, NEW c \in Guard!Holders, b # c,
         NEW t, NEW C, NEW i, ChainAt(h, t, C, i), gs[b] = Guard!Impl(t), i # t,
         NEW j \in C, h.impls[j].next = Guard!Impl(i),
         NEW k \in ImplIds, h.impls[k].refs = 0,
         NEW h2, Relinks(h, k, i, j, gs[c], h2),
         NEW gs2, OkTyped(h, gs2), Changes(gs, b, gs[b], c, Guard!Null, gs2),
         NEW ks2, Changes(ks, b, ks[b] \cup ks[c], c, {}, ks2)
  PROVE  Ok(h2, gs2, ks2)
  <1>1. PICK ptr, refs, R, rank : /\ Graph(ptr, refs, h.freed, R, rank)
                                  /\ Shows(ptr, refs, h, gs, NoGuards)
                                  /\ KeptAre(ks, R, gs)
    BY DEF Ok
  <1>2. /\ Waiting(1) \in Outer /\ Waiting(1) \in Places /\ ptr[Waiting(1)] = Guard!Null
        /\ InBlob(b) \in Outer /\ InBlob(b) \in Places /\ InBlob(b) # Waiting(1) /\ ptr[InBlob(b)] = gs[b]
        /\ InBlob(c) \in Outer /\ InBlob(c) \in Places /\ InBlob(c) # Waiting(1) /\ ptr[InBlob(c)] = gs[c]
        /\ InBlob(b) # InBlob(c) /\ Inside(ptr, refs, h)
    BY <1>1, NothingWaits, PlacesDiffer
  <1>3. h \in Heaps
    BY DEF Ok, OkTyped
  <1>4. /\ C \subseteq ImplIds /\ t \in C /\ i \in C /\ i \in ImplIds /\ h.impls[i].next = Guard!Null
        /\ \A x \in C : x # i => h.impls[x].refs = 1
        /\ \A x \in C : x # t => \E y \in C : y # i /\ h.impls[y].next = Guard!Impl(x)
        /\ \A x \in C : x # i => \E y \in C : h.impls[x].next = Guard!Impl(y)
        /\ \A x, y \in C : x # i /\ y # i /\ h.impls[x].next = h.impls[y].next => x = y
    BY <1>3, ChainAtSays
  <1>5. ASSUME NEW x \in ImplIds
        PROVE  ptr[Behind(x)] = h.impls[x].next /\ ptr[Owns(x)] = h.impls[x].owns /\ refs[x] = h.impls[x].refs
    BY <1>2 DEF Inside
  <1>6. /\ ptr \in [Places -> AllGuards] /\ refs \in [ImplIds -> Nat] /\ R \in [ImplIds -> SUBSET ObjectIds]
    BY <1>1, GraphSays
  <1>7. j # i /\ j \in ImplIds
    BY <1>4, GuardsDiffer
  <1>8. PICK u : u = C \ {i}
    OBVIOUS
  <1>9. u \in SUBSET ImplIds /\ j \in u /\ t \in u /\ i \notin u
    BY <1>4, <1>7, <1>8
  <1>10. ASSUME NEW x \in u PROVE refs[x] = 1
    BY <1>4, <1>5, <1>8
  <1>11. ChainPart(ptr, u, j, InBlob(b))
    <2>1. \A x \in u : x = t \/ \E y \in u : ptr[Behind(y)] = Guard!Impl(x)
      BY <1>4, <1>5, <1>8
    <2>2. ASSUME NEW x \in u, x # j PROVE \E y \in u : ptr[Behind(x)] = Guard!Impl(y)
      <3>1. PICK y \in C : h.impls[x].next = Guard!Impl(y)
        BY <1>4, <1>8
      <3>2. y # i
        BY <1>4, <1>7, <1>8, <2>2, <3>1
      <3>3. y \in u /\ ptr[Behind(x)] = Guard!Impl(y)
        BY <1>5, <1>8, <1>9, <3>1, <3>2
      <3> QED BY <3>3
    <2>3. \A x \in u : refs[x] = 1
      BY <1>10
    <2>4. ptr[InBlob(b)] = Guard!Impl(t)
      BY <1>2
    <2> QED BY <1>1, <1>2, <1>9, <2>1, <2>2, <2>3, <2>4, ChainPartOf
  <1>12. refs[k] = 0 /\ k \notin u /\ refs[j] # 0
    BY <1>5, <1>9, <1>10
  <1>13. ptr[Behind(j)] = Guard!Impl(i)
    BY <1>5, <1>7
  <1>14. refs[i] # 0
    <2>1. Behind(j) \in Places
      BY <1>7, PlacesIn
    <2> QED BY <1>1, <1>4, <1>13, <2>1, UnusedImpl
  <1>15. PICK new, refs2, R2, rank2 :
           /\ Graph(new, refs2, h.freed, R2, rank2)
           /\ CountsNew(refs, k, refs2)
           /\ Grafts(ptr, k, i, j, InBlob(c), new)
           /\ KeepingGraft(R, u, k, R[i] \cup Keeps(R, ptr[InBlob(c)]), R2)
    <2>1. /\ InBlob(b) \in Outer /\ InBlob(c) \in Outer /\ Waiting(1) \in Outer
          /\ InBlob(c) # InBlob(b) /\ Waiting(1) # InBlob(b) /\ Waiting(1) # InBlob(c)
          /\ ptr[Waiting(1)] = Guard!Null
      BY <1>2
    <2>2. i \in ImplIds /\ i \notin u /\ k \notin u /\ refs[k] = 0 /\ refs[i] # 0 /\ refs[j] # 0
      BY <1>4, <1>9, <1>12, <1>14
    <2>3. Graph(ptr, refs, h.freed, R, rank)
      BY <1>1
    <2> QED BY <1>11, <1>13, <2>1, <2>2, <2>3, GraphGraft, ZenonT(40)
  <1>16. /\ new[InBlob(c)] = Guard!Null /\ new[Owns(k)] = Guard!Impl(i) /\ new[Behind(k)] = gs[c]
         /\ new[Behind(j)] = Guard!Impl(k)
         /\ \A x \in Places : x \notin {InBlob(c), Owns(k), Behind(k), Behind(j)} => new[x] = ptr[x]
    BY <1>2, <1>15 DEF Grafts
  <1>17. new[Waiting(1)] = Guard!Null /\ new[InBlob(b)] = gs[b]
    BY <1>2, <1>16, PlacesDiffer
  <1>18. Touches(ptr, b, c, new)
    BY <1>16, PlacesIn DEF Touches
  <1>19. Inside(new, refs2, h2)
    <2>1. ASSUME NEW m \in ImplIds
          PROVE  new[Owns(m)] = h2.impls[m].owns /\ new[Behind(m)] = h2.impls[m].next /\ refs2[m] = h2.impls[m].refs
      <3>1. j # k
        BY <1>9, <1>12
      <3>2. CASE m = k
        BY <1>15, <1>16, <3>2 DEF Relinks, CountsNew
      <3>3. CASE m # k
        <4>1. /\ Owns(m) \in Places /\ Owns(m) \notin {InBlob(c), Owns(k), Behind(k), Behind(j)}
              /\ Behind(m) \in Places /\ (m # j => Behind(m) \notin {InBlob(c), Owns(k), Behind(k), Behind(j)})
          BY <3>3, PlacesIn, PlacesDiffer
        <4>2. new[Owns(m)] = h.impls[m].owns /\ refs2[m] = h.impls[m].refs
          BY <1>5, <1>15, <1>16, <3>3, <4>1 DEF CountsNew
        <4>3. CASE m = j
          BY <1>16, <4>2, <4>3 DEF Relinks
        <4>4. CASE m # j
          <5>1. new[Behind(m)] = h.impls[m].next
            BY <1>5, <1>16, <4>1, <4>4
          <5> QED BY <3>3, <4>2, <4>4, <5>1 DEF Relinks
        <4> QED BY <4>3, <4>4
      <3> QED BY <3>2, <3>3
    <2> QED BY <2>1 DEF Inside
  <1>20. Changes(gs, b, new[InBlob(b)], c, new[InBlob(c)], gs2)
    BY <1>16, <1>17
  <1>21. Shows(new, refs2, h2, gs2, NoGuards)
    BY <1>1, <1>17, <1>18, <1>19, <1>20, ShowsTouched
  <1>22. KeptAre(ks2, R2, gs2)
    <2>1. Keeps(R2, gs[b]) = ks[b] \cup ks[c] /\ Keeps(R2, Guard!Null) = {}
      <3>1. R2 \in [ImplIds -> SUBSET ObjectIds] /\ R2[t] = R[t] \cup (R[i] \cup Keeps(R, gs[c]))
        BY <1>2, <1>9, <1>15 DEF KeepingGraft
      <3>2. Keeps(R2, Guard!Impl(t)) = R2[t] /\ Keeps(R, Guard!Impl(t)) = R[t] /\ Keeps(R2, Guard!Null) = {}
        BY <1>4, <1>6, <3>1, KeepsIs
      <3>3. ks[b] = Keeps(R, gs[b]) /\ ks[c] = Keeps(R, gs[c])
        BY <1>1 DEF KeptAre
      <3>4. ASSUME NEW x \in ImplIds, NEW y \in ImplIds, h.impls[x].next = Guard!Impl(y) PROVE R[y] \subseteq R[x]
        <4>1. R[x] = Keeps(R, ptr[Owns(x)]) \cup Keeps(R, ptr[Behind(x)])
          BY <1>1 DEF Graph, Reaches
        <4>2. ptr[Behind(x)] = Guard!Impl(y)
          BY <1>5, <3>4
        <4>3. Keeps(R, Guard!Impl(y)) = R[y]
          BY <1>6, KeepsIs
        <4> QED BY <4>1, <4>2, <4>3
      <3>5. R[i] \subseteq R[t]
        BY <1>3, <1>4, <1>6, <3>4, ChainKeeps DEF ChainAt
      <3> QED BY <3>1, <3>2, <3>3, <3>5
    <2>2. Changes(ks, b, Keeps(R2, gs[b]), c, Keeps(R2, Guard!Null), ks2)
      BY <2>1
    <2>3. ASSUME NEW d \in Guard!Holders, d # b, d # c PROVE Keeps(R2, gs[d]) = Keeps(R, gs[d])
      <3>1. InBlob(d) \in Outer /\ InBlob(d) \in Places /\ ptr[InBlob(d)] = gs[d] /\ InBlob(d) # InBlob(b)
        BY <1>1, <2>3, NothingWaits, PlacesDiffer
      <3>2. \A x \in u : gs[d] # Guard!Impl(x)
        BY <1>11, <3>1, ChainPartEntry
      <3>3. gs[d] # Guard!Impl(k)
        BY <1>1, <1>12, <3>1, UnusedImpl
      <3> QED BY <1>15, <3>2, <3>3 DEF KeepingGraft
    <2> QED BY <1>1, <2>2, <2>3, KeptChanged
  <1>23. h2.freed = h.freed /\ h2 \in Heaps
    BY DEF Relinks
  <1> QED BY <1>15, <1>21, <1>22, <1>23 DEF Ok, OkTyped

----------------------------------------------------------------------------
(***************************************************************************)
(* The loop of append.                                                     *)
(***************************************************************************)

\* The state of the loop.
LoopAt(h, to, p) == [heap |-> h, guard |-> to, at |-> p]

Loops(f, w) ==
  f = [n \in 0 .. MaxImpls + 1 |-> IF n = 0 THEN w ELSE Guard!WalkOne(f[n - 1])]

LEMMA WalkedLoops ==
  ASSUME NEW h, NEW to
  PROVE  \E f : f = (CHOOSE x : Loops(x, LoopAt(h, to, 0))) /\ Guard!Walked(h, to) = f[MaxImpls + 1]
  BY DEF Guard!Walked, Loops, LoopAt

\* A set of states that the loop does not leave.
Closed(S) == \A s \in S : Guard!WalkOne(s) \in S

LEMMA LoopsExists ==
  ASSUME GuardAssumption, NEW S, Closed(S), NEW w \in S
  PROVE  \E f : Loops(f, w)
  <1>1. PICK N \in Nat : N = MaxImpls + 1
    BY DEF GuardAssumption
  <1> DEFINE step == [p \in (1 .. N) \X S |-> Guard!WalkOne(p[2])]
  <1>2. step \in [(1 .. N) \X S -> S]
    BY DEF Closed
  <1>3. \A i \in 1 .. N, s \in S : step[<<i, s>>] = Guard!WalkOne(s)
    OBVIOUS
  <1> HIDE DEF step
  <1>4. PICK f \in [0 .. N -> S] : Recurs(f, w, step, N)
    BY <1>2, RecursionDefined
  <1>5. ASSUME NEW i \in 0 .. N PROVE f[i] = IF i = 0 THEN w ELSE Guard!WalkOne(f[i - 1])
    <2>1. CASE i = 0
      BY <1>4, <2>1 DEF Recurs
    <2>2. CASE i # 0
      <3>1. i \in 1 .. N /\ i - 1 \in 0 .. N
        BY <2>2
      <3>2. f[i] = step[<<i, f[i - 1]>>]
        BY <1>4, <3>1 DEF Recurs
      <3>3. f[i - 1] \in S
        BY <1>4, <3>1
      <3> QED BY <1>3, <2>2, <3>1, <3>2, <3>3
    <2> QED BY <2>1, <2>2
  <1>6. f = [i \in 0 .. N |-> IF i = 0 THEN w ELSE Guard!WalkOne(f[i - 1])]
    BY <1>4, <1>5
  <1> QED BY <1>1, <1>6 DEF Loops

LEMMA LoopsGo ==
  ASSUME NEW N \in Nat, N = MaxImpls + 1, NEW f, NEW w, Loops(f, w)
  PROVE  f[0] = w /\ \A n \in 1 .. N : f[n] = Guard!WalkOne(f[n - 1])
  <1> DEFINE d == 0 .. N
             v(i) == IF i = 0 THEN w ELSE Guard!WalkOne(f[i - 1])
  <1>1. f = [i \in d |-> v(i)]
    BY DEF Loops
  <1>2. \A i \in d : f[i] = v(i)
    <2> HIDE DEF d, v
    <2> QED BY <1>1
  <1>3. 0 \in d /\ \A i \in 1 .. N : i \in d /\ i # 0
    OBVIOUS
  <1> QED BY <1>2, <1>3

\* Each round comes closer to the end e, which the loop does not leave.
Nears(S, e, left) ==
  /\ left \in [S -> Nat] /\ Guard!WalkOne(e) = e
  /\ \A s \in S : Guard!WalkOne(s) = e \/ (Guard!WalkOne(s) \in S /\ left[Guard!WalkOne(s)] < left[s])

LEMMA WalkEnds ==
  ASSUME GuardAssumption, NEW h, NEW to, NEW S, NEW e, NEW left, Nears(S, e, left),
         LoopAt(h, to, 0) \in S, left[LoopAt(h, to, 0)] <= MaxImpls
  PROVE  Guard!Walked(h, to) = e
  <1>1. PICK N \in Nat : N = MaxImpls + 1 /\ MaxImpls \in Nat
    BY DEF GuardAssumption
  <1>2. PICK w : w = LoopAt(h, to, 0)
    OBVIOUS
  <1>3. PICK f : f = (CHOOSE x : Loops(x, w)) /\ Guard!Walked(h, to) = f[N]
    BY <1>1, <1>2, WalkedLoops
  <1>4. Loops(f, w)
    <2>1. Closed(S \cup {e})
      BY DEF Closed, Nears
    <2>2. \E x : Loops(x, w)
      BY <1>2, <2>1, LoopsExists
    <2> QED BY <1>3, <2>2
  <1>5. f[0] = w /\ \A n \in 1 .. N : f[n] = Guard!WalkOne(f[n - 1])
    BY <1>1, <1>4, LoopsGo
  <1> DEFINE Good(n) == f[n] = e \/ (f[n] \in S /\ left[f[n]] + n <= MaxImpls)
             T == {n \in 0 .. N : ~Good(n)}
  <1>6. T = {}
    <2>1. SUFFICES ASSUME T # {} PROVE FALSE
      OBVIOUS
    <2>2. T \subseteq Nat
      OBVIOUS
    <2>3. PICK m \in T : \A n \in T : m <= n
      <3> HIDE DEF T
      <3> QED BY <2>1, <2>2, LeastLength
    <2>4. m \in 0 .. N /\ ~Good(m)
      OBVIOUS
    <2>5. m # 0
      <3>1. Good(0)
        BY <1>1, <1>2, <1>5 DEF Nears
      <3> QED BY <2>4, <3>1
    <2>6. m \in 1 .. N /\ m - 1 \in 0 .. N /\ m - 1 < m
      BY <2>4, <2>5
    <2>7. Good(m - 1)
      <3>1. m - 1 \notin T
        <4> HIDE DEF T
        <4> QED BY <2>3, <2>4, <2>6
      <3> QED BY <2>6, <3>1
    <2>8. f[m] = Guard!WalkOne(f[m - 1])
      BY <1>5, <2>6
    <2>9. CASE f[m - 1] = e
      BY <2>4, <2>8, <2>9 DEF Nears
    <2>10. CASE f[m - 1] \in S /\ left[f[m - 1]] + (m - 1) <= MaxImpls
      <3>1. PICK s \in S : s = f[m - 1] /\ left[s] + (m - 1) <= MaxImpls
        BY <2>10
      <3>2. PICK z : z = Guard!WalkOne(s) /\ f[m] = z
        BY <2>8, <3>1
      <3>3. z = e \/ (z \in S /\ left[z] < left[s])
        BY <3>2 DEF Nears
      <3>4. z \in S => left[z] \in Nat /\ left[s] \in Nat
        BY DEF Nears
      <3>5. z = e \/ (z \in S /\ left[z] + m <= MaxImpls)
        BY <1>1, <2>6, <3>1, <3>3, <3>4
      <3> QED BY <2>4, <3>2, <3>5
    <2> QED BY <2>7, <2>9, <2>10
  <1>7. Good(N)
    BY <1>1, <1>6
  <1>8. f[N] = e
    <2>1. ASSUME f[N] \in S PROVE left[f[N]] \in Nat
      BY <2>1 DEF Nears
    <2> QED BY <1>1, <1>7, <2>1
  <1> QED BY <1>3, <1>8

LEMMA HereIs ==
  ASSUME NEW h, NEW to, NEW p
  PROVE  Guard!Here(LoopAt(h, to, p)) = IF p = 0 THEN to ELSE h.impls[p].next
  BY DEF Guard!Here, LoopAt

LEMMA AtSays ==
  ASSUME NEW h, NEW to, NEW p
  PROVE  /\ LoopAt(h, to, p).heap = h /\ LoopAt(h, to, p).guard = to /\ LoopAt(h, to, p).at = p
         /\ \A x : [LoopAt(h, to, p) EXCEPT !.heap = x] = LoopAt(x, to, p)
         /\ \A x : [LoopAt(h, to, p) EXCEPT !.guard = x] = LoopAt(h, x, p)
         /\ \A x : [LoopAt(h, to, p) EXCEPT !.at = x] = LoopAt(h, to, x)
  BY DEF LoopAt

LEMMA InterposedIs ==
  ASSUME NEW w, NEW k, k = Guard!NewImpl(w.heap), NEW h, NEW to, NEW p, NEW new,
         Guard!PutHere(w, Guard!Impl(k)) = LoopAt(h, to, p)
  PROVE  Guard!Interposed(w, new) = LoopAt([h EXCEPT !.impls[k] = new], to, k)
  BY AtSays DEF Guard!Interposed, LoopAt

\* Nothing is here: the loop ends.
LEMMA WalkStays ==
  ASSUME NEW w, Guard!Here(w) = Guard!Null
  PROVE  Guard!WalkOne(w) = w
  BY GuardsDiffer DEF Guard!WalkOne

\* It goes along the impls that nobody shares.
LEMMA WalkGoes ==
  ASSUME NEW h, NEW to, NEW p, NEW y, Guard!Here(LoopAt(h, to, p)) = Guard!Impl(y), h.impls[y].refs = 1
  PROVE  Guard!WalkOne(LoopAt(h, to, p)) = LoopAt(h, to, y)
  <1>1. PICK w : w = LoopAt(h, to, p)
    OBVIOUS
  <1>2. PICK g : g = Guard!Here(w) /\ g # Guard!Null /\ ~Guard!IsRaw(g) /\ Guard!IsImpl(g) /\ g[2] = y
    BY <1>1, GuardsDiffer
  <1>3. w.heap = h
    BY <1>1 DEF LoopAt
  <1>4. Guard!WalkOne(w) = [w EXCEPT !.at = y]
    BY <1>2, <1>3 DEF Guard!WalkOne
  <1> QED BY <1>1, <1>4 DEF LoopAt

\* The first guard frees its object.
LEMMA WalkWraps ==
  ASSUME NEW h, NEW to, to # Guard!Null, Guard!IsRaw(to), ~Guard!IsImpl(to), NEW k, k = Guard!NewImpl(h)
  PROVE  Guard!WalkOne(LoopAt(h, to, 0))
           = LoopAt([h EXCEPT !.impls[k] = [refs |-> 1, next |-> Guard!Null, owns |-> to]], Guard!Impl(k), k)
  <1>1. PICK w : w = LoopAt(h, to, 0)
    OBVIOUS
  <1>2. Guard!Here(w) = to
    BY <1>1, HereIs
  <1>3. w.heap = h /\ w.at = 0
    BY <1>1 DEF LoopAt
  <1>4. PICK new : new = [refs |-> 1, next |-> Guard!Null, owns |-> to]
    OBVIOUS
  <1>5. Guard!WalkOne(w) = Guard!Interposed(w, new)
    BY <1>2, <1>3, <1>4 DEF Guard!WalkOne
  <1>6. Guard!PutHere(w, Guard!Impl(k)) = LoopAt(h, Guard!Impl(k), 0)
    BY <1>1 DEF Guard!PutHere, LoopAt
  <1>7. Guard!Interposed(w, new) = LoopAt([h EXCEPT !.impls[k] = new], Guard!Impl(k), k)
    BY <1>3, <1>6, InterposedIs
  <1> QED BY <1>1, <1>4, <1>5, <1>7

\* Others share the impl i that is here.
Taking(h, i, k) == [refs |-> 1, next |-> h.impls[i].next, owns |-> Guard!Impl(i)]

LEMMA WalkTakes ==
  ASSUME NEW h, NEW to, NEW i, to = Guard!Impl(i), h.impls[i].refs # 1, NEW k, k = Guard!NewImpl(h)
  PROVE  Guard!WalkOne(LoopAt(h, to, 0))
           = LoopAt(Guard!Linked([h EXCEPT !.impls[k] = Taking(h, i, k)], i, Guard!Null), Guard!Impl(k), k)
  <1>1. PICK w : w = LoopAt(h, to, 0)
    OBVIOUS
  <1>2. Guard!Here(w) = to
    BY <1>1, HereIs
  <1>3. w.heap = h /\ w.at = 0
    BY <1>1 DEF LoopAt
  <1>4. to # Guard!Null /\ ~Guard!IsRaw(to) /\ Guard!IsImpl(to) /\ to[2] = i
    BY GuardsDiffer
  <1>5. PICK new : new = Taking(h, i, k)
    OBVIOUS
  <1>6. Guard!WalkOne(w) = [Guard!Interposed(w, new) EXCEPT !.heap = Guard!Linked(Guard!Interposed(w, new).heap, i, Guard!Null)]
    BY <1>2, <1>3, <1>4, <1>5 DEF Guard!WalkOne, Taking
  <1>7. Guard!PutHere(w, Guard!Impl(k)) = LoopAt(h, Guard!Impl(k), 0)
    BY <1>1 DEF Guard!PutHere, LoopAt
  <1>8. Guard!Interposed(w, new) = LoopAt([h EXCEPT !.impls[k] = new], Guard!Impl(k), k)
    BY <1>3, <1>7, InterposedIs
  <1> QED BY <1>1, <1>5, <1>6, <1>8, AtSays

LEMMA WalkTakesBehind ==
  ASSUME NEW h, NEW to, NEW p, p # 0, NEW i, h.impls[p].next = Guard!Impl(i), h.impls[i].refs # 1,
         NEW k, k = Guard!NewImpl(h)
  PROVE  Guard!WalkOne(LoopAt(h, to, p))
           = LoopAt(Guard!Linked([Guard!Linked(h, p, Guard!Impl(k)) EXCEPT !.impls[k] = Taking(h, i, k)],
                             i, Guard!Null), to, k)
  <1>1. PICK w : w = LoopAt(h, to, p)
    OBVIOUS
  <1>2. PICK g : g = Guard!Impl(i) /\ g # Guard!Null /\ ~Guard!IsRaw(g) /\ Guard!IsImpl(g) /\ g[2] = i
    BY GuardsDiffer
  <1>3. w.heap = h /\ w.at = p
    BY <1>1 DEF LoopAt
  <1>4. Guard!Here(w) = g
    BY <1>1, <1>2, HereIs
  <1>5. PICK new : new = Taking(h, i, k)
    OBVIOUS
  <1>6. Guard!WalkOne(w) = [Guard!Interposed(w, new) EXCEPT !.heap = Guard!Linked(Guard!Interposed(w, new).heap, i, Guard!Null)]
    BY <1>2, <1>3, <1>4, <1>5 DEF Guard!WalkOne, Taking
  <1>7. Guard!PutHere(w, Guard!Impl(k)) = LoopAt(Guard!Linked(h, p, Guard!Impl(k)), to, p)
    BY <1>1, <1>3, AtSays DEF Guard!PutHere
  <1>8. Guard!Interposed(w, new) = LoopAt([Guard!Linked(h, p, Guard!Impl(k)) EXCEPT !.impls[k] = new], to, k)
    BY <1>3, <1>7, InterposedIs
  <1> QED BY <1>1, <1>5, <1>6, <1>8, AtSays

\* The next guard behind each impl has a smaller rank.
Descends(h, rank) ==
  /\ rank \in [ImplIds -> Nat]
  /\ \A x, y \in ImplIds : h.impls[x].next = Guard!Impl(y) => rank[y] < rank[x]

\* The impls below p in D.
Below(D, rank, p) == {y \in D : p = 0 \/ rank[y] < rank[p]}

LEMMA BelowIs ==
  ASSUME GuardAssumption, NEW D \in SUBSET ImplIds, NEW rank \in [ImplIds -> Nat]
  PROVE  /\ \A p : Cardinality(Below(D, rank, p)) \in Nat /\ Cardinality(Below(D, rank, p)) <= MaxImpls
         /\ \A p, y \in D : rank[y] < rank[p] => Cardinality(Below(D, rank, y)) < Cardinality(Below(D, rank, p))
         /\ \A y \in D : Cardinality(Below(D, rank, y)) < Cardinality(Below(D, rank, 0))
  <1>1. MaxImpls \in Nat
    BY DEF GuardAssumption
  <1>2. IsFiniteSet(ImplIds) /\ Cardinality(ImplIds) = MaxImpls
    <2>1. Cardinality(1 .. MaxImpls) = IF 1 > MaxImpls THEN 0 ELSE MaxImpls - 1 + 1
      BY <1>1, FS_Interval
    <2>2. IsFiniteSet(1 .. MaxImpls)
      BY <1>1, FS_Interval
    <2> QED BY <1>1, <2>1, <2>2 DEF ImplIds
  <1>3. ASSUME NEW p
        PROVE  /\ IsFiniteSet(Below(D, rank, p)) /\ Cardinality(Below(D, rank, p)) \in Nat
               /\ Cardinality(Below(D, rank, p)) <= MaxImpls
    <2>1. Below(D, rank, p) \in SUBSET ImplIds
      BY DEF Below
    <2>2. IsFiniteSet(Below(D, rank, p)) /\ Cardinality(Below(D, rank, p)) <= Cardinality(ImplIds)
      BY <1>2, <2>1, FS_Subset
    <2> QED BY <1>2, <2>2, FS_CardinalityType
  <1>4. ASSUME NEW p, NEW y \in D, p = 0 \/ (p \in D /\ rank[y] < rank[p])
        PROVE  Cardinality(Below(D, rank, y)) < Cardinality(Below(D, rank, p))
    <2>1. PICK A, B : A = Below(D, rank, y) /\ B = Below(D, rank, p)
      OBVIOUS
    <2>2. y \in ImplIds /\ y # 0 /\ rank[y] \in Nat /\ \A z \in D : rank[z] \in Nat
      BY <1>1 DEF ImplIds
    <2>3. y \in B /\ y \notin A
      BY <1>4, <2>1, <2>2 DEF Below
    <2>4. A \subseteq B
      BY <1>4, <2>1, <2>2 DEF Below
    <2>5. A \in SUBSET (B \ {y})
      BY <2>3, <2>4
    <2>6. IsFiniteSet(B) /\ Cardinality(B) \in Nat
      BY <1>3, <2>1
    <2>7. IsFiniteSet(B \ {y}) /\ Cardinality(B \ {y}) = Cardinality(B) - 1
      BY <2>3, <2>6, FS_RemoveElement
    <2>8. Cardinality(A) <= Cardinality(B \ {y}) /\ Cardinality(A) \in Nat
      BY <1>3, <2>1, <2>5, <2>7, FS_Subset
    <2> QED BY <2>1, <2>6, <2>7, <2>8
  <1> QED BY <1>3, <1>4

\* The impls D that the loop goes along before it is at its end e.
Path(h, to, D, rank, e) ==
  /\ \E t \in D : Guard!WalkOne(LoopAt(h, to, 0)) = LoopAt(h, to, t)
  /\ \A p \in D : \/ Guard!WalkOne(LoopAt(h, to, p)) = e
                  \/ \E y \in D : rank[y] < rank[p] /\ Guard!WalkOne(LoopAt(h, to, p)) = LoopAt(h, to, y)

LEMMA PathEnds ==
  ASSUME GuardAssumption, NEW h, NEW to, NEW D \in SUBSET ImplIds, NEW rank \in [ImplIds -> Nat], NEW e,
         Path(h, to, D, rank, e), Guard!WalkOne(e) = e
  PROVE  Guard!Walked(h, to) = e
  <1> DEFINE S == {LoopAt(h, to, p) : p \in D \cup {0}}
             left == [s \in S |-> Cardinality(Below(D, rank, s.at))]
  <1>1. ASSUME NEW p \in D \cup {0}
        PROVE  /\ LoopAt(h, to, p) \in S /\ left[LoopAt(h, to, p)] = Cardinality(Below(D, rank, p))
               /\ left[LoopAt(h, to, p)] \in Nat /\ left[LoopAt(h, to, p)] <= MaxImpls
    <2>1. LoopAt(h, to, p).at = p
      BY AtSays
    <2>2. LoopAt(h, to, p) \in S
      OBVIOUS
    <2>3. left[LoopAt(h, to, p)] = Cardinality(Below(D, rank, p))
      <3> HIDE DEF S
      <3> QED BY <2>1, <2>2
    <2> HIDE DEF S, left
    <2> QED BY <2>2, <2>3, BelowIs
  <1>2. ASSUME NEW s \in S PROVE \E p \in D \cup {0} : s = LoopAt(h, to, p)
    OBVIOUS
  <1>3. left \in [S -> Nat]
    <2>1. ASSUME NEW s \in S PROVE Cardinality(Below(D, rank, s.at)) \in Nat
      BY BelowIs
    <2> HIDE DEF S
    <2> QED BY <2>1
  <1> HIDE DEF S, left
  <1>4. ASSUME NEW s \in S
        PROVE  Guard!WalkOne(s) = e \/ (Guard!WalkOne(s) \in S /\ left[Guard!WalkOne(s)] < left[s])
    <2>1. PICK p \in D \cup {0} : s = LoopAt(h, to, p)
      BY <1>2
    <2>2. CASE p = 0
      <3>1. PICK t \in D : Guard!WalkOne(s) = LoopAt(h, to, t)
        BY <2>1, <2>2 DEF Path
      <3>2. Cardinality(Below(D, rank, t)) < Cardinality(Below(D, rank, 0))
        BY BelowIs
      <3> QED BY <1>1, <2>1, <2>2, <3>1, <3>2
    <2>3. CASE p \in D
      <3>1. SUFFICES ASSUME Guard!WalkOne(s) # e
                     PROVE  Guard!WalkOne(s) \in S /\ left[Guard!WalkOne(s)] < left[s]
        OBVIOUS
      <3>2. PICK y \in D : rank[y] < rank[p] /\ Guard!WalkOne(s) = LoopAt(h, to, y)
        BY <2>1, <2>3, <3>1 DEF Path
      <3>3. Cardinality(Below(D, rank, y)) < Cardinality(Below(D, rank, p))
        BY <2>3, <3>2, BelowIs
      <3> QED BY <1>1, <2>1, <2>3, <3>2, <3>3
    <2> QED BY <2>2, <2>3
  <1>5. Nears(S, e, left)
    BY <1>3, <1>4 DEF Nears
  <1>6. LoopAt(h, to, 0) \in S /\ left[LoopAt(h, to, 0)] <= MaxImpls
    BY <1>1
  <1> QED BY <1>5, <1>6, WalkEnds

\* The loop ends at once, or after its first round.
LEMMA SoonEnds ==
  ASSUME GuardAssumption, NEW h, NEW to, NEW e, Guard!WalkOne(LoopAt(h, to, 0)) = e, Guard!WalkOne(e) = e
  PROVE  Guard!Walked(h, to) = e
  <1>1. PICK S, left : S = {LoopAt(h, to, 0)} /\ left = [s \in S |-> 0]
    OBVIOUS
  <1>2. left \in [S -> Nat] /\ LoopAt(h, to, 0) \in S /\ left[LoopAt(h, to, 0)] = 0
    BY <1>1
  <1>3. Nears(S, e, left)
    BY <1>1, <1>2 DEF Nears
  <1>4. left[LoopAt(h, to, 0)] <= MaxImpls
    BY <1>2 DEF GuardAssumption
  <1> QED BY <1>2, <1>3, <1>4, WalkEnds

\* What append makes of a heap and of the guard that is appended to.
LastOf(h, to) == CHOOSE j \in Guard!Chain(h, to) : h.impls[j].next = Guard!Null

LEMMA AppendedIs ==
  ASSUME NEW h, NEW to, NEW g, g # Guard!Null, NEW h2, NEW to2, NEW p, Guard!Walked(h, to) = LoopAt(h2, to2, p)
  PROVE  Guard!Appended(h, to, g) = IF p = 0 THEN [heap |-> h2, guard |-> g]
                                    ELSE [heap |-> Guard!Linked(h2, p, g), guard |-> to2]
  <1>1. PICK e : e = Guard!PutHere(LoopAt(h2, to2, p), g)
    OBVIOUS
  <1>2. e = IF p = 0 THEN LoopAt(h2, g, p) ELSE LoopAt(Guard!Linked(h2, p, g), to2, p)
    BY <1>1, AtSays DEF Guard!PutHere
  <1>3. Guard!Appended(h, to, g) = [heap |-> e.heap, guard |-> e.guard]
    BY <1>1 DEF Guard!Appended
  <1> QED BY <1>2, <1>3, AtSays

LEMMA LinkedEdits ==
  ASSUME NEW h \in Heaps, NEW k \in ImplIds, NEW nx \in AllGuards
  PROVE  Edits(h, k, h.impls[k].refs, nx, h.impls[k].owns, Guard!Linked(h, k, nx))
  BY NextEdited DEF Guard!Linked

LEMMA AppendedNull ==
  ASSUME NEW h, NEW to
  PROVE  Guard!Appended(h, to, Guard!Null) = [heap |-> h, guard |-> to]
  BY DEF Guard!Appended

LEMMA AppendedToNull ==
  ASSUME GuardAssumption, NEW h, NEW g, g # Guard!Null
  PROVE  Guard!Appended(h, Guard!Null, g) = [heap |-> h, guard |-> g]
  <1>1. PICK w : w = LoopAt(h, Guard!Null, 0)
    OBVIOUS
  <1>2. Guard!WalkOne(w) = w
    BY <1>1, HereIs, WalkStays
  <1>3. Guard!Walked(h, Guard!Null) = w
    BY <1>1, <1>2, SoonEnds
  <1> QED BY <1>1, <1>3, AppendedIs

\* An object that is freed directly gets an impl.
LEMMA AppendedRaw ==
  ASSUME GuardAssumption, NEW h \in Heaps, NEW to \in AllGuards, NEW g \in AllGuards, g # Guard!Null,
         to # Guard!Null, Guard!IsRaw(to), ~Guard!IsImpl(to),
         NEW k \in ImplIds, k = Guard!NewImpl(h), NEW r, r = Guard!Appended(h, to, g)
  PROVE  r.guard = Guard!Impl(k) /\ Edits(h, k, 1, g, to, r.heap)
  <1>1. PICK h1 : h1 = [h EXCEPT !.impls[k] = [refs |-> 1, next |-> Guard!Null, owns |-> to]]
    OBVIOUS
  <1>2. Edits(h, k, 1, Guard!Null, to, h1)
    BY <1>1, ImplEdited, GuardIn
  <1>3. k # 0
    BY DEF ImplIds
  <1>4. PICK e : e = LoopAt(h1, Guard!Impl(k), k)
    OBVIOUS
  <1>5. Guard!WalkOne(LoopAt(h, to, 0)) = e
    BY <1>1, <1>4, WalkWraps
  <1>6. Guard!WalkOne(e) = e
    BY <1>2, <1>3, <1>4, HereIs, WalkStays DEF Edits
  <1>7. Guard!Walked(h, to) = e
    BY <1>5, <1>6, SoonEnds
  <1>8. r.guard = Guard!Impl(k) /\ r.heap = Guard!Linked(h1, k, g)
    BY <1>3, <1>4, <1>7, AppendedIs
  <1>9. Edits(h1, k, h1.impls[k].refs, g, h1.impls[k].owns, r.heap)
    BY <1>2, <1>8, LinkedEdits DEF Edits
  <1> QED BY <1>2, <1>8, <1>9 DEF Edits

\* Nobody shares the last impl of the chain.
LEMMA AppendedLast ==
  ASSUME GuardAssumption, NEW h \in Heaps, NEW t, NEW C, NEW i, ChainAt(h, t, C, i), h.impls[i].refs = 1,
         NEW rank, Descends(h, rank),
         NEW g \in AllGuards, g # Guard!Null, NEW r, r = Guard!Appended(h, Guard!Impl(t), g)
  PROVE  r.guard = Guard!Impl(t) /\ Edits(h, i, h.impls[i].refs, g, h.impls[i].owns, r.heap)
  <1>1. /\ C \subseteq ImplIds /\ t \in C /\ i \in C /\ h.impls[i].next = Guard!Null
        /\ \A x \in C : h.impls[x].refs = 1
        /\ \A x \in C : x # i => \E y \in C : h.impls[x].next = Guard!Impl(y)
    BY ChainAtSays
  <1>2. \A x \in C : x # 0
    BY <1>1 DEF ImplIds
  <1>3. PICK to, e : to = Guard!Impl(t) /\ e = LoopAt(h, to, i)
    OBVIOUS
  <1>4. Guard!WalkOne(e) = e
    BY <1>1, <1>2, <1>3, HereIs, WalkStays
  <1>5. Guard!WalkOne(LoopAt(h, to, 0)) = LoopAt(h, to, t)
    BY <1>1, <1>3, HereIs, WalkGoes
  <1>6. ASSUME NEW p \in C
        PROVE  \/ Guard!WalkOne(LoopAt(h, to, p)) = e
               \/ \E y \in C : rank[y] < rank[p] /\ Guard!WalkOne(LoopAt(h, to, p)) = LoopAt(h, to, y)
    <2>1. CASE p = i
      BY <1>3, <1>4, <2>1
    <2>2. CASE p # i
      <3>1. PICK y \in C : h.impls[p].next = Guard!Impl(y)
        BY <1>1, <2>2
      <3>2. rank[y] < rank[p]
        BY <1>1, <3>1 DEF Descends
      <3>3. Guard!WalkOne(LoopAt(h, to, p)) = LoopAt(h, to, y)
        BY <1>1, <1>2, <3>1, HereIs, WalkGoes
      <3> QED BY <3>2, <3>3
    <2> QED BY <2>1, <2>2
  <1>7. Path(h, to, C, rank, e)
    BY <1>1, <1>5, <1>6 DEF Path
  <1>8. Guard!Walked(h, to) = e
    BY <1>1, <1>4, <1>7, PathEnds DEF Descends
  <1>9. r.guard = to /\ r.heap = Guard!Linked(h, i, g)
    BY <1>1, <1>2, <1>3, <1>8, AppendedIs
  <1> QED BY <1>1, <1>3, <1>9, LinkedEdits

LEMMA SameImpl ==
  ASSUME NEW x \in ImplRecords, NEW y \in ImplRecords, x.refs = y.refs, x.next = y.next, x.owns = y.owns
  PROVE  x = y
  BY DEF ImplRecords

\* The last impl of the chain, which others share and which has nothing behind
\* it, stays as it is.
LEMMA CutLast ==
  ASSUME NEW h \in Heaps, NEW i \in ImplIds, h.impls[i].next = Guard!Null, NEW h2, h2 = Guard!Linked(h, i, Guard!Null)
  PROVE  h2 \in Heaps /\ h2.freed = h.freed /\ \A m \in ImplIds : h2.impls[m] = h.impls[m]
  <1>1. Edits(h, i, h.impls[i].refs, Guard!Null, h.impls[i].owns, h2)
    BY LinkedEdits, GuardIn
  <1>2. h2.impls[i] \in ImplRecords /\ h.impls[i] \in ImplRecords
    BY <1>1 DEF Edits, Heaps
  <1>3. h2.impls[i] = h.impls[i]
    BY <1>1, <1>2, SameImpl DEF Edits
  <1> QED BY <1>1, <1>3 DEF Edits

\* Others share the impl, and the chain has no other.
LEMMA AppendedTaken ==
  ASSUME GuardAssumption, NEW h \in Heaps, NEW t \in ImplIds, h.impls[t].next = Guard!Null, h.impls[t].refs # 1,
         NEW k \in ImplIds, k = Guard!NewImpl(h), k # t,
         NEW g \in AllGuards, g # Guard!Null, NEW r, r = Guard!Appended(h, Guard!Impl(t), g)
  PROVE  r.guard = Guard!Impl(k) /\ Edits(h, k, 1, g, Guard!Impl(t), r.heap)
  <1>1. PICK h1 : h1 = [h EXCEPT !.impls[k] = Taking(h, t, k)]
    OBVIOUS
  <1>2. Edits(h, k, 1, Guard!Null, Guard!Impl(t), h1)
    BY <1>1, ImplEdited, GuardIn DEF Taking
  <1>3. PICK h2 : h2 = Guard!Linked(h1, t, Guard!Null)
    OBVIOUS
  <1>4. h2 \in Heaps /\ h2.freed = h1.freed /\ \A m \in ImplIds : h2.impls[m] = h1.impls[m]
    BY <1>2, <1>3, CutLast DEF Edits
  <1>5. Edits(h, k, 1, Guard!Null, Guard!Impl(t), h2)
    BY <1>2, <1>4 DEF Edits
  <1>6. PICK e : e = LoopAt(h2, Guard!Impl(k), k)
    OBVIOUS
  <1>7. k # 0
    BY DEF ImplIds
  <1>8. Guard!WalkOne(LoopAt(h, Guard!Impl(t), 0)) = e
    BY <1>1, <1>3, <1>6, WalkTakes
  <1>9. Guard!WalkOne(e) = e
    BY <1>5, <1>6, <1>7, HereIs, WalkStays DEF Edits
  <1>10. Guard!Walked(h, Guard!Impl(t)) = e
    BY <1>8, <1>9, SoonEnds
  <1>11. r.guard = Guard!Impl(k) /\ r.heap = Guard!Linked(h2, k, g)
    BY <1>6, <1>7, <1>10, AppendedIs
  <1>12. Edits(h2, k, h2.impls[k].refs, g, h2.impls[k].owns, r.heap)
    BY <1>5, <1>11, LinkedEdits DEF Edits
  <1> QED BY <1>5, <1>11, <1>12 DEF Edits

\* Others share the last impl of the chain, and j comes before it.
LEMMA AppendedBehind ==
  ASSUME GuardAssumption, NEW h \in Heaps, NEW t, NEW C, NEW i, ChainAt(h, t, C, i), h.impls[i].refs # 1, i # t,
         NEW rank, Descends(h, rank), NEW j \in C, h.impls[j].next = Guard!Impl(i),
         NEW k \in ImplIds, k = Guard!NewImpl(h), k # i, k # j,
         NEW g \in AllGuards, g # Guard!Null, NEW r, r = Guard!Appended(h, Guard!Impl(t), g)
  PROVE  r.guard = Guard!Impl(t) /\ Relinks(h, k, i, j, g, r.heap)
  <1>1. /\ C \subseteq ImplIds /\ t \in C /\ i \in C /\ h.impls[i].next = Guard!Null
        /\ \A x \in C : x # i => h.impls[x].refs = 1
        /\ \A x \in C : x # i => \E y \in C : h.impls[x].next = Guard!Impl(y)
        /\ \A x, y \in C : x # i /\ y # i /\ h.impls[x].next = h.impls[y].next => x = y
    BY ChainAtSays
  <1>2. (\A x \in C : x # 0) /\ k # 0 /\ j # i
    BY <1>1, GuardsDiffer DEF ImplIds
  <1>3. PICK to, D : to = Guard!Impl(t) /\ D = C \ {i}
    OBVIOUS
  <1>4. PICK h1, h2, h3 : /\ h1 = Guard!Linked(h, j, Guard!Impl(k))
                          /\ h2 = [h1 EXCEPT !.impls[k] = Taking(h, i, k)]
                          /\ h3 = Guard!Linked(h2, i, Guard!Null)
    OBVIOUS
  <1>5. Edits(h, j, h.impls[j].refs, Guard!Impl(k), h.impls[j].owns, h1)
    BY <1>1, <1>4, LinkedEdits, GuardIn
  <1>6. Edits(h1, k, 1, Guard!Null, Guard!Impl(i), h2)
    <2>1. h1 \in Heaps /\ Guard!Null \in AllGuards /\ Guard!Impl(i) \in AllGuards
      BY <1>1, <1>5, GuardIn DEF Edits
    <2>2. Taking(h, i, k) = [refs |-> 1, next |-> Guard!Null, owns |-> Guard!Impl(i)]
      BY <1>1 DEF Taking
    <2>3. h2 = [h1 EXCEPT !.impls[k] = [refs |-> 1, next |-> Guard!Null, owns |-> Guard!Impl(i)]]
      BY <1>4, <2>2
    <2> QED BY <2>1, <2>3, ImplEdited
  <1>7. h3 \in Heaps /\ h3.freed = h2.freed /\ \A m \in ImplIds : h3.impls[m] = h2.impls[m]
    <2>1. h2 \in Heaps /\ h2.impls[i].next = Guard!Null /\ i \in ImplIds
      <3>1. i \in ImplIds /\ h2 \in Heaps /\ h2.impls[i] = h1.impls[i]
        BY <1>1, <1>6 DEF Edits
      <3>2. h1.impls[i] = h.impls[i]
        BY <1>1, <1>2, <1>5 DEF Edits
      <3> QED BY <1>1, <3>1, <3>2
    <2>2. h3 = Guard!Linked(h2, i, Guard!Null)
      BY <1>4
    <2> QED BY <2>1, <2>2, CutLast
  <1>8. Relinks(h, k, i, j, Guard!Null, h3)
    BY <1>1, <1>5, <1>6, <1>7 DEF Edits, Relinks
  <1>9. PICK e : e = LoopAt(h3, to, k)
    OBVIOUS
  <1>10. Guard!WalkOne(e) = e
    BY <1>2, <1>8, <1>9, HereIs, WalkStays DEF Relinks
  <1>11. Guard!WalkOne(LoopAt(h, to, j)) = e
    BY <1>2, <1>4, <1>9, WalkTakesBehind
  <1>12. Guard!WalkOne(LoopAt(h, to, 0)) = LoopAt(h, to, t)
    BY <1>1, <1>3, HereIs, WalkGoes
  <1>13. ASSUME NEW p \in D
         PROVE  \/ Guard!WalkOne(LoopAt(h, to, p)) = e
                \/ \E y \in D : rank[y] < rank[p] /\ Guard!WalkOne(LoopAt(h, to, p)) = LoopAt(h, to, y)
    <2>1. CASE p = j
      BY <1>11, <2>1
    <2>2. CASE p # j
      <3>1. p \in C /\ p # i
        BY <1>3
      <3>2. PICK y \in C : h.impls[p].next = Guard!Impl(y)
        BY <1>1, <3>1
      <3>3. y # i
        BY <1>1, <1>2, <2>2, <3>1, <3>2
      <3>4. rank[y] < rank[p]
        BY <1>1, <3>1, <3>2 DEF Descends
      <3>5. Guard!WalkOne(LoopAt(h, to, p)) = LoopAt(h, to, y)
        BY <1>1, <1>2, <3>1, <3>2, <3>3, HereIs, WalkGoes
      <3> QED BY <1>3, <3>3, <3>4, <3>5
    <2> QED BY <2>1, <2>2
  <1>14. Path(h, to, D, rank, e)
    BY <1>1, <1>3, <1>12, <1>13 DEF Path
  <1>15. Guard!Walked(h, to) = e
    <2>1. D \in SUBSET ImplIds
      BY <1>1, <1>3
    <2> QED BY <1>10, <1>14, <2>1, PathEnds DEF Descends
  <1>16. r.guard = to /\ r.heap = Guard!Linked(h3, k, g)
    BY <1>2, <1>3, <1>9, <1>15, AppendedIs
  <1>17. Edits(h3, k, h3.impls[k].refs, g, h3.impls[k].owns, r.heap)
    BY <1>7, <1>16, LinkedEdits
  <1> QED BY <1>1, <1>3, <1>8, <1>16, <1>17 DEF Edits, Relinks

\* A chain that can be appended to has a last impl.
LEMMA ChainAtLast ==
  ASSUME GuardAssumption, NEW h, NEW gs, NEW ks, Ok(h, gs, ks), NEW t \in ImplIds,
         Guard!Appendable(h, Guard!Impl(t)), NEW i, i = LastOf(h, Guard!Impl(t))
  PROVE  ChainAt(h, t, Guard!Chain(h, Guard!Impl(t)), i)
  <1>1. PICK ptr, refs, R, rank : /\ Graph(ptr, refs, h.freed, R, rank)
                                  /\ Shows(ptr, refs, h, gs, NoGuards)
    BY DEF Ok
  <1>2. h \in Heaps
    BY DEF Ok, OkTyped
  <1>3. rank \in [ImplIds -> Nat]
    BY <1>1, GraphSays
  <1>4. ASSUME NEW x \in ImplIds, NEW y \in ImplIds, h.impls[x].next = Guard!Impl(y) PROVE rank[y] < rank[x]
    <2>1. ptr[Behind(x)] = Guard!Impl(y)
      BY <1>1, <1>4 DEF Shows
    <2> QED BY <1>1, <2>1 DEF Graph, Ranked
  <1>5. PICK C : C = Guard!Chain(h, Guard!Impl(t))
    OBVIOUS
  <1>6. \E j \in C : h.impls[j].next = Guard!Null
    BY <1>2, <1>3, <1>4, <1>5, ChainHasEnd
  <1>7. i \in C /\ h.impls[i].next = Guard!Null
    BY <1>5, <1>6 DEF LastOf
  <1>8. ChainShape(h, C, i)
    BY <1>2, <1>3, <1>4, <1>5, <1>7, ChainEnds
  <1> QED BY <1>5, <1>8 DEF ChainAt

\* What can come of an append.
AppendsTo(h, to, g, k, r) ==
  \/ g = Guard!Null /\ r.heap = h /\ r.guard = to
  \/ to = Guard!Null /\ r.heap = h /\ r.guard = g
  \/ Edits(h, k, 1, g, to, r.heap) /\ r.guard = Guard!Impl(k)
  \/ \E t, C, i : /\ ChainAt(h, t, C, i) /\ to = Guard!Impl(t) /\ r.guard = to /\ h.impls[i].refs = 1
                 /\ Edits(h, i, h.impls[i].refs, g, h.impls[i].owns, r.heap)
  \/ \E t, C, i : /\ ChainAt(h, t, C, i) /\ to = Guard!Impl(t) /\ r.guard = to /\ i # t
                 /\ \E j \in C : h.impls[j].next = Guard!Impl(i) /\ Relinks(h, k, i, j, g, r.heap)

LEMMA AppendedCases ==
  ASSUME GuardAssumption, NEW h, NEW gs, NEW ks, Ok(h, gs, ks), NEW k \in ImplIds, k = Guard!NewImpl(h),
         h.impls[k].refs = 0, NEW b \in Guard!Holders, Guard!Appendable(h, gs[b]),
         NEW g \in AllGuards, NEW r, r = Guard!Appended(h, gs[b], g)
  PROVE  AppendsTo(h, gs[b], g, k, r)
  <1>1. h \in Heaps /\ gs[b] \in AllGuards
    BY DEF Ok, OkTyped
  <1>2. PICK to \in AllGuards : to = gs[b] /\ r = Guard!Appended(h, to, g)
    BY <1>1
  <1>3. CASE g = Guard!Null
    BY <1>2, <1>3, AppendedNull DEF AppendsTo
  <1>4. CASE g # Guard!Null /\ to = Guard!Null
    BY <1>2, <1>4, AppendedToNull DEF AppendsTo
  <1>5. CASE g # Guard!Null /\ \E o \in ObjectIds : to = Guard!Raw(o)
    <2>1. to # Guard!Null /\ Guard!IsRaw(to) /\ ~Guard!IsImpl(to)
      BY <1>5, GuardsDiffer
    <2>2. r.guard = Guard!Impl(k) /\ Edits(h, k, 1, g, to, r.heap)
      BY <1>1, <1>2, <1>5, <2>1, AppendedRaw
    <2> QED BY <1>2, <2>2 DEF AppendsTo
  <1>6. ASSUME NEW t \in ImplIds, g # Guard!Null, to = Guard!Impl(t) PROVE AppendsTo(h, gs[b], g, k, r)
    <2>1. PICK i, C : i = LastOf(h, to) /\ C = Guard!Chain(h, to)
      OBVIOUS
    <2>2. ChainAt(h, t, C, i)
      BY <1>2, <1>6, <2>1, ChainAtLast
    <2>3. /\ C \subseteq ImplIds /\ i \in ImplIds /\ t \in C /\ i \in C /\ h.impls[i].next = Guard!Null
          /\ \A x \in C : x # t => \E y \in C : y # i /\ h.impls[y].next = Guard!Impl(x)
          /\ \A x \in C : x # i => h.impls[x].refs = 1
      BY <1>1, <2>2, ChainAtSays
    <2>4. PICK ptr, refs, R, rank : /\ Graph(ptr, refs, h.freed, R, rank)
                                    /\ Shows(ptr, refs, h, gs, NoGuards)
      BY DEF Ok
    <2>5. \A x \in ImplIds : ptr[Behind(x)] = h.impls[x].next /\ refs[x] = h.impls[x].refs
      BY <2>4 DEF Shows
    <2>6. Descends(h, rank)
      <3>1. rank \in [ImplIds -> Nat]
        BY <2>4, GraphSays
      <3>2. ASSUME NEW x \in ImplIds, NEW y \in ImplIds, h.impls[x].next = Guard!Impl(y) PROVE rank[y] < rank[x]
        <4>1. ptr[Behind(x)] = Guard!Impl(y)
          BY <2>5, <3>2
        <4> QED BY <2>4, <4>1 DEF Graph, Ranked
      <3> QED BY <3>1, <3>2 DEF Descends
    <2>7. CASE h.impls[i].refs = 1
      <3>1. r.guard = to /\ Edits(h, i, h.impls[i].refs, g, h.impls[i].owns, r.heap)
        BY <1>1, <1>2, <1>6, <2>2, <2>6, <2>7, AppendedLast
      <3> QED BY <1>2, <1>6, <2>2, <2>7, <3>1 DEF AppendsTo
    <2>8. CASE h.impls[i].refs # 1 /\ i = t
      <3>1. k # t
        <4>1. InBlob(b) \in Places /\ ptr[InBlob(b)] = Guard!Impl(t)
          <5>1. InBlob(b) \in Places
            BY PlacesIn
          <5>2. ptr[InBlob(b)] = gs[b]
            BY <2>4 DEF Shows
          <5> QED BY <1>2, <1>6, <5>1, <5>2
        <4> QED BY <2>4, <2>5, <4>1, UnusedImpl
      <3>2. r.guard = Guard!Impl(k) /\ Edits(h, k, 1, g, to, r.heap)
        BY <1>1, <1>2, <1>6, <2>3, <2>8, <3>1, AppendedTaken
      <3> QED BY <1>2, <3>2 DEF AppendsTo
    <2>9. CASE h.impls[i].refs # 1 /\ i # t
      <3>1. PICK j \in C : j # i /\ h.impls[j].next = Guard!Impl(i)
        BY <2>3, <2>9
      <3>2. k # j
        BY <2>3, <3>1
      <3>3. k # i
        <4>1. j \in ImplIds /\ ptr[Behind(j)] = Guard!Impl(i)
          BY <2>3, <2>5, <3>1
        <4>2. Behind(j) \in Places
          BY <4>1, PlacesIn
        <4> QED BY <2>4, <2>5, <4>1, <4>2, UnusedImpl
      <3>4. r.guard = to /\ Relinks(h, k, i, j, g, r.heap)
        BY <1>1, <1>2, <1>6, <2>2, <2>6, <2>9, <3>1, <3>2, <3>3, AppendedBehind
      <3> QED BY <1>2, <1>6, <2>2, <2>9, <3>1, <3>4 DEF AppendsTo
    <2> QED BY <2>7, <2>8, <2>9
  <1> QED BY <1>3, <1>4, <1>5, <1>6, GuardCases

LEMMA AppendedType ==
  ASSUME GuardAssumption, NEW h, NEW gs, NEW ks, Ok(h, gs, ks), Guard!Unused(h) # {},
         NEW b \in Guard!Holders, Guard!Appendable(h, gs[b]),
         NEW g \in AllGuards, NEW r, r = Guard!Appended(h, gs[b], g)
  PROVE  r.guard \in AllGuards
  <1>1. PICK k \in ImplIds : k = Guard!NewImpl(h) /\ h.impls[k].refs = 0
    BY NewImplIs
  <1>2. gs[b] \in AllGuards /\ Guard!Impl(k) \in AllGuards
    BY GuardIn DEF Ok, OkTyped
  <1>3. AppendsTo(h, gs[b], g, k, r)
    BY <1>1, AppendedCases
  <1> QED BY <1>2, <1>3 DEF AppendsTo

\* What the chain of the guard of b keeps grows by what the guard of c keeps.
LEMMA OkAppend ==
  ASSUME GuardAssumption, NEW h, NEW gs, NEW ks, Ok(h, gs, ks), Guard!Unused(h) # {},
         NEW b \in Guard!Holders, NEW c \in Guard!Holders, b # c, Guard!Appendable(h, gs[b]),
         NEW r, r = Guard!Appended(h, gs[b], gs[c]),
         NEW gs2, OkTyped(h, gs2), Changes(gs, b, r.guard, c, Guard!Null, gs2),
         NEW ks2, Changes(ks, b, ks[b] \cup ks[c], c, {}, ks2)
  PROVE  Ok(r.heap, gs2, ks2)
  <1>1. gs[b] \in AllGuards /\ gs[c] \in AllGuards
    BY DEF Ok, OkTyped
  <1>2. PICK k \in ImplIds : k = Guard!NewImpl(h) /\ h.impls[k].refs = 0
    BY NewImplIs
  <1>3. AppendsTo(h, gs[b], gs[c], k, r)
    BY <1>1, <1>2, AppendedCases
  <1>4. CASE gs[c] = Guard!Null /\ r.heap = h /\ r.guard = gs[b]
    <2>1. ks[c] = {}
      BY <1>4, NullKeeps
    <2>2. \A d \in Guard!Holders : gs2[d] = gs[d] /\ ks2[d] = ks[d]
      BY <1>4, <2>1 DEF Changes
    <2> QED BY <1>4, <2>2, OkSame
  <1>5. CASE gs[b] = Guard!Null /\ r.heap = h /\ r.guard = gs[c]
    <2>1. ks[b] = {}
      BY <1>5, NullKeeps
    <2>2. Changes(gs, c, Guard!Null, b, gs[c], gs2)
      BY <1>5 DEF Changes
    <2>3. Changes(ks, c, {}, b, ks[c], ks2)
      BY <2>1 DEF Changes
    <2> QED BY <1>5, <2>2, <2>3, OkMove
  <1>6. CASE Edits(h, k, 1, gs[c], gs[b], r.heap) /\ r.guard = Guard!Impl(k)
    <2>1. Changes(gs, b, Guard!Impl(k), c, Guard!Null, gs2)
      BY <1>6
    <2> QED BY <1>2, <1>6, <2>1, OkWrap
  <1>7. ASSUME NEW t, NEW C, NEW i, ChainAt(h, t, C, i), gs[b] = Guard!Impl(t), r.guard = gs[b],
               h.impls[i].refs = 1, Edits(h, i, h.impls[i].refs, gs[c], h.impls[i].owns, r.heap)
        PROVE  Ok(r.heap, gs2, ks2)
    <2>1. Changes(gs, b, gs[b], c, Guard!Null, gs2)
      BY <1>7
    <2> QED BY <1>7, <2>1, OkAppendLast
  <1>8. ASSUME NEW t, NEW C, NEW i, ChainAt(h, t, C, i), gs[b] = Guard!Impl(t), r.guard = gs[b], i # t,
               NEW j \in C, h.impls[j].next = Guard!Impl(i), Relinks(h, k, i, j, gs[c], r.heap)
        PROVE  Ok(r.heap, gs2, ks2)
    <2>1. Changes(gs, b, gs[b], c, Guard!Null, gs2)
      BY <1>8
    <2> QED BY <1>2, <1>8, <2>1, OkAppendShared
  <1> QED BY <1>3, <1>4, <1>5, <1>6, <1>7, <1>8 DEF AppendsTo

----------------------------------------------------------------------------
(***************************************************************************)
(* Blobs.  The inductive invariant: the guards make a graph in which each  *)
(* blob keeps what it has to; an arena that is used up has no guard.       *)
(***************************************************************************)

BlobRecords == [size : Int, guard : AllGuards]

\* The guards of the blobs.
Held(bl) == [b \in Guard!Holders |-> bl[b].guard]

ArenaOk(a) == a.size \in 0 .. ArenaSize /\ (a.size = 0 => a.guard = Guard!Null)

BlobsOk(h, bl, ks) ==
  /\ bl \in [Guard!Holders -> BlobRecords]
  /\ ks \in [Guard!Holders -> SUBSET ObjectIds]
  /\ ArenaOk(bl[Arena])
  /\ Ok(h, Held(bl), ks)

GuardInv == BlobsOk(heap, blobs, kept)

LEMMA HoldersAre ==
  ASSUME GuardAssumption
  PROVE  Arena \in Guard!Holders /\ \A b \in Slots : b \in Guard!Holders /\ b # Arena
  BY DEF Guard!Holders, GuardAssumption

LEMMA HeldIs ==
  ASSUME NEW bl \in [Guard!Holders -> BlobRecords]
  PROVE  /\ Held(bl) \in [Guard!Holders -> AllGuards]
         /\ \A b \in Guard!Holders : Held(bl)[b] = bl[b].guard /\ bl[b].guard \in AllGuards /\ bl[b].size \in Int
  BY DEF Held, BlobRecords

LEMMA NoBlobIs ==
  /\ Guard!NoBlob \in BlobRecords /\ Guard!NoBlob.guard = Guard!Null /\ Guard!NoBlob.size = 0
  BY GuardIn DEF Guard!NoBlob, BlobRecords

\* Two blobs change, or two of anything else that there is one of per blob.
Two(f, b, v, c, w) == [f EXCEPT ![b] = v, ![c] = w]

LEMMA TwoIs ==
  ASSUME NEW S, NEW f \in [Guard!Holders -> S], NEW b \in Guard!Holders, NEW c \in Guard!Holders, b # c,
         NEW v \in S, NEW w \in S, NEW f2, f2 = Two(f, b, v, c, w)
  PROVE  f2 \in [Guard!Holders -> S] /\ Changes(f, b, v, c, w, f2)
  BY DEF Two, Changes

LEMMA OneIs ==
  ASSUME NEW S, NEW f \in [Guard!Holders -> S], NEW b \in Guard!Holders,
         NEW v \in S, NEW f2, f2 = Put(f, b, v)
  PROVE  f2 \in [Guard!Holders -> S] /\ Changes(f, b, v, b, v, f2)
  BY DEF Put, Changes

LEMMA OneKept ==
  ASSUME NEW f \in [Guard!Holders -> SUBSET ObjectIds], NEW b \in Guard!Holders,
         NEW v \in SUBSET ObjectIds, NEW f2, f2 = Put(f, b, v)
  PROVE  f2 \in [Guard!Holders -> SUBSET ObjectIds] /\ Changes(f, b, v, b, v, f2)
  BY OneIs

LEMMA HeldChanges ==
  ASSUME NEW bl \in [Guard!Holders -> BlobRecords], NEW bl2 \in [Guard!Holders -> BlobRecords],
         NEW b \in Guard!Holders, NEW c \in Guard!Holders, NEW x, NEW y, Changes(bl, b, x, c, y, bl2)
  PROVE  Changes(Held(bl), b, x.guard, c, y.guard, Held(bl2))
  <1>1. PICK f : f = Held(bl) /\ \A d \in Guard!Holders : f[d] = bl[d].guard
    BY HeldIs
  <1>2. PICK f2 : f2 = Held(bl2) /\ \A d \in Guard!Holders : f2[d] = bl2[d].guard
    BY HeldIs
  <1>3. Changes(f, b, x.guard, c, y.guard, f2)
    BY <1>1, <1>2 DEF Changes
  <1> QED BY <1>1, <1>2, <1>3

\* What holds before a step.
LEMMA BlobsSay ==
  ASSUME GuardAssumption, NEW h, NEW bl, NEW ks, BlobsOk(h, bl, ks)
  PROVE  /\ bl \in [Guard!Holders -> BlobRecords] /\ ks \in [Guard!Holders -> SUBSET ObjectIds]
         /\ h \in Heaps /\ Held(bl) \in [Guard!Holders -> AllGuards]
         /\ \A b \in Guard!Holders : Held(bl)[b] = bl[b].guard /\ bl[b].guard \in AllGuards /\ bl[b].size \in Int
  BY HeldIs DEF BlobsOk, Ok, OkTyped

\* What has to be shown of a step.
LEMMA BlobsOkIf ==
  ASSUME GuardAssumption, NEW h, NEW bl, NEW ks, NEW h2,
         NEW bl2 \in [Guard!Holders -> BlobRecords], NEW ks2 \in [Guard!Holders -> SUBSET ObjectIds],
         ArenaOk(bl2[Arena]), Ok(h2, Held(bl2), ks2)
  PROVE  BlobsOk(h2, bl2, ks2)
  BY DEF BlobsOk

\* A step that leaves the arena alone.
LEMMA ArenaKept ==
  ASSUME GuardAssumption, NEW h, NEW bl, NEW ks, BlobsOk(h, bl, ks), NEW b \in Slots, NEW c \in Slots,
         NEW x, NEW y, NEW bl2, Changes(bl, b, x, c, y, bl2)
  PROVE  ArenaOk(bl2[Arena])
  BY HoldersAre DEF BlobsOk, Changes

LEMMA NewObjectIs ==
  ASSUME GuardAssumption, Guard!MayAllocate
  PROVE  Guard!NewObject \in ObjectIds /\ heap.freed[Guard!NewObject] # 0
  <1>1. PICK T : T = Guard!Unallocated
    OBVIOUS
  <1>2. T # {} /\ T \subseteq Nat /\ \A i \in T : i \in ObjectIds /\ heap.freed[i] # 0
    BY <1>1 DEF Guard!Unallocated, Guard!MayAllocate, ObjectIds, GuardAssumption
  <1>3. \E m \in T : \A n \in T : m <= n
    BY <1>2, LeastLength
  <1>4. Guard!NewObject \in T
    BY <1>1, <1>3 DEF Guard!NewObject
  <1> QED BY <1>2, <1>4

\* An unused impl is left when guards are released or memory is allocated.
LEMMA StillUnused ==
  ASSUME NEW h, NEW h2, Live(h2) \subseteq Live(h), Guard!Unused(h) # {}, h2 \in Heaps
  PROVE  Guard!Unused(h2) # {}
  BY DEF Live, Guard!Unused, ImplIds

LEMMA FreeIs ==
  ASSUME GuardAssumption, NEW b, Guard!Free(b)
  PROVE  b \in Slots /\ blobs[b].guard = Guard!Null
  BY NoBlobIs DEF Guard!Free

----------------------------------------------------------------------------

LEMMA DestroyInvariant ==
  ASSUME GuardAssumption, GuardInv, NEW b \in Guard!Holders, Guard!Destroy(b)
  PROVE  GuardInv'
  <1>1. BlobsOk(heap, blobs, kept)
    BY DEF GuardInv
  <1>2. /\ blobs \in [Guard!Holders -> BlobRecords] /\ kept \in [Guard!Holders -> SUBSET ObjectIds]
        /\ heap \in Heaps /\ Held(blobs)[b] = blobs[b].guard
    BY <1>1, BlobsSay
  <1>3. /\ heap' = Guard!Released(heap, Held(blobs)[b])
        /\ blobs' = Put(blobs, b, Guard!NoBlob)
        /\ kept' = Put(kept, b, {})
    BY <1>2 DEF Guard!Destroy, Put
  <1>4. blobs' \in [Guard!Holders -> BlobRecords] /\ Changes(blobs, b, Guard!NoBlob, b, Guard!NoBlob, blobs')
    BY <1>2, <1>3, NoBlobIs, OneIs
  <1>5. kept' \in [Guard!Holders -> SUBSET ObjectIds] /\ Changes(kept, b, {}, b, {}, kept')
    BY <1>2, <1>3, OneKept
  <1>6. Changes(Held(blobs), b, Guard!Null, b, Guard!Null, Held(blobs'))
    BY <1>2, <1>4, NoBlobIs, HeldChanges
  <1>7. OkTyped(heap, Held(blobs'))
    BY <1>2, <1>4, HeldIs DEF OkTyped
  <1>8. Ok(heap', Held(blobs'), kept')
    <2>1. Ok(heap, Held(blobs), kept)
      BY <1>1 DEF BlobsOk
    <2> QED BY <1>3, <1>5, <1>6, <1>7, <2>1, OkRelease
  <1>9. ArenaOk(blobs'[Arena])
    <2>1. CASE b = Arena
      <3>1. blobs'[Arena] = Guard!NoBlob
        BY <1>4, <2>1 DEF Changes
      <3> QED BY <3>1, NoBlobIs DEF ArenaOk, GuardAssumption
    <2>2. CASE b # Arena
      BY <1>1, <1>4, <2>2, HoldersAre DEF Changes, BlobsOk
    <2> QED BY <2>1, <2>2
  <1>10. BlobsOk(heap', blobs', kept')
    BY <1>4, <1>5, <1>8, <1>9, BlobsOkIf
  <1> QED BY <1>10 DEF GuardInv

LEMMA MakeSimpleInvariant ==
  ASSUME GuardAssumption, GuardInv, NEW b \in Slots, NEW n \in BlobSizes, Guard!MakeSimple(b, n)
  PROVE  GuardInv'
  <1>1. BlobsOk(heap, blobs, kept)
    BY DEF GuardInv
  <1>2. /\ blobs \in [Guard!Holders -> BlobRecords] /\ kept \in [Guard!Holders -> SUBSET ObjectIds]
        /\ b \in Guard!Holders /\ heap \in Heaps /\ Held(blobs)[b] = Guard!Null
    <2>1. blobs[b].guard = Guard!Null
      BY FreeIs DEF Guard!MakeSimple
    <2> QED BY <1>1, <2>1, BlobsSay, HoldersAre
  <1>3. PICK o : o = Guard!NewObject
    OBVIOUS
  <1>4. o \in ObjectIds /\ heap.freed[o] # 0 /\ {o} \in SUBSET ObjectIds
    BY <1>3, NewObjectIs DEF Guard!MakeSimple
  <1>5. PICK x : x = [size |-> n, guard |-> Guard!Raw(o)]
    OBVIOUS
  <1>6. x \in BlobRecords /\ x.guard = Guard!Raw(o)
    <2>1. n \in Int /\ Guard!Raw(o) \in AllGuards
      BY <1>4, GuardIn DEF GuardAssumption
    <2> QED BY <1>5, <2>1 DEF BlobRecords
  <1>7. /\ heap' = [heap EXCEPT !.freed[o] = 0] /\ blobs' = Put(blobs, b, x) /\ kept' = Put(kept, b, {o})
    BY <1>3, <1>5 DEF Guard!MakeSimple, Guard!WithObject, Put
  <1>8. blobs' \in [Guard!Holders -> BlobRecords] /\ Changes(blobs, b, x, b, x, blobs')
    BY <1>2, <1>6, <1>7, OneIs
  <1>9. kept' \in [Guard!Holders -> SUBSET ObjectIds] /\ Changes(kept, b, {o}, b, {o}, kept')
    BY <1>2, <1>4, <1>7, OneIs
  <1>10. Changes(Held(blobs), b, Guard!Raw(o), b, Guard!Raw(o), Held(blobs'))
    BY <1>2, <1>6, <1>8, HeldChanges
  <1>11. OkTyped(heap, Held(blobs'))
    BY <1>2, <1>8, HeldIs DEF OkTyped
  <1>12. Ok(heap', Held(blobs'), kept')
    <2>1. Ok(heap, Held(blobs), kept)
      BY <1>1 DEF BlobsOk
    <2> QED BY <1>2, <1>4, <1>7, <1>9, <1>10, <1>11, <2>1, OkAllocate
  <1>13. ArenaOk(blobs'[Arena])
    BY <1>1, <1>8, ArenaKept
  <1>14. BlobsOk(heap', blobs', kept')
    BY <1>8, <1>9, <1>12, <1>13, BlobsOkIf
  <1> QED BY <1>14 DEF GuardInv

Blob(n, g) == [size |-> n, guard |-> g]

LEMMA BlobIs ==
  ASSUME NEW n \in Int, NEW g \in AllGuards
  PROVE  Blob(n, g) \in BlobRecords /\ Blob(n, g).guard = g /\ Blob(n, g).size = n
  BY DEF Blob, BlobRecords

LEMMA MakeObjectInvariant ==
  ASSUME GuardAssumption, GuardInv, NEW b \in Slots, NEW n \in BlobSizes, Guard!MakeObject(b, n)
  PROVE  GuardInv'
  <1>1. BlobsOk(heap, blobs, kept)
    BY DEF GuardInv
  <1>2. /\ blobs \in [Guard!Holders -> BlobRecords] /\ kept \in [Guard!Holders -> SUBSET ObjectIds]
        /\ b \in Guard!Holders /\ heap \in Heaps /\ Held(blobs)[b] = Guard!Null
        /\ Held(blobs) \in [Guard!Holders -> AllGuards]
    <2>1. blobs[b].guard = Guard!Null
      BY FreeIs DEF Guard!MakeObject
    <2> QED BY <1>1, <2>1, BlobsSay, HoldersAre
  <1>3. PICK o : o = Guard!NewObject
    OBVIOUS
  <1>4. o \in ObjectIds /\ heap.freed[o] # 0 /\ Guard!Raw(o) \in AllGuards /\ {o} \in SUBSET ObjectIds
    BY <1>3, NewObjectIs, GuardIn DEF Guard!MakeObject
  <1>5. PICK k : k = Guard!NewImpl(heap)
    OBVIOUS
  <1>6. k \in ImplIds /\ heap.impls[k].refs = 0 /\ Guard!Impl(k) \in AllGuards
    BY <1>5, NewImplIs, GuardIn DEF Guard!MakeObject, Guard!MayShare
  <1>7. PICK h1 : h1 = [heap EXCEPT !.freed[o] = 0]
    OBVIOUS
  <1>8. PICK x : x = [size |-> n, guard |-> Guard!Impl(k)]
    OBVIOUS
  <1>9. x \in BlobRecords /\ x.guard = Guard!Impl(k)
    <2>1. n \in Int
      BY DEF GuardAssumption
    <2> QED BY <1>6, <1>8, <2>1, BlobIs DEF Blob
  <1>10. /\ heap' = [h1 EXCEPT !.impls[k] = [refs |-> 1, next |-> Guard!Null, owns |-> Guard!Raw(o)]]
         /\ blobs' = Put(blobs, b, x) /\ kept' = Put(kept, b, {o})
    BY <1>3, <1>5, <1>7, <1>8 DEF Guard!MakeObject, Guard!WithObject, Put
  <1>11. blobs' \in [Guard!Holders -> BlobRecords] /\ Changes(blobs, b, x, b, x, blobs')
    BY <1>2, <1>9, <1>10, OneIs
  <1>12. kept' \in [Guard!Holders -> SUBSET ObjectIds] /\ Changes(kept, b, {o}, b, {o}, kept')
    BY <1>2, <1>4, <1>10, OneIs
  <1>13. PICK g1 : g1 = Put(Held(blobs), b, Guard!Raw(o))
    OBVIOUS
  <1>14. g1 \in [Guard!Holders -> AllGuards] /\ Changes(Held(blobs), b, Guard!Raw(o), b, Guard!Raw(o), g1)
    BY <1>2, <1>4, <1>13, OneIs
  <1>15. OkTyped(heap, g1)
    BY <1>2, <1>14 DEF OkTyped
  <1>25. h1.impls = heap.impls
    BY <1>2, <1>4, <1>7, FreedEdited
  <1>16. Ok(h1, g1, kept')
    <2>1. Ok(heap, Held(blobs), kept)
      BY <1>1 DEF BlobsOk
    <2>2. /\ b \in Guard!Holders /\ Held(blobs)[b] = Guard!Null /\ o \in ObjectIds /\ heap.freed[o] # 0
          /\ Changes(Held(blobs), b, Guard!Raw(o), b, Guard!Raw(o), g1) /\ Changes(kept, b, {o}, b, {o}, kept')
      BY <1>2, <1>4, <1>12, <1>14
    <2> QED BY <1>7, <1>15, <2>1, <2>2, OkAllocate
  <1>17. h1 \in Heaps /\ h1.impls[k].refs = 0 /\ g1[b] = Guard!Raw(o)
    BY <1>6, <1>14, <1>16, <1>25 DEF Ok, OkTyped, Changes
  <1>18. Edits(h1, k, 1, Guard!Null, g1[b], heap')
    BY <1>4, <1>6, <1>10, <1>17, GuardIn, ImplEdited
  <1>19. Changes(Held(blobs), b, Guard!Impl(k), b, Guard!Impl(k), Held(blobs'))
    BY <1>2, <1>9, <1>11, HeldChanges
  <1>20. Changes(g1, b, Guard!Impl(k), b, Guard!Impl(k), Held(blobs'))
    BY <1>14, <1>19 DEF Changes
  <1>21. OkTyped(h1, Held(blobs'))
    BY <1>11, <1>17, HeldIs DEF OkTyped
  <1>22. Ok(heap', Held(blobs'), kept')
    BY <1>2, <1>6, <1>16, <1>17, <1>18, <1>20, <1>21, OkNewImpl
  <1>23. ArenaOk(blobs'[Arena])
    BY <1>1, <1>11, ArenaKept
  <1>24. BlobsOk(heap', blobs', kept')
    BY <1>11, <1>12, <1>22, <1>23, BlobsOkIf
  <1> QED BY <1>24 DEF GuardInv

\* Blobs b and c share the guard that b had.
Shares(b, m, c, n) ==
  LET r == Guard!Shared(heap, blobs[b].guard)
  IN  /\ heap' = r.heap
      /\ blobs' = Two(blobs, b, Blob(m, r.guard), c, Blob(n, r.guard))
      /\ kept' = Put(kept, c, kept[b])

LEMMA SharesInvariant ==
  ASSUME GuardAssumption, GuardInv, NEW b \in Slots, NEW c \in Slots, b # c, blobs[c].guard = Guard!Null,
         Guard!MayShare, NEW m \in Int, NEW n \in Int, Shares(b, m, c, n)
  PROVE  GuardInv'
  <1>1. BlobsOk(heap, blobs, kept)
    BY DEF GuardInv
  <1>2. /\ blobs \in [Guard!Holders -> BlobRecords] /\ kept \in [Guard!Holders -> SUBSET ObjectIds]
        /\ b \in Guard!Holders /\ c \in Guard!Holders /\ heap \in Heaps
        /\ Held(blobs)[b] = blobs[b].guard /\ blobs[b].guard \in AllGuards /\ Held(blobs)[c] = Guard!Null
    BY <1>1, BlobsSay, HoldersAre
  <1>3. Guard!Unused(heap) # {}
    BY DEF Guard!MayShare
  <1>4. PICK r : r = Guard!Shared(heap, Held(blobs)[b])
    OBVIOUS
  <1>5. r.guard \in AllGuards
    BY <1>2, <1>3, <1>4, SharedType
  <1>6. PICK x, y : x = Blob(m, r.guard) /\ y = Blob(n, r.guard)
    OBVIOUS
  <1>7. x \in BlobRecords /\ y \in BlobRecords /\ x.guard = r.guard /\ y.guard = r.guard
    BY <1>5, <1>6, BlobIs
  <1>8. heap' = r.heap /\ blobs' = Two(blobs, b, x, c, y) /\ kept' = Put(kept, c, kept[b])
    BY <1>2, <1>4, <1>6 DEF Shares
  <1>9. blobs' \in [Guard!Holders -> BlobRecords] /\ Changes(blobs, b, x, c, y, blobs')
    BY <1>2, <1>7, <1>8 DEF Two, Changes
  <1>10. kept' \in [Guard!Holders -> SUBSET ObjectIds] /\ Changes(kept, c, kept[b], c, kept[b], kept')
    <2>1. kept[b] \in SUBSET ObjectIds
      BY <1>2
    <2> QED BY <1>2, <1>8, <2>1, OneKept
  <1>11. Changes(kept, b, kept[b], c, kept[b], kept')
    BY <1>2, <1>10 DEF Changes
  <1>12. Changes(Held(blobs), b, r.guard, c, r.guard, Held(blobs'))
    BY <1>2, <1>7, <1>9, HeldChanges
  <1>13. OkTyped(heap, Held(blobs'))
    BY <1>2, <1>9, HeldIs DEF OkTyped
  <1>14. Ok(r.heap, Held(blobs'), kept')
    <2>1. Ok(heap, Held(blobs), kept)
      BY <1>1 DEF BlobsOk
    <2>2. b \in Guard!Holders /\ c \in Guard!Holders /\ b # c /\ Held(blobs)[c] = Guard!Null
      BY <1>2
    <2> QED BY <1>3, <1>4, <1>11, <1>12, <1>13, <2>1, <2>2, OkShare
  <1>15. ArenaOk(blobs'[Arena])
    BY <1>1, <1>9, ArenaKept
  <1>16. BlobsOk(heap', blobs', kept')
    BY <1>8, <1>9, <1>10, <1>14, <1>15, BlobsOkIf
  <1> QED BY <1>16 DEF GuardInv

\* The guard of a blob changes, and not its size.
Reguard(bl, b, g, c, y) == [bl EXCEPT ![b].guard = g, ![c] = y]

LEMMA GuardPut ==
  ASSUME NEW bl \in [Guard!Holders -> BlobRecords], NEW b \in Guard!Holders, NEW g,
         NEW c \in Guard!Holders, b # c, NEW y
  PROVE  Reguard(bl, b, g, c, y) = Two(bl, b, Blob(bl[b].size, g), c, y)
  <1>1. bl[b] \in BlobRecords
    OBVIOUS
  <1>2. [bl[b] EXCEPT !.guard = g] = Blob(bl[b].size, g)
    BY <1>1 DEF Blob, BlobRecords
  <1>3. PICK x : x = Blob(bl[b].size, g)
    OBVIOUS
  <1>4. Reguard(bl, b, g, c, y) = [[bl EXCEPT ![b] = x] EXCEPT ![c] = y]
    BY <1>2, <1>3 DEF Reguard
  <1> QED BY <1>3, <1>4 DEF Two

LEMMA SharedWithInvariant ==
  ASSUME GuardAssumption, GuardInv, NEW b \in Slots, NEW c \in Slots, b # c, Guard!Free(c), NEW n \in Int,
         Guard!SharedWith(b, c, n)
  PROVE  GuardInv'
  <1>1. BlobsOk(heap, blobs, kept)
    BY DEF GuardInv
  <1>2. /\ blobs \in [Guard!Holders -> BlobRecords] /\ b \in Guard!Holders /\ c \in Guard!Holders
        /\ blobs[b].size \in Int
    BY <1>1, BlobsSay, HoldersAre
  <1>3. PICK r : r = Guard!Shared(heap, blobs[b].guard)
    OBVIOUS
  <1>4. /\ Guard!MayShare /\ heap' = r.heap
        /\ blobs' = Reguard(blobs, b, r.guard, c, Blob(n, r.guard))
        /\ kept' = Put(kept, c, kept[b])
    BY <1>3 DEF Guard!SharedWith, Blob, Put, Reguard
  <1>5. blobs' = Two(blobs, b, Blob(blobs[b].size, r.guard), c, Blob(n, r.guard))
    BY <1>2, <1>4, GuardPut
  <1>6. Shares(b, blobs[b].size, c, n)
    BY <1>3, <1>4, <1>5 DEF Shares
  <1>7. blobs[c].guard = Guard!Null
    BY FreeIs
  <1> QED BY <1>2, <1>4, <1>6, <1>7, SharesInvariant

LEMMA CloneInvariant ==
  ASSUME GuardAssumption, GuardInv, NEW b \in Slots, NEW c \in Slots, Guard!Clone(b, c)
  PROVE  GuardInv'
  <1>1. b # c /\ Guard!Free(c) /\ Guard!SharedWith(b, c, blobs[b].size)
    BY DEF Guard!Clone
  <1>2. blobs[b].size \in Int
    BY BlobsSay, HoldersAre DEF GuardInv
  <1> QED BY <1>1, <1>2, SharedWithInvariant

LEMMA ShareInvariant ==
  ASSUME GuardAssumption, GuardInv, NEW b \in Slots, NEW c \in Slots, NEW offset \in Int, NEW n \in Int,
         Guard!Share(b, c, offset, n)
  PROVE  GuardInv'
  <1>1. blobs[b].size \in Int
    BY BlobsSay, HoldersAre DEF GuardInv
  <1>2. PICK m : m = IF n < blobs[b].size - offset THEN n ELSE blobs[b].size - offset
    OBVIOUS
  <1>3. m \in Int
    BY <1>1, <1>2
  <1>4. b # c /\ Guard!Free(c) /\ Guard!SharedWith(b, c, m)
    BY <1>2 DEF Guard!Share
  <1> QED BY <1>3, <1>4, SharedWithInvariant

\* Blob c is given the guard of b, and had none.
LEMMA MovesInvariant ==
  ASSUME GuardAssumption, GuardInv, NEW b \in Slots, NEW c \in Slots, b # c, blobs[c].guard = Guard!Null,
         heap' = heap, blobs' = Two(blobs, c, blobs[b], b, Guard!NoBlob), kept' = Two(kept, c, kept[b], b, {})
  PROVE  GuardInv'
  <1>1. BlobsOk(heap, blobs, kept)
    BY DEF GuardInv
  <1>2. /\ blobs \in [Guard!Holders -> BlobRecords] /\ kept \in [Guard!Holders -> SUBSET ObjectIds]
        /\ b \in Guard!Holders /\ c \in Guard!Holders /\ heap \in Heaps
        /\ Held(blobs)[b] = blobs[b].guard /\ Held(blobs)[c] = Guard!Null
    BY <1>1, BlobsSay, HoldersAre
  <1>3. blobs' \in [Guard!Holders -> BlobRecords] /\ Changes(blobs, c, blobs[b], b, Guard!NoBlob, blobs')
    BY <1>2, NoBlobIs, TwoIs
  <1>4. kept' \in [Guard!Holders -> SUBSET ObjectIds] /\ Changes(kept, c, kept[b], b, {}, kept')
    <2>1. PICK S : S = SUBSET ObjectIds
      OBVIOUS
    <2>2. kept \in [Guard!Holders -> S] /\ kept[b] \in S /\ {} \in S
      BY <1>2, <2>1
    <2>3. kept' \in [Guard!Holders -> S] /\ Changes(kept, c, kept[b], b, {}, kept')
      BY <1>2, <2>2, TwoIs
    <2> QED BY <2>1, <2>3
  <1>5. Changes(Held(blobs), c, blobs[b].guard, b, Guard!NoBlob.guard, Held(blobs'))
    BY <1>2, <1>3, HeldChanges
  <1>6. Changes(Held(blobs), b, Guard!Null, c, Held(blobs)[b], Held(blobs'))
    BY <1>2, <1>5, NoBlobIs DEF Changes
  <1>7. Changes(kept, b, {}, c, kept[b], kept')
    BY <1>4 DEF Changes
  <1>8. OkTyped(heap, Held(blobs'))
    BY <1>2, <1>3, HeldIs DEF OkTyped
  <1>9. Ok(heap, Held(blobs'), kept')
    <2>1. Ok(heap, Held(blobs), kept)
      BY <1>1 DEF BlobsOk
    <2>2. b \in Guard!Holders /\ c \in Guard!Holders /\ b # c /\ Held(blobs)[c] = Guard!Null
      BY <1>2
    <2> QED BY <1>6, <1>7, <1>8, <2>1, <2>2, OkMove
  <1>10. ArenaOk(blobs'[Arena])
    BY <1>1, <1>3, ArenaKept
  <1>11. BlobsOk(heap', blobs', kept')
    BY <1>3, <1>4, <1>9, <1>10, BlobsOkIf
  <1> QED BY <1>11 DEF GuardInv

LEMMA SplitInvariant ==
  ASSUME GuardAssumption, GuardInv, NEW b \in Slots, NEW c \in Slots, NEW offset \in Int, Guard!Split(b, c, offset)
  PROVE  GuardInv'
  <1>1. blobs[b].size \in Int /\ blobs[b].size - offset \in Int
    BY BlobsSay, HoldersAre DEF GuardInv
  <1>2. b # c /\ blobs[c].guard = Guard!Null
    BY FreeIs DEF Guard!Split
  <1>3. CASE offset = 0
    <2>1. heap' = heap /\ blobs' = Two(blobs, c, blobs[b], b, Guard!NoBlob) /\ kept' = Two(kept, c, kept[b], b, {})
      BY <1>3 DEF Guard!Split, Two
    <2> QED BY <1>2, <2>1, MovesInvariant
  <1>4. CASE offset # 0
    <2>1. PICK r : r = Guard!Shared(heap, blobs[b].guard)
      OBVIOUS
    <2>2. /\ Guard!MayShare /\ heap' = r.heap
          /\ blobs' = Two(blobs, b, Blob(offset, r.guard), c, Blob(blobs[b].size - offset, r.guard))
          /\ kept' = Put(kept, c, kept[b])
      BY <1>4, <2>1 DEF Guard!Split, Two, Blob, Put
    <2>3. Shares(b, offset, c, blobs[b].size - offset)
      BY <2>1, <2>2 DEF Shares
    <2> QED BY <1>1, <1>2, <2>2, <2>3, SharesInvariant
  <1> QED BY <1>3, <1>4

\* The guard of c is released; its blob still has its size.
LEMMA ReleasedFirst ==
  ASSUME GuardAssumption, BlobsOk(heap, blobs, kept), NEW c \in Guard!Holders,
         NEW h1, h1 = Guard!Released(heap, blobs[c].guard),
         NEW g1, g1 = Put(Held(blobs), c, Guard!Null), NEW k1, k1 = Put(kept, c, {})
  PROVE  /\ Ok(h1, g1, k1) /\ h1 \in Heaps /\ Live(h1) \subseteq Live(heap)
         /\ g1 \in [Guard!Holders -> AllGuards] /\ Changes(Held(blobs), c, Guard!Null, c, Guard!Null, g1)
         /\ k1 \in [Guard!Holders -> SUBSET ObjectIds] /\ Changes(kept, c, {}, c, {}, k1)
  <1>1. /\ kept \in [Guard!Holders -> SUBSET ObjectIds] /\ heap \in Heaps
        /\ Held(blobs) \in [Guard!Holders -> AllGuards] /\ Held(blobs)[c] = blobs[c].guard
    BY BlobsSay
  <1>2. g1 \in [Guard!Holders -> AllGuards] /\ Changes(Held(blobs), c, Guard!Null, c, Guard!Null, g1)
    BY <1>1, GuardIn, OneIs
  <1>3. k1 \in [Guard!Holders -> SUBSET ObjectIds] /\ Changes(kept, c, {}, c, {}, k1)
    BY <1>1, OneKept
  <1>4. OkTyped(heap, g1)
    BY <1>1, <1>2 DEF OkTyped
  <1>5. Ok(heap, Held(blobs), kept)
    BY DEF BlobsOk
  <1>6. h1 = Guard!Released(heap, Held(blobs)[c])
    BY <1>1
  <1>7. Ok(h1, g1, k1) /\ Live(h1) \subseteq Live(heap)
    BY <1>2, <1>3, <1>4, <1>5, <1>6, OkRelease
  <1>8. h1 \in Heaps
    BY <1>7 DEF Ok, OkTyped
  <1> QED BY <1>2, <1>3, <1>7, <1>8

LEMMA CopyAssignInvariant ==
  ASSUME GuardAssumption, GuardInv, NEW b \in Slots, NEW c \in Slots, Guard!CopyAssign(b, c)
  PROVE  GuardInv'
  <1>1. BlobsOk(heap, blobs, kept)
    BY DEF GuardInv
  <1>2. /\ blobs \in [Guard!Holders -> BlobRecords] /\ kept \in [Guard!Holders -> SUBSET ObjectIds]
        /\ b \in Guard!Holders /\ c \in Guard!Holders /\ b # c
        /\ Held(blobs)[b] = blobs[b].guard /\ blobs[b].guard \in AllGuards /\ blobs[b].size \in Int
    BY <1>1, BlobsSay, HoldersAre DEF Guard!CopyAssign
  <1>3. PICK h1, g1, k1 : /\ h1 = Guard!Released(heap, blobs[c].guard)
                          /\ g1 = Put(Held(blobs), c, Guard!Null) /\ k1 = Put(kept, c, {})
    OBVIOUS
  <1>4. /\ Ok(h1, g1, k1) /\ h1 \in Heaps /\ Live(h1) \subseteq Live(heap)
        /\ Changes(Held(blobs), c, Guard!Null, c, Guard!Null, g1) /\ Changes(kept, c, {}, c, {}, k1)
    BY <1>1, <1>2, <1>3, ReleasedFirst
  <1>5. Guard!Unused(h1) # {}
    BY <1>4, StillUnused DEF Guard!CopyAssign, Guard!MayShare
  <1>6. g1[b] = blobs[b].guard /\ g1[c] = Guard!Null /\ k1[b] = kept[b]
    BY <1>2, <1>4 DEF Changes
  <1>7. PICK r : r = Guard!Shared(h1, g1[b])
    OBVIOUS
  <1>8. r.guard \in AllGuards
    BY <1>2, <1>5, <1>6, <1>7, SharedType
  <1>9. PICK x, y : x = Blob(blobs[b].size, r.guard) /\ y = Blob(blobs[b].size, r.guard)
    OBVIOUS
  <1>10. x \in BlobRecords /\ y \in BlobRecords /\ x.guard = r.guard /\ y.guard = r.guard
    BY <1>2, <1>8, <1>9, BlobIs
  <1>11. heap' = r.heap /\ blobs' = Reguard(blobs, b, r.guard, c, y) /\ kept' = Put(kept, c, kept[b])
    BY <1>3, <1>6, <1>7, <1>9 DEF Guard!CopyAssign, Reguard, Blob, Put
  <1>12. blobs' = Two(blobs, b, x, c, y)
    BY <1>2, <1>9, <1>11, GuardPut
  <1>13. blobs' \in [Guard!Holders -> BlobRecords] /\ Changes(blobs, b, x, c, y, blobs')
    BY <1>2, <1>10, <1>12 DEF Two, Changes
  <1>14. kept' \in [Guard!Holders -> SUBSET ObjectIds] /\ Changes(kept, c, kept[b], c, kept[b], kept')
    <2>1. kept[b] \in SUBSET ObjectIds
      BY <1>2
    <2> QED BY <1>2, <1>11, <2>1 DEF Put, Changes
  <1>15. Changes(k1, b, k1[b], c, k1[b], kept')
    BY <1>2, <1>4, <1>6, <1>14 DEF Changes
  <1>16. Changes(Held(blobs), b, r.guard, c, r.guard, Held(blobs'))
    BY <1>2, <1>10, <1>13, HeldChanges
  <1>17. Changes(g1, b, r.guard, c, r.guard, Held(blobs'))
    BY <1>4, <1>16 DEF Changes
  <1>18. OkTyped(h1, Held(blobs'))
    BY <1>4, <1>13, HeldIs DEF OkTyped
  <1>19. Ok(r.heap, Held(blobs'), kept')
    <2>1. b \in Guard!Holders /\ c \in Guard!Holders /\ b # c /\ g1[c] = Guard!Null /\ Ok(h1, g1, k1)
      BY <1>2, <1>4, <1>6
    <2> QED BY <1>5, <1>7, <1>15, <1>17, <1>18, <2>1, OkShare
  <1>20. ArenaOk(blobs'[Arena])
    BY <1>1, <1>13, ArenaKept
  <1>21. BlobsOk(heap', blobs', kept')
    BY <1>11, <1>13, <1>14, <1>19, <1>20, BlobsOkIf
  <1> QED BY <1>21 DEF GuardInv

LEMMA MoveAssignInvariant ==
  ASSUME GuardAssumption, GuardInv, NEW b \in Slots, NEW c \in Slots, Guard!MoveAssign(b, c)
  PROVE  GuardInv'
  <1>1. BlobsOk(heap, blobs, kept)
    BY DEF GuardInv
  <1>2. /\ blobs \in [Guard!Holders -> BlobRecords] /\ kept \in [Guard!Holders -> SUBSET ObjectIds]
        /\ b \in Guard!Holders /\ c \in Guard!Holders /\ b # c
        /\ Held(blobs)[b] = blobs[b].guard
    BY <1>1, BlobsSay, HoldersAre DEF Guard!MoveAssign
  <1>3. PICK h1, g1, k1 : /\ h1 = Guard!Released(heap, blobs[c].guard)
                          /\ g1 = Put(Held(blobs), c, Guard!Null) /\ k1 = Put(kept, c, {})
    OBVIOUS
  <1>4. /\ Ok(h1, g1, k1) /\ h1 \in Heaps
        /\ Changes(Held(blobs), c, Guard!Null, c, Guard!Null, g1) /\ Changes(kept, c, {}, c, {}, k1)
    BY <1>1, <1>2, <1>3, ReleasedFirst
  <1>5. g1[b] = blobs[b].guard /\ g1[c] = Guard!Null /\ k1[b] = kept[b]
    BY <1>2, <1>4 DEF Changes
  <1>6. heap' = h1 /\ blobs' = Two(blobs, c, blobs[b], b, Guard!NoBlob) /\ kept' = Two(kept, c, kept[b], b, {})
    BY <1>3 DEF Guard!MoveAssign, Two
  <1>7. blobs' \in [Guard!Holders -> BlobRecords] /\ Changes(blobs, c, blobs[b], b, Guard!NoBlob, blobs')
    BY <1>2, <1>6, NoBlobIs DEF Two, Changes
  <1>8. kept' \in [Guard!Holders -> SUBSET ObjectIds] /\ Changes(kept, c, kept[b], b, {}, kept')
    <2>1. PICK S : S = SUBSET ObjectIds
      OBVIOUS
    <2>2. kept \in [Guard!Holders -> S] /\ kept[b] \in S /\ {} \in S
      BY <1>2, <2>1
    <2>3. kept' \in [Guard!Holders -> S] /\ Changes(kept, c, kept[b], b, {}, kept')
      BY <1>2, <1>6, <2>2, TwoIs
    <2> QED BY <2>1, <2>3
  <1>9. Changes(Held(blobs), c, blobs[b].guard, b, Guard!NoBlob.guard, Held(blobs'))
    BY <1>2, <1>7, HeldChanges
  <1>10. Changes(g1, b, Guard!Null, c, g1[b], Held(blobs'))
    BY <1>2, <1>4, <1>5, <1>9, NoBlobIs DEF Changes
  <1>11. Changes(k1, b, {}, c, k1[b], kept')
    BY <1>4, <1>5, <1>8 DEF Changes
  <1>12. OkTyped(h1, Held(blobs'))
    BY <1>4, <1>7, HeldIs DEF OkTyped
  <1>13. Ok(h1, Held(blobs'), kept')
    <2>1. b \in Guard!Holders /\ c \in Guard!Holders /\ b # c /\ g1[c] = Guard!Null /\ Ok(h1, g1, k1)
      BY <1>2, <1>4, <1>5
    <2> QED BY <1>10, <1>11, <1>12, <2>1, OkMove
  <1>14. ArenaOk(blobs'[Arena])
    BY <1>1, <1>7, ArenaKept
  <1>15. BlobsOk(heap', blobs', kept')
    BY <1>6, <1>7, <1>8, <1>13, <1>14, BlobsOkIf
  <1> QED BY <1>15 DEF GuardInv

LEMMA AppendGuardInvariant ==
  ASSUME GuardAssumption, ~AppendsAnywhere, GuardInv, NEW b \in Slots, NEW c \in Slots,
         Guard!AppendGuard(b, c)
  PROVE  GuardInv'
  <1>1. BlobsOk(heap, blobs, kept)
    BY DEF GuardInv
  <1>2. /\ blobs \in [Guard!Holders -> BlobRecords] /\ kept \in [Guard!Holders -> SUBSET ObjectIds]
        /\ b \in Guard!Holders /\ c \in Guard!Holders /\ b # c /\ heap \in Heaps
        /\ Held(blobs)[b] = blobs[b].guard /\ blobs[b].guard \in AllGuards /\ blobs[b].size \in Int
        /\ Held(blobs)[c] = blobs[c].guard /\ blobs[c].guard \in AllGuards
    BY <1>1, BlobsSay, HoldersAre DEF Guard!AppendGuard
  <1>3. Guard!Unused(heap) # {} /\ Guard!Appendable(heap, Held(blobs)[b])
    BY <1>2 DEF Guard!AppendGuard, Guard!MayAppend, Guard!MayShare
  <1>4. PICK r : r = Guard!Appended(heap, Held(blobs)[b], Held(blobs)[c])
    OBVIOUS
  <1>5. r.guard \in AllGuards
    <2>1. Ok(heap, Held(blobs), kept)
      BY <1>1 DEF BlobsOk
    <2>2. Held(blobs)[c] \in AllGuards
      BY <1>2
    <2> QED BY <1>2, <1>3, <1>4, <2>1, <2>2, AppendedType
  <1>6. PICK x : x = Blob(blobs[b].size, r.guard)
    OBVIOUS
  <1>7. x \in BlobRecords /\ x.guard = r.guard
    BY <1>2, <1>5, <1>6, BlobIs
  <1>8. /\ heap' = r.heap /\ blobs' = Reguard(blobs, b, r.guard, c, Guard!NoBlob)
        /\ kept' = Two(kept, b, kept[b] \cup kept[c], c, {})
    BY <1>2, <1>4 DEF Guard!AppendGuard, Reguard, Two
  <1>9. blobs' = Two(blobs, b, x, c, Guard!NoBlob)
    BY <1>2, <1>6, <1>8, GuardPut
  <1>10. blobs' \in [Guard!Holders -> BlobRecords] /\ Changes(blobs, b, x, c, Guard!NoBlob, blobs')
    BY <1>2, <1>7, <1>9, NoBlobIs DEF Two, Changes
  <1>11. kept' \in [Guard!Holders -> SUBSET ObjectIds] /\ Changes(kept, b, kept[b] \cup kept[c], c, {}, kept')
    <2>1. PICK S : S = SUBSET ObjectIds
      OBVIOUS
    <2>2. kept \in [Guard!Holders -> S] /\ kept[b] \cup kept[c] \in S /\ {} \in S
      BY <1>2, <2>1
    <2>3. kept' \in [Guard!Holders -> S] /\ Changes(kept, b, kept[b] \cup kept[c], c, {}, kept')
      BY <1>2, <1>8, <2>2 DEF Two, Changes
    <2> QED BY <2>1, <2>3
  <1>12. Changes(Held(blobs), b, r.guard, c, Guard!Null, Held(blobs'))
    BY <1>2, <1>7, <1>10, NoBlobIs, HeldChanges
  <1>13. OkTyped(heap, Held(blobs'))
    BY <1>2, <1>10, HeldIs DEF OkTyped
  <1>14. Ok(r.heap, Held(blobs'), kept')
    <2>1. Ok(heap, Held(blobs), kept)
      BY <1>1 DEF BlobsOk
    <2>2. b \in Guard!Holders /\ c \in Guard!Holders /\ b # c
      BY <1>2
    <2> QED BY <1>3, <1>4, <1>11, <1>12, <1>13, <2>1, <2>2, OkAppend
  <1>15. ArenaOk(blobs'[Arena])
    BY <1>1, <1>10, ArenaKept
  <1>16. BlobsOk(heap', blobs', kept')
    BY <1>8, <1>10, <1>11, <1>14, <1>15, BlobsOkIf
  <1> QED BY <1>16 DEF GuardInv

----------------------------------------------------------------------------

LEMMA NewArenaIs ==
  ASSUME GuardAssumption, NEW o \in ObjectIds
  PROVE  /\ Guard!NewArena(o) \in BlobRecords /\ Guard!NewArena(o).guard = Guard!Raw(o)
         /\ Guard!NewArena(o).size = ArenaSize
  BY GuardIn DEF Guard!NewArena, BlobRecords, GuardAssumption

LEMMA ArenaGivenAwayInvariant ==
  ASSUME GuardAssumption, GuardInv, NEW b \in Slots, NEW n \in BlobSizes, Guard!Free(b), Guard!ArenaGivenAway(b, n)
  PROVE  GuardInv'
  <1>1. BlobsOk(heap, blobs, kept)
    BY DEF GuardInv
  <1>2. /\ blobs \in [Guard!Holders -> BlobRecords] /\ kept \in [Guard!Holders -> SUBSET ObjectIds]
        /\ b \in Guard!Holders /\ Arena \in Guard!Holders /\ b # Arena /\ heap \in Heaps
        /\ Held(blobs)[b] = blobs[b].guard /\ Held(blobs)[Arena] = blobs[Arena].guard
        /\ Held(blobs) \in [Guard!Holders -> AllGuards] /\ Held(blobs)[Arena] \in AllGuards
    BY <1>1, BlobsSay, HoldersAre
  <1>3. Held(blobs)[b] = Guard!Null
    BY <1>2, FreeIs
  <1>4. PICK o : o = Guard!NewObject
    OBVIOUS
  <1>5. o \in ObjectIds /\ heap.freed[o] # 0 /\ {o} \in SUBSET ObjectIds
    BY <1>4, NewObjectIs DEF Guard!ArenaGivenAway
  <1>6. PICK x : x = Guard!NewArena(o)
    OBVIOUS
  <1>7. x \in BlobRecords /\ x.guard = Guard!Raw(o) /\ x.size = ArenaSize
    BY <1>5, <1>6, NewArenaIs
  <1>8. /\ heap' = [heap EXCEPT !.freed[o] = 0]
        /\ blobs' = Two(blobs, b, blobs[Arena], Arena, x)
        /\ kept' = Two(kept, b, kept[Arena], Arena, {o})
    BY <1>4, <1>6 DEF Guard!ArenaGivenAway, Guard!WithObject, Two
  <1>9. blobs' \in [Guard!Holders -> BlobRecords] /\ Changes(blobs, b, blobs[Arena], Arena, x, blobs')
    BY <1>2, <1>7, <1>8 DEF Two, Changes
  <1>10. PICK S : S = SUBSET ObjectIds
    OBVIOUS
  <1>11. kept \in [Guard!Holders -> S] /\ kept[Arena] \in S /\ {} \in S /\ {o} \in S
    BY <1>2, <1>5, <1>10
  <1>12. kept' \in [Guard!Holders -> S] /\ Changes(kept, b, kept[Arena], Arena, {o}, kept')
    BY <1>2, <1>8, <1>11 DEF Two, Changes
  <1>13. PICK g1, k1 : /\ g1 = Two(Held(blobs), Arena, Guard!Null, b, Held(blobs)[Arena])
                       /\ k1 = Two(kept, Arena, {}, b, kept[Arena])
    OBVIOUS
  <1>14. g1 \in [Guard!Holders -> AllGuards]
         /\ Changes(Held(blobs), Arena, Guard!Null, b, Held(blobs)[Arena], g1)
    BY <1>2, <1>13, GuardIn DEF Two, Changes
  <1>15. k1 \in [Guard!Holders -> S] /\ Changes(kept, Arena, {}, b, kept[Arena], k1)
    BY <1>2, <1>11, <1>13 DEF Two, Changes
  <1>16. OkTyped(heap, g1)
    BY <1>2, <1>14 DEF OkTyped
  <1>17. Ok(heap, g1, k1)
    <2>1. Ok(heap, Held(blobs), kept)
      BY <1>1 DEF BlobsOk
    <2>2. b \in Guard!Holders /\ Arena \in Guard!Holders /\ Arena # b
      BY <1>2
    <2> QED BY <1>3, <1>14, <1>15, <1>16, <2>1, <2>2, OkMove
  <1>18. Changes(Held(blobs), b, blobs[Arena].guard, Arena, Guard!Raw(o), Held(blobs'))
    BY <1>2, <1>7, <1>9, HeldChanges
  <1>19. Changes(g1, Arena, Guard!Raw(o), Arena, Guard!Raw(o), Held(blobs')) /\ g1[Arena] = Guard!Null
    BY <1>2, <1>14, <1>18 DEF Changes
  <1>20. Changes(k1, Arena, {o}, Arena, {o}, kept')
    BY <1>2, <1>12, <1>15 DEF Changes
  <1>21. OkTyped(heap, Held(blobs'))
    BY <1>2, <1>9, HeldIs DEF OkTyped
  <1>22. Ok(heap', Held(blobs'), kept')
    <2>1. Arena \in Guard!Holders /\ o \in ObjectIds /\ heap.freed[o] # 0
      BY <1>2, <1>5
    <2> QED BY <1>8, <1>17, <1>19, <1>20, <1>21, <2>1, OkAllocate
  <1>23. ArenaOk(blobs'[Arena])
    <2>1. blobs'[Arena] = x
      BY <1>9 DEF Changes
    <2>2. blobs[Arena].size \in 0 .. ArenaSize /\ blobs[Arena].size > 0
      BY <1>1 DEF BlobsOk, ArenaOk, Guard!ArenaGivenAway
    <2>3. ArenaSize \in Nat /\ ArenaSize # 0
      BY <2>2 DEF GuardAssumption
    <2> QED BY <1>7, <2>1, <2>3 DEF ArenaOk
  <1>24. BlobsOk(heap', blobs', kept')
    BY <1>9, <1>10, <1>12, <1>22, <1>23, BlobsOkIf
  <1> QED BY <1>24 DEF GuardInv

\* Blob b is a copy of arena a, and the arena goes on with what is left.
ArenaCopied(h1, a, K, b, n) ==
  LET r    == Guard!Shared(h1, a.guard)
      used == n >= a.size
  IN  /\ heap' = IF used THEN Guard!Released(r.heap, r.guard) ELSE r.heap
      /\ blobs' = Two(blobs, b, Blob(a.size, r.guard), Arena,
                      IF used THEN Guard!NoBlob ELSE Blob(a.size - n, r.guard))
      /\ kept' = Two(kept, b, K, Arena, IF used THEN {} ELSE K)

LEMMA ArenaCopiedInvariant ==
  ASSUME GuardAssumption, BlobsOk(heap, blobs, kept), NEW b \in Slots, blobs[b].guard = Guard!Null,
         NEW h1, NEW g1, NEW k1, Ok(h1, g1, k1), Guard!Unused(h1) # {},
         NEW a \in BlobRecords, a.size \in 0 .. ArenaSize, NEW K \in SUBSET ObjectIds, NEW n \in Nat,
         Changes(Held(blobs), Arena, a.guard, Arena, a.guard, g1), Changes(kept, Arena, K, Arena, K, k1),
         ArenaCopied(h1, a, K, b, n)
  PROVE  BlobsOk(heap', blobs', kept')
  <1>1. /\ blobs \in [Guard!Holders -> BlobRecords] /\ kept \in [Guard!Holders -> SUBSET ObjectIds]
        /\ b \in Guard!Holders /\ Arena \in Guard!Holders /\ b # Arena
        /\ Held(blobs)[b] = Guard!Null
    BY BlobsSay, HoldersAre
  <1>2. h1 \in Heaps /\ g1[Arena] = a.guard /\ g1[b] = Guard!Null /\ k1[Arena] = K /\ a.guard \in AllGuards
        /\ g1 \in [Guard!Holders -> AllGuards]
    BY <1>1 DEF Changes, Ok, OkTyped, BlobRecords
  <1>3. PICK r : r = Guard!Shared(h1, g1[Arena])
    OBVIOUS
  <1>4. r.guard \in AllGuards
    BY <1>2, <1>3, SharedType
  <1>5. PICK x : x = Blob(a.size, r.guard)
    OBVIOUS
  <1>6. a.size \in Int /\ a.size - n \in Int
    BY DEF GuardAssumption
  <1>7. x \in BlobRecords /\ x.guard = r.guard
    BY <1>4, <1>5, <1>6, BlobIs
  \* They share the guard.
  <1>8. PICK g2 : g2 = [d \in Guard!Holders |-> IF d \in {b, Arena} THEN r.guard ELSE g1[d]]
    OBVIOUS
  <1>9. PICK k2 : k2 = [d \in Guard!Holders |-> IF d \in {b, Arena} THEN K ELSE kept[d]]
    OBVIOUS
  <1>10. g2 \in [Guard!Holders -> AllGuards] /\ Changes(g1, Arena, r.guard, b, r.guard, g2)
    BY <1>1, <1>2, <1>4, <1>8 DEF Changes
  <1>11. k2 \in [Guard!Holders -> SUBSET ObjectIds] /\ Changes(kept, b, K, Arena, K, k2)
    BY <1>1, <1>9 DEF Changes
  <1>12. Changes(k1, Arena, k1[Arena], b, k1[Arena], k2)
    BY <1>2, <1>11 DEF Changes
  <1>13. OkTyped(h1, g2)
    BY <1>2, <1>10 DEF OkTyped
  <1>14. Ok(r.heap, g2, k2)
    <2>1. b \in Guard!Holders /\ Arena \in Guard!Holders /\ Arena # b /\ g1[b] = Guard!Null
      BY <1>1, <1>2
    <2>2. Changes(g1, Arena, r.guard, b, r.guard, g2)
      BY <1>10
    <2> QED BY <1>3, <1>12, <1>13, <2>1, <2>2, OkShare
  <1>15. CASE ~(n >= a.size)
    <2>1. PICK y : y = Blob(a.size - n, r.guard)
      OBVIOUS
    <2>2. y \in BlobRecords /\ y.guard = r.guard /\ y.size = a.size - n
      BY <1>4, <1>6, <2>1, BlobIs
    <2>3. heap' = r.heap /\ blobs' = Two(blobs, b, x, Arena, y) /\ kept' = Two(kept, b, K, Arena, K)
      BY <1>2, <1>3, <1>5, <1>15, <2>1 DEF ArenaCopied
    <2>4. blobs' \in [Guard!Holders -> BlobRecords] /\ Changes(blobs, b, x, Arena, y, blobs')
      BY <1>1, <1>7, <2>2, <2>3 DEF Two, Changes
    <2>5. kept' \in [Guard!Holders -> SUBSET ObjectIds] /\ Changes(kept, b, K, Arena, K, kept')
      BY <1>1, <2>3 DEF Two, Changes
    <2>6. Changes(Held(blobs), b, r.guard, Arena, r.guard, Held(blobs'))
      BY <1>1, <1>7, <2>2, <2>4, HeldChanges
    <2>7. \A d \in Guard!Holders : Held(blobs')[d] = g2[d] /\ kept'[d] = k2[d]
      BY <1>10, <1>11, <2>5, <2>6 DEF Changes
    <2>8. r.heap \in Heaps
      BY <1>14 DEF Ok, OkTyped
    <2>9. OkTyped(r.heap, Held(blobs'))
      BY <2>4, <2>8, HeldIs DEF OkTyped
    <2>10. Ok(r.heap, Held(blobs'), kept')
      BY <1>14, <2>7, <2>9, OkSame
    <2>11. ArenaOk(blobs'[Arena])
      <3>1. blobs'[Arena] = y
        BY <2>4 DEF Changes
      <3>2. a.size - n \in 0 .. ArenaSize /\ a.size - n # 0
        BY <1>15 DEF GuardAssumption
      <3> QED BY <2>2, <3>1, <3>2 DEF ArenaOk
    <2> QED BY <2>3, <2>4, <2>5, <2>10, <2>11, BlobsOkIf
  <1>16. CASE n >= a.size
    <2>1. heap' = Guard!Released(r.heap, r.guard) /\ blobs' = Two(blobs, b, x, Arena, Guard!NoBlob)
          /\ kept' = Two(kept, b, K, Arena, {})
      BY <1>2, <1>3, <1>5, <1>16 DEF ArenaCopied
    <2>2. blobs' \in [Guard!Holders -> BlobRecords] /\ Changes(blobs, b, x, Arena, Guard!NoBlob, blobs')
      BY <1>1, <1>7, <2>1, NoBlobIs DEF Two, Changes
    <2>3. kept' \in [Guard!Holders -> SUBSET ObjectIds] /\ Changes(kept, b, K, Arena, {}, kept')
      BY <1>1, <2>1 DEF Two, Changes
    <2>4. Changes(Held(blobs), b, r.guard, Arena, Guard!Null, Held(blobs'))
      BY <1>1, <1>7, <2>2, NoBlobIs, HeldChanges
    <2>5. Changes(g2, Arena, Guard!Null, Arena, Guard!Null, Held(blobs')) /\ g2[Arena] = r.guard
      BY <1>1, <1>10, <2>4 DEF Changes
    <2>6. Changes(k2, Arena, {}, Arena, {}, kept')
      BY <1>1, <1>11, <2>3 DEF Changes
    <2>7. r.heap \in Heaps
      BY <1>14 DEF Ok, OkTyped
    <2>8. OkTyped(r.heap, Held(blobs'))
      BY <2>2, <2>7, HeldIs DEF OkTyped
    <2>9. Ok(Guard!Released(r.heap, g2[Arena]), Held(blobs'), kept')
      BY <1>1, <1>14, <2>5, <2>6, <2>8, OkRelease
    <2>10. Ok(heap', Held(blobs'), kept')
      BY <2>1, <2>5, <2>9
    <2>11. ArenaOk(blobs'[Arena])
      <3>1. blobs'[Arena] = Guard!NoBlob
        BY <2>2 DEF Changes
      <3> QED BY <3>1, NoBlobIs DEF ArenaOk, GuardAssumption
    <2> QED BY <2>2, <2>3, <2>10, <2>11, BlobsOkIf
  <1> QED BY <1>15, <1>16

LEMMA ArenaSharedInvariant ==
  ASSUME GuardAssumption, GuardInv, NEW b \in Slots, NEW n \in BlobSizes, Guard!Free(b), Guard!ArenaShared(b, n)
  PROVE  GuardInv'
  <1>1. BlobsOk(heap, blobs, kept)
    BY DEF GuardInv
  <1>2. /\ blobs \in [Guard!Holders -> BlobRecords] /\ kept \in [Guard!Holders -> SUBSET ObjectIds]
        /\ Arena \in Guard!Holders /\ heap \in Heaps
        /\ Held(blobs)[Arena] = blobs[Arena].guard /\ Held(blobs) \in [Guard!Holders -> AllGuards]
    BY <1>1, BlobsSay, HoldersAre
  <1>3. blobs[b].guard = Guard!Null /\ n \in Nat /\ Guard!Unused(heap) # {}
    BY FreeIs DEF GuardAssumption, Guard!ArenaShared, Guard!MayShare
  <1>4. Ok(heap, Held(blobs), kept) /\ ArenaOk(blobs[Arena])
    BY <1>1 DEF BlobsOk
  <1>5. CASE blobs[Arena].size # 0
    <2>1. ArenaCopied(heap, blobs[Arena], kept[Arena], b, n)
      BY <1>5 DEF Guard!ArenaShared, ArenaCopied, Two, Blob
    <2>2. /\ Changes(Held(blobs), Arena, blobs[Arena].guard, Arena, blobs[Arena].guard, Held(blobs))
          /\ Changes(kept, Arena, kept[Arena], Arena, kept[Arena], kept)
      BY <1>2 DEF Changes
    <2>3. blobs[Arena] \in BlobRecords /\ kept[Arena] \in SUBSET ObjectIds /\ blobs[Arena].size \in 0 .. ArenaSize
      BY <1>2, <1>4 DEF ArenaOk
    <2>4. BlobsOk(heap', blobs', kept')
      BY <1>1, <1>3, <1>4, <2>1, <2>2, <2>3, ArenaCopiedInvariant
    <2> QED BY <2>4 DEF GuardInv
  <1>6. CASE blobs[Arena].size = 0
    <2>1. PICK o : o = Guard!NewObject
      OBVIOUS
    <2>2. o \in ObjectIds /\ heap.freed[o] # 0 /\ {o} \in SUBSET ObjectIds /\ Guard!Raw(o) \in AllGuards
      BY <1>6, <2>1, NewObjectIs, GuardIn DEF Guard!ArenaShared
    <2>3. PICK a : a = Guard!NewArena(o)
      OBVIOUS
    <2>4. a \in BlobRecords /\ a.guard = Guard!Raw(o) /\ a.size \in 0 .. ArenaSize
      <3>1. a \in BlobRecords /\ a.guard = Guard!Raw(o) /\ a.size = ArenaSize
        BY <2>2, <2>3, NewArenaIs
      <3> QED BY <3>1 DEF GuardAssumption
    <2>5. PICK h1, g1, k1 : /\ h1 = [heap EXCEPT !.freed[o] = 0] /\ g1 = Put(Held(blobs), Arena, Guard!Raw(o))
                            /\ k1 = Put(kept, Arena, {o})
      OBVIOUS
    <2>6. g1 \in [Guard!Holders -> AllGuards] /\ Changes(Held(blobs), Arena, Guard!Raw(o), Arena, Guard!Raw(o), g1)
      BY <1>2, <2>2, <2>5 DEF Put, Changes
    <2>7. Changes(kept, Arena, {o}, Arena, {o}, k1)
      BY <1>2, <2>2, <2>5 DEF Put, Changes
    <2>8. OkTyped(heap, g1)
      BY <1>2, <2>6 DEF OkTyped
    <2>9. Held(blobs)[Arena] = Guard!Null
      BY <1>2, <1>4, <1>6 DEF ArenaOk
    <2>10. h1.impls = heap.impls
      BY <1>2, <2>2, <2>5, FreedEdited
    <2>11. Ok(h1, g1, k1)
      <3>1. Arena \in Guard!Holders /\ o \in ObjectIds /\ heap.freed[o] # 0 /\ h1 = [heap EXCEPT !.freed[o] = 0]
        BY <1>2, <2>2, <2>5
      <3>2. Changes(Held(blobs), Arena, Guard!Raw(o), Arena, Guard!Raw(o), g1)
        BY <2>6
      <3> QED BY <1>4, <2>7, <2>8, <2>9, <3>1, <3>2, OkAllocate
    <2>12. Guard!Unused(h1) # {}
      BY <1>3, <2>10 DEF Guard!Unused
    <2>13. ArenaCopied(h1, a, {o}, b, n)
      BY <1>6, <2>1, <2>3, <2>5 DEF Guard!ArenaShared, Guard!WithObject, ArenaCopied, Two, Blob
    <2>14. Changes(Held(blobs), Arena, a.guard, Arena, a.guard, g1)
      BY <2>4, <2>6
    <2>15. BlobsOk(heap', blobs', kept')
      BY <1>1, <1>3, <2>2, <2>4, <2>7, <2>11, <2>12, <2>13, <2>14, ArenaCopiedInvariant
    <2> QED BY <2>15 DEF GuardInv
  <1> QED BY <1>5, <1>6

\* At first there are no guards.
LEMMA GuardInitial ==
  ASSUME GuardAssumption, Guard!Init
  PROVE  GuardInv
  <1>1. PICK ptr : ptr = [p \in Places |-> Guard!Null]
    OBVIOUS
  <1>2. PICK refs : refs = [i \in ImplIds |-> 0]
    OBVIOUS
  <1>3. PICK R : R = [i \in ImplIds |-> {}]
    OBVIOUS
  <1>4. ptr \in [Places -> AllGuards] /\ \A p \in Places : ptr[p] = Guard!Null
    BY <1>1, GuardIn
  <1>5. refs \in [ImplIds -> Nat] /\ \A i \in ImplIds : refs[i] = 0
    BY <1>2
  <1>6. R \in [ImplIds -> SUBSET ObjectIds] /\ \A i \in ImplIds : R[i] = {}
    BY <1>3
  <1>7. /\ heap.impls = [i \in ImplIds |-> Guard!NoImpl] /\ heap.freed = [o \in ObjectIds |-> 1]
        /\ heap.misused = FALSE /\ heap = [impls |-> heap.impls, freed |-> heap.freed, misused |-> heap.misused]
        /\ blobs = [b \in Guard!Holders |-> Guard!NoBlob] /\ kept = [b \in Guard!Holders |-> {}]
    BY DEF Guard!Init, ImplIds, ObjectIds
  <1>8. heap.freed \in [ObjectIds -> {0, 1}] /\ heap.freed \in [ObjectIds -> Nat]
        /\ \A o \in ObjectIds : heap.freed[o] = 1
    BY <1>7
  <1>9. /\ Guard!NoImpl \in ImplRecords /\ Guard!NoImpl.refs = 0
        /\ Guard!NoImpl.next = Guard!Null /\ Guard!NoImpl.owns = Guard!Null
    BY GuardIn DEF Guard!NoImpl, ImplRecords
  <1>10. heap.impls \in [ImplIds -> ImplRecords] /\ \A i \in ImplIds : heap.impls[i] = Guard!NoImpl
    BY <1>7, <1>9
  <1>11. heap \in Heaps
    BY <1>7, <1>8, <1>10 DEF Heaps
  <1>12. ASSUME NEW g, g # Guard!Null PROVE Count(ptr, g) = 0
    <2>1. PlacesOf(ptr, g) = {}
      BY <1>4, <1>12 DEF PlacesOf
    <2> QED BY <2>1, CountType
  <1>13. Counted(ptr, refs, heap.freed)
    BY <1>5, <1>8, <1>12, GuardsDiffer DEF Counted
  <1>14. ASSUME NEW i \in ImplIds PROVE ptr[Owns(i)] = Guard!Null /\ ptr[Behind(i)] = Guard!Null
    BY <1>4, PlacesIn
  <1>15. UnusedEmpty(ptr, refs)
    BY <1>14 DEF UnusedEmpty
  <1>16. Keeps(R, Guard!Null) = {}
    BY <1>6, KeepsIs
  <1>17. Reaches(ptr, R)
    BY <1>6, <1>14, <1>16 DEF Reaches
  <1>18. Ranked(ptr, refs)
    BY <1>14, GuardsDiffer DEF Ranked
  <1>19. GraphTypes(ptr, refs, heap.freed, R, refs)
    BY <1>4, <1>5, <1>6, <1>8 DEF GraphTypes
  <1>20. Graph(ptr, refs, heap.freed, R, refs)
    BY <1>13, <1>15, <1>17, <1>18, <1>19 DEF Graph
  <1>21. blobs \in [Guard!Holders -> BlobRecords] /\ \A b \in Guard!Holders : blobs[b] = Guard!NoBlob
    BY <1>7, NoBlobIs
  <1>22. Held(blobs) \in [Guard!Holders -> AllGuards] /\ \A b \in Guard!Holders : Held(blobs)[b] = Guard!Null
    BY <1>21, HeldIs, NoBlobIs
  <1>23. Shows(ptr, refs, heap, Held(blobs), NoGuards)
    <2>1. \A b \in Guard!Holders : ptr[InBlob(b)] = Held(blobs)[b]
      BY <1>4, <1>22, PlacesIn
    <2>2. ASSUME NEW n \in 1 .. Guard!MaxReleases
          PROVE  ptr[Waiting(n)] = IF n <= Len(NoGuards) THEN NoGuards[n] ELSE Guard!Null
      <3>1. ptr[Waiting(n)] = Guard!Null
        BY <1>4, PlacesIn
      <3>2. Len(NoGuards) = 0
        BY DEF NoGuards
      <3>3. ~(n <= Len(NoGuards))
        BY <3>2, MaxReleasesType
      <3> QED BY <3>1, <3>3
    <2>3. \A i \in ImplIds : /\ ptr[Owns(i)] = heap.impls[i].owns /\ ptr[Behind(i)] = heap.impls[i].next
                             /\ refs[i] = heap.impls[i].refs
      BY <1>5, <1>9, <1>10, <1>14
    <2> QED BY <2>1, <2>2, <2>3 DEF Shows
  <1>24. KeptAre(kept, R, Held(blobs))
    BY <1>7, <1>16, <1>22 DEF KeptAre
  <1>25. Ok(heap, Held(blobs), kept)
    BY <1>11, <1>20, <1>22, <1>23, <1>24 DEF Ok, OkTyped
  <1>26. ArenaOk(blobs[Arena])
    BY <1>21, HoldersAre, NoBlobIs DEF ArenaOk, GuardAssumption
  <1>27. kept \in [Guard!Holders -> SUBSET ObjectIds]
    BY <1>7
  <1>28. BlobsOk(heap, blobs, kept)
    BY <1>21, <1>25, <1>26, <1>27, BlobsOkIf
  <1> QED BY <1>28 DEF GuardInv

LEMMA GuardNext ==
  ASSUME GuardAssumption, ~AppendsAnywhere, GuardInv, Guard!Next
  PROVE  GuardInv'
  <1>1. ASSUME NEW b \in Guard!Holders, Guard!Destroy(b) PROVE GuardInv'
    BY <1>1, DestroyInvariant
  <1>2. ASSUME NEW b \in Slots, NEW n \in BlobSizes, Guard!MakeSimple(b, n) PROVE GuardInv'
    BY <1>2, MakeSimpleInvariant
  <1>3. ASSUME NEW b \in Slots, NEW n \in BlobSizes, Guard!MakeObject(b, n) PROVE GuardInv'
    BY <1>3, MakeObjectInvariant
  <1>4. ASSUME NEW b \in Slots, NEW n \in BlobSizes, Guard!ArenaAllocate(b, n) PROVE GuardInv'
    <2>1. Guard!Free(b) /\ (Guard!ArenaGivenAway(b, n) \/ Guard!ArenaShared(b, n))
      BY <1>4 DEF Guard!ArenaAllocate
    <2> QED BY <2>1, ArenaGivenAwayInvariant, ArenaSharedInvariant
  <1>5. ASSUME NEW b \in Slots, NEW c \in Slots, Guard!Clone(b, c) PROVE GuardInv'
    BY <1>5, CloneInvariant
  <1>6. ASSUME NEW b \in Slots, NEW c \in Slots, Guard!CopyAssign(b, c) PROVE GuardInv'
    BY <1>6, CopyAssignInvariant
  <1>7. ASSUME NEW b \in Slots, NEW c \in Slots, Guard!MoveAssign(b, c) PROVE GuardInv'
    BY <1>7, MoveAssignInvariant
  <1>8. ASSUME NEW b \in Slots, NEW c \in Slots, Guard!AppendGuard(b, c) PROVE GuardInv'
    BY <1>8, AppendGuardInvariant
  <1>9. \A n \in BlobSizes \cup {0} : n \in Int
    BY DEF GuardAssumption
  <1>10. ASSUME NEW b \in Slots, NEW c \in Slots, NEW n \in BlobSizes \cup {0}, Guard!Split(b, c, n) PROVE GuardInv'
    BY <1>9, <1>10, SplitInvariant
  <1>11. ASSUME NEW b \in Slots, NEW c \in Slots, NEW offset \in BlobSizes \cup {0}, NEW n \in BlobSizes,
                Guard!Share(b, c, offset, n)
         PROVE  GuardInv'
    BY <1>9, <1>11, ShareInvariant
  <1> QED BY <1>1, <1>2, <1>3, <1>4, <1>5, <1>6, <1>7, <1>8, <1>10, <1>11 DEF Guard!Next

LEMMA GuardStep ==
  ASSUME GuardAssumption, ~AppendsAnywhere, GuardInv, [Guard!Next]_Guard!vars
  PROVE  GuardInv'
  <1>1. CASE Guard!Next
    BY <1>1, GuardNext
  <1>2. CASE UNCHANGED Guard!vars
    <2>1. heap' = heap /\ blobs' = blobs /\ kept' = kept
      BY <1>2 DEF Guard!vars
    <2>2. BlobsOk(heap', blobs', kept')
      BY <2>1 DEF GuardInv
    <2> QED BY <2>2 DEF GuardInv
  <1> QED BY <1>1, <1>2

----------------------------------------------------------------------------
(***************************************************************************)
(* From the graph to the property: what a blob keeps is not freed, by the  *)
(* impl of least rank that would say otherwise, and what is not freed is   *)
(* kept by a blob, by the impl of greatest rank.                           *)
(***************************************************************************)

LEMMA GuardedNotFreed ==
  ASSUME GuardAssumption, NEW ptr, NEW refs, NEW freed, NEW R, NEW rank, Graph(ptr, refs, freed, R, rank),
         NEW p \in Places, NEW o \in ObjectIds, ptr[p] = Guard!Raw(o)
  PROVE  freed[o] = 0
  <1>1. Count(ptr, Guard!Raw(o)) = 1 - freed[o] /\ freed[o] \in {0, 1}
    BY GraphSays
  <1>2. Count(ptr, Guard!Raw(o)) # 0
    BY CountSome
  <1> QED BY <1>1, <1>2

LEMMA ReachedNotFreed ==
  ASSUME GuardAssumption, NEW ptr, NEW refs, NEW freed, NEW R, NEW rank, Graph(ptr, refs, freed, R, rank),
         NEW i \in ImplIds, NEW o \in R[i]
  PROVE  freed[o] = 0
  <1>1. SUFFICES ASSUME freed[o] # 0 PROVE FALSE
    OBVIOUS
  <1>2. R \in [ImplIds -> SUBSET ObjectIds] /\ rank \in [ImplIds -> Nat] /\ ptr \in [Places -> AllGuards]
    BY GraphSays
  <1>3. o \in ObjectIds
    BY <1>2
  <1> DEFINE T == {n \in Nat : \E x \in ImplIds : n = rank[x] /\ o \in R[x]}
  <1>4. T # {} /\ T \subseteq Nat
    BY <1>2
  <1>5. PICK m \in T : \A n \in T : m <= n
    <2> HIDE DEF T
    <2> QED BY <1>4, LeastLength
  <1>6. PICK x \in ImplIds : m = rank[x] /\ o \in R[x]
    BY <1>5
  <1>7. ASSUME NEW p \in {Owns(x), Behind(x)}, o \in Keeps(R, ptr[p]) PROVE FALSE
    <2>1. p \in Places
      BY PlacesIn
    <2>2. ptr[p] # Guard!Raw(o)
      BY <1>1, <1>3, <2>1, GuardedNotFreed
    <2>3. PICK y \in ImplIds : ptr[p] = Guard!Impl(y) /\ o \in R[y]
      BY <1>7, <2>2 DEF Keeps
    <2>4. rank[y] < rank[x]
      BY <2>3 DEF Graph, Ranked
    <2>5. rank[y] \in T /\ rank[y] \in Nat /\ rank[x] \in Nat
      BY <1>2, <2>3
    <2>6. m <= rank[y]
      BY <1>5, <2>5
    <2> QED BY <1>6, <2>4, <2>5, <2>6
  <1>8. R[x] = Keeps(R, ptr[Owns(x)]) \cup Keeps(R, ptr[Behind(x)])
    BY DEF Graph, Reaches
  <1> QED BY <1>6, <1>7, <1>8

\* What an impl keeps, a blob keeps: nothing else leads to impls.
LEMMA ReachedFromBlob ==
  ASSUME GuardAssumption, NEW ptr, NEW refs, NEW freed, NEW R, NEW rank, Graph(ptr, refs, freed, R, rank),
         \A n \in 1 .. Guard!MaxReleases : ptr[Waiting(n)] = Guard!Null,
         NEW i \in ImplIds, NEW o \in R[i]
  PROVE  \E b \in Guard!Holders : o \in Keeps(R, ptr[InBlob(b)])
  <1>1. SUFFICES ASSUME \A b \in Guard!Holders : o \notin Keeps(R, ptr[InBlob(b)]) PROVE FALSE
    OBVIOUS
  <1>2. /\ R \in [ImplIds -> SUBSET ObjectIds] /\ rank \in [ImplIds -> Nat] /\ ptr \in [Places -> AllGuards]
        /\ refs \in [ImplIds -> Nat]
    BY GraphSays
  <1>3. PICK top \in Nat : \A x \in ImplIds : rank[x] <= top
    BY <1>2, RankBound
  <1> DEFINE T == {n \in Nat : \E x \in ImplIds : n = top - rank[x] /\ o \in R[x]}
  <1>4. T # {} /\ T \subseteq Nat
    <2>1. top - rank[i] \in Nat
      BY <1>2, <1>3
    <2> QED BY <2>1
  <1>5. PICK m \in T : \A n \in T : m <= n
    <2> HIDE DEF T
    <2> QED BY <1>4, LeastLength
  <1>6. PICK x \in ImplIds : m = top - rank[x] /\ o \in R[x]
    BY <1>5
  <1>7. R[x] = Keeps(R, ptr[Owns(x)]) \cup Keeps(R, ptr[Behind(x)])
    BY DEF Graph, Reaches
  <1>8. refs[x] # 0
    <2>1. SUFFICES ASSUME refs[x] = 0 PROVE FALSE
      OBVIOUS
    <2>2. ptr[Owns(x)] = Guard!Null /\ ptr[Behind(x)] = Guard!Null
      BY <2>1 DEF Graph, UnusedEmpty
    <2>3. Keeps(R, Guard!Null) = {}
      BY <1>2, KeepsIs
    <2> QED BY <1>6, <1>7, <2>2, <2>3
  <1>9. Count(ptr, Guard!Impl(x)) # 0
    BY <1>8, GraphSays
  <1>10. PICK p \in Places : ptr[p] = Guard!Impl(x)
    BY <1>9, CountHas
  <1>11. Keeps(R, Guard!Impl(x)) = R[x]
    BY <1>2, KeepsIs
  <1>12. ASSUME NEW b \in Guard!Holders, p = InBlob(b) PROVE FALSE
    BY <1>1, <1>6, <1>10, <1>11, <1>12
  <1>13. ASSUME NEW n \in 1 .. Guard!MaxReleases, p = Waiting(n) PROVE FALSE
    BY <1>10, <1>13, GuardsDiffer
  <1>14. ASSUME NEW y \in ImplIds, p = Owns(y) \/ p = Behind(y) PROVE FALSE
    <2>1. R[y] = Keeps(R, ptr[Owns(y)]) \cup Keeps(R, ptr[Behind(y)])
      BY DEF Graph, Reaches
    <2>2. o \in R[y]
      BY <1>6, <1>10, <1>11, <1>14, <2>1
    <2>3. rank[x] < rank[y]
      BY <1>10, <1>14 DEF Graph, Ranked
    <2>4. top - rank[y] \in Nat /\ rank[x] \in Nat /\ rank[y] \in Nat
      BY <1>2, <1>3
    <2>5. top - rank[y] \in T
      BY <2>2, <2>4
    <2>6. m <= top - rank[y]
      BY <1>5, <2>5
    <2> QED BY <1>3, <1>6, <2>3, <2>4, <2>6
  <1> QED BY <1>12, <1>13, <1>14, PlaceCases

LEMMA FreedOnceHolds ==
  ASSUME GuardAssumption, GuardInv
  PROVE  Guard!FreedOnce
  <1>1. Ok(heap, Held(blobs), kept)
    BY DEF GuardInv, BlobsOk
  <1>2. PICK ptr, refs, R, rank : /\ Graph(ptr, refs, heap.freed, R, rank)
                                  /\ Shows(ptr, refs, heap, Held(blobs), NoGuards)
                                  /\ KeptAre(kept, R, Held(blobs))
    BY <1>1 DEF Ok
  <1>3. heap.misused = FALSE
    BY <1>1 DEF Ok, OkTyped, Heaps
  <1>4. /\ \A n \in 1 .. Guard!MaxReleases : ptr[Waiting(n)] = Guard!Null
        /\ \A b \in Guard!Holders : InBlob(b) \in Places /\ ptr[InBlob(b)] = Held(blobs)[b]
    BY <1>2, NothingWaits
  <1>5. \A b \in Guard!Holders : kept[b] = Keeps(R, ptr[InBlob(b)])
    BY <1>2, <1>4 DEF KeptAre
  <1>6. R \in [ImplIds -> SUBSET ObjectIds] /\ \A o \in ObjectIds : heap.freed[o] \in {0, 1}
    BY <1>2, GraphSays
  <1>7. ASSUME NEW o \in ObjectIds, NEW b \in Guard!Holders, o \in kept[b] PROVE heap.freed[o] = 0
    <2>1. o \in Keeps(R, ptr[InBlob(b)])
      BY <1>5, <1>7
    <2>2. CASE ptr[InBlob(b)] = Guard!Raw(o)
      BY <1>2, <1>4, <2>2, GuardedNotFreed
    <2>3. ASSUME NEW i \in ImplIds, o \in R[i] PROVE heap.freed[o] = 0
      BY <1>2, <2>3, ReachedNotFreed
    <2> QED BY <2>1, <2>2, <2>3 DEF Keeps
  <1>8. ASSUME NEW o \in ObjectIds, heap.freed[o] = 0 PROVE \E b \in Guard!Holders : o \in kept[b]
    <2>1. Count(ptr, Guard!Raw(o)) = 1 - heap.freed[o]
      BY <1>2, GraphSays
    <2>2. Count(ptr, Guard!Raw(o)) # 0
      BY <1>8, <2>1
    <2>3. PICK p \in Places : ptr[p] = Guard!Raw(o)
      BY <2>2, CountHas
    <2>4. o \in Keeps(R, ptr[p])
      BY <2>3 DEF Keeps
    <2>5. ASSUME NEW b \in Guard!Holders, p = InBlob(b) PROVE o \in kept[b]
      BY <1>5, <2>4, <2>5
    <2>6. ASSUME NEW n \in 1 .. Guard!MaxReleases, p = Waiting(n) PROVE FALSE
      BY <1>4, <2>3, <2>6, GuardsDiffer
    <2>7. ASSUME NEW y \in ImplIds, p = Owns(y) \/ p = Behind(y) PROVE \E b \in Guard!Holders : o \in kept[b]
      <3>1. R[y] = Keeps(R, ptr[Owns(y)]) \cup Keeps(R, ptr[Behind(y)])
        BY <1>2 DEF Graph, Reaches
      <3>2. o \in R[y]
        BY <2>4, <2>7, <3>1
      <3>3. \E b \in Guard!Holders : o \in Keeps(R, ptr[InBlob(b)])
        BY <1>2, <1>4, <3>2, ReachedFromBlob
      <3> QED BY <1>5, <3>3
    <2> QED BY <2>5, <2>6, <2>7, PlaceCases
  <1>9. \A o \in ObjectIds : heap.freed[o] = IF \E b \in Guard!Holders : o \in kept[b] THEN 0 ELSE 1
    BY <1>6, <1>7, <1>8
  <1> QED BY <1>3, <1>9 DEF Guard!FreedOnce, ObjectIds

\* Whatever programs clone, share, split, assign and allocate from the arena,
\* and however many blobs, objects and impls there are: no memory is freed twice
\* or while a blob needs it, and none is left when none does (guard.h,
\* byte_blob.h).  The same holds of what they append behind any guard, except
\* behind one that frees its object directly (guard.h:148) or belongs to an impl
\* that is shared and already has a guard behind it (guard.h:152): those two
\* appends are outside of the theorem, and the code gets the first wrong.
THEOREM BlobsFreedOnce ==
  ASSUME GuardAssumption, ~AppendsAnywhere
  PROVE  Guard!Spec => []FreedOnce
  <1>1. Guard!Init => GuardInv
    BY GuardInitial
  <1>2. GuardInv /\ [Guard!Next]_Guard!vars => GuardInv'
    BY GuardStep
  <1>3. GuardInv => FreedOnce
    BY FreedOnceHolds DEF FreedOnce
  <1> QED BY <1>1, <1>2, <1>3, PTL DEF Guard!Spec
=============================================================================
