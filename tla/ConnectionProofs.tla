-------------------------- MODULE ConnectionProofs --------------------------
(***************************************************************************)
(* Theorems about Connection, for any decoder constants, any sizes and any *)
(* bounds: the event is changed only while epoll has it, and what was      *)
(* written before close is with the kernel when the connection closes.     *)
(*                                                                         *)
(* The decoder is left as it is: whatever it makes of the bytes, it only   *)
(* writes and closes.                                                      *)
(*                                                                         *)
(* And about Pipes, for any filters: a message passes those that take it.  *)
(***************************************************************************)
EXTENDS PipedConnection, QueueLemmas, TLAPS, SequenceTheorems

TaskNames == {"close", "read", "write", "release"}

Sinks == [buf : Seq(Nat), scheduled : BOOLEAN, closing : BOOLEAN,
          tasks : Seq(TaskNames), written : Nat, owed : Nat \cup {-1}]

Reads == [onIo : BOOLEAN, loops : Int, got : Int, close : BOOLEAN, on : BOOLEAN]

\* The types that the argument needs.
TypeInv ==
  /\ pipe \in Sinks
  /\ reading \in Reads
  /\ sent \in Seq(Nat)
  /\ space \in Nat
  /\ avail \in Nat
  /\ blocked \in BOOLEAN
  /\ registered \in BOOLEAN
  /\ budget \in Int /\ budget <= Len(pipe.tasks)

----------------------------------------------------------------------------
(***************************************************************************)
(* What is owed.                                                           *)
(***************************************************************************)

\* Nothing was lost or reordered between the data_sink and the kernel.
Stream(p, s) == s \o p.buf = [i \in 1 .. p.written |-> i]

\* A task of the data_sink that comes before every close.
WritesFirst(ts) ==
  \E i \in DOMAIN ts : /\ ts[i] = "write"
                       /\ \A j \in DOMAIN ts : j < i => ts[j] # "close"

\* What is owed is with the kernel, or it could not take it.
Paid(p, s, b) == Len(s) >= p.owed \/ b

\* Until the data_sink closes, a buffer that is not empty waits for the kernel
\* or for a task, close is called before its task is there, and a write is
\* ahead of the first close as long as something is owed.
Owes(p, s, b) ==
  /\ p.owed = -1 => ~p.closing /\ ~Contains(p.tasks, "close")
  /\ p.owed <= p.written
  /\ ~p.closing =>
       /\ p.buf # << >> => b \/ p.scheduled
       /\ p.scheduled => Contains(p.tasks, "write")
       /\ ~Contains(p.tasks, "release")
       /\ p.owed # -1 => Paid(p, s, b) \/ WritesFirst(p.tasks)
  /\ p.closing => Paid(p, s, b)

Promise(p, s, b) == Stream(p, s) /\ Owes(p, s, b)

\* Another task, after those that there are.
LEMMA AppendTask ==
  ASSUME NEW ts \in Seq(TaskNames), NEW name \in TaskNames
  PROVE  /\ Append(ts, name) \in Seq(TaskNames)
         /\ Len(Append(ts, name)) = Len(ts) + 1
         /\ Len(ts) \in Nat
         /\ \A n : Contains(Append(ts, name), n) <=> Contains(ts, n) \/ n = name
         /\ WritesFirst(ts) => WritesFirst(Append(ts, name))
<1>1. /\ Append(ts, name) \in Seq(TaskNames)
      /\ Len(Append(ts, name)) = Len(ts) + 1
      /\ DOMAIN Append(ts, name) = 1 .. Len(ts) + 1
      /\ DOMAIN ts = 1 .. Len(ts)
      /\ Len(ts) \in Nat
      /\ \A i \in 1 .. Len(ts) : Append(ts, name)[i] = ts[i]
      /\ Append(ts, name)[Len(ts) + 1] = name
  BY AppendProperties, LenProperties
<1>2. ASSUME WritesFirst(ts) PROVE WritesFirst(Append(ts, name))
  <2>1. PICK i \in DOMAIN ts : /\ ts[i] = "write"
                               /\ \A j \in DOMAIN ts : j < i => ts[j] # "close"
    BY <1>2 DEF WritesFirst
  <2>2. \A j \in DOMAIN Append(ts, name) : j < i => j \in DOMAIN ts
    BY <1>1, <2>1
  <2> QED BY <1>1, <2>1, <2>2 DEF WritesFirst
<1>3. ASSUME NEW n PROVE Contains(Append(ts, name), n) <=> Contains(ts, n) \/ n = name
  BY <1>1 DEF Contains
<1> QED BY <1>1, <1>2, <1>3

\* The tasks without the first one.
LEMMA TailTask ==
  ASSUME NEW ts \in Seq(TaskNames), ts # << >>
  PROVE  /\ Tail(ts) \in Seq(TaskNames)
         /\ Len(Tail(ts)) = Len(ts) - 1
         /\ \A n : Contains(Tail(ts), n) => Contains(ts, n)
         /\ \A n : Contains(ts, n) => n = Head(ts) \/ Contains(Tail(ts), n)
         /\ Contains(ts, Head(ts))
         /\ Head(ts) # "write" /\ WritesFirst(ts)
              => Head(ts) # "close" /\ WritesFirst(Tail(ts))
<1>1. /\ Tail(ts) \in Seq(TaskNames)
      /\ Len(ts) \in Nat \ {0}
      /\ DOMAIN ts = 1 .. Len(ts)
      /\ Len(Tail(ts)) = Len(ts) - 1
      /\ DOMAIN Tail(ts) = 1 .. Len(ts) - 1
      /\ Head(ts) = ts[1]
      /\ \A i \in 1 .. Len(ts) - 1 : Tail(ts)[i] = ts[i + 1]
  BY HeadTailProperties, LenProperties, EmptySeq
<1>2. ASSUME NEW n, Contains(ts, n), n # Head(ts)
      PROVE  Contains(Tail(ts), n)
  <2>1. PICK i \in 1 .. Len(ts) : ts[i] = n
    BY <1>2 DEF Contains
  <2>2. i - 1 \in 1 .. Len(ts) - 1 /\ Tail(ts)[i - 1] = ts[(i - 1) + 1]
    BY <1>1, <1>2, <2>1
  <2>3. (i - 1) + 1 = i /\ Len(Tail(ts)) = Len(ts) - 1
    BY <1>1, <2>1
  <2> QED BY <2>1, <2>2, <2>3 DEF Contains
<1>3. ASSUME Head(ts) # "write", WritesFirst(ts)
      PROVE  Head(ts) # "close" /\ WritesFirst(Tail(ts))
  <2>1. PICK i \in DOMAIN ts : /\ ts[i] = "write"
                               /\ \A j \in DOMAIN ts : j < i => ts[j] # "close"
    BY <1>3 DEF WritesFirst
  <2>2. i > 1 /\ 1 \in DOMAIN ts
    BY <1>1, <1>3, <2>1
  <2>3. i - 1 \in DOMAIN Tail(ts) /\ Tail(ts)[i - 1] = "write"
    BY <1>1, <2>1, <2>2
  <2>4. \A j \in DOMAIN Tail(ts) : j < i - 1 => Tail(ts)[j] # "close"
    BY <1>1, <2>1, <2>2
  <2> QED BY <1>1, <2>1, <2>2, <2>3, <2>4 DEF WritesFirst
<1>4. ASSUME NEW n, Contains(Tail(ts), n) PROVE Contains(ts, n)
  <2>1. PICK i \in 1 .. Len(ts) - 1 : Tail(ts)[i] = n
    BY <1>1, <1>4 DEF Contains
  <2> QED BY <1>1, <2>1 DEF Contains
<1>5. Contains(ts, Head(ts))
  BY <1>1 DEF Contains
<1> QED BY <1>1, <1>2, <1>3, <1>4, <1>5

\* socket_base::close keeps the promise.
LEMMA CloseKeeps ==
  ASSUME NEW p \in Sinks, NEW s \in Seq(Nat), NEW b \in BOOLEAN, Promise(p, s, b)
  PROVE  /\ Close(p) \in Sinks
         /\ Promise(Close(p), s, b)
         /\ Close(p).closing = p.closing
         /\ Len(Close(p).tasks) >= Len(p.tasks)
<1> DEFINE q == Close(p)
           ts == Append(p.tasks, "close")
<1>1. /\ q \in Sinks
      /\ q.buf = p.buf /\ q.scheduled = p.scheduled /\ q.closing = p.closing
      /\ q.tasks = ts /\ q.written = p.written
      /\ q.owed = IF p.owed = -1 THEN p.written ELSE p.owed
  BY AppendTask DEF Close, Sinks, TaskNames
<1>2. /\ p.tasks \in Seq(TaskNames) /\ p.written \in Nat /\ p.owed \in Nat \cup {-1}
      /\ p.scheduled \in BOOLEAN /\ p.closing \in BOOLEAN
  BY DEF Sinks
<1>3. Stream(q, s)
  BY <1>1 DEF Promise, Stream
<1>4. q.owed # -1 /\ q.owed <= q.written
  BY <1>1, <1>2 DEF Promise, Owes
<1>5. ASSUME ~q.closing
      PROVE  /\ q.buf # << >> => b \/ q.scheduled
             /\ q.scheduled => Contains(q.tasks, "write")
             /\ ~Contains(q.tasks, "release")
  <2>1. /\ p.buf # << >> => b \/ p.scheduled
        /\ p.scheduled => Contains(p.tasks, "write")
        /\ ~Contains(p.tasks, "release")
    BY <1>1, <1>5 DEF Promise, Owes
  <2>2. \A n : Contains(ts, n) <=> Contains(p.tasks, n) \/ n = "close"
    BY <1>2, AppendTask DEF TaskNames
  <2> QED BY <1>1, <2>1, <2>2
<1>6. ASSUME ~q.closing
      PROVE  Paid(q, s, b) \/ WritesFirst(q.tasks)
  <2>1. CASE p.owed # -1
    <3>1. Paid(p, s, b) \/ WritesFirst(p.tasks)
      BY <1>1, <1>6, <2>1 DEF Promise, Owes
    <3> QED BY <1>1, <1>2, <2>1, <3>1, AppendTask DEF Paid, TaskNames
  <2>2. CASE p.owed = -1
    <3>1. CASE p.buf = << >>
      <4>1. s = [i \in 1 .. p.written |-> i]
        BY <3>1, ConcatEmptySeq DEF Promise, Stream
      <4>2. Len(s) = p.written
        BY <4>1, <1>2
      <4> QED BY <4>2, <2>2, <1>1, <1>2 DEF Paid
    <3>2. CASE p.buf # << >> /\ ~b
      <4>1. p.scheduled
        BY <1>1, <1>6, <3>2 DEF Promise, Owes
      <4>2. Contains(p.tasks, "write") /\ ~Contains(p.tasks, "close")
        BY <4>1, <1>1, <1>6, <2>2 DEF Promise, Owes
      <4>3. WritesFirst(p.tasks)
        BY <4>2, <1>2, LenProperties DEF WritesFirst, Contains
      <4> QED BY <4>3, <1>1, <1>2, AppendTask DEF TaskNames
    <3> QED BY <3>1, <3>2 DEF Paid
  <2> QED BY <2>1, <2>2
<1>7. q.closing => Paid(q, s, b)
  BY <1>1 DEF Promise, Owes, Paid
<1>8. Len(q.tasks) >= Len(p.tasks)
  <2>1. "close" \in TaskNames
    BY DEF TaskNames
  <2> QED BY <1>1, <1>2, <2>1, AppendTask
<1> QED BY <1>1, <1>3, <1>4, <1>5, <1>6, <1>7, <1>8 DEF Promise, Owes

LEMMA ConcatAppend ==
  ASSUME NEW S, NEW s \in Seq(S), NEW u \in Seq(S), NEW e \in S
  PROVE  s \o Append(u, e) = Append(s \o u, e)
<1>1. s \o u \in Seq(S) /\ << e >> \in Seq(S)
  BY ConcatProperties
<1>2. Append(u, e) = u \o << e >> /\ Append(s \o u, e) = (s \o u) \o << e >>
  BY <1>1, AppendIsConcat
<1> QED BY <1>1, <1>2, ConcatAssociative

\* data_sink::write keeps the promise: a buffer that is too full has been
\* waiting for a task or for the kernel already.
LEMMA WriteKeeps ==
  ASSUME NEW p \in Sinks, NEW s \in Seq(Nat), NEW b \in BOOLEAN, Promise(p, s, b)
  PROVE  /\ Write(p) \in Sinks
         /\ Promise(Write(p), s, b)
         /\ Write(p).closing = p.closing
         /\ Len(Write(p).tasks) >= Len(p.tasks)
<1> DEFINE q == [p EXCEPT !.buf = Append(@, p.written + 1), !.written = @ + 1]
           u == [q EXCEPT !.tasks = Append(@, "write"), !.scheduled = TRUE]
<1>1. /\ p.tasks \in Seq(TaskNames) /\ p.buf \in Seq(Nat) /\ p.written \in Nat
      /\ p.owed \in Nat \cup {-1}
      /\ p.scheduled \in BOOLEAN /\ p.closing \in BOOLEAN
  BY DEF Sinks
<1>2. PICK n \in Nat : n = p.written + 1
  BY <1>1
<1>3. /\ Append(p.buf, n) \in Seq(Nat)
      /\ Append(p.buf, n) # << >>
      /\ Len(Append(p.buf, n)) = Len(p.buf) + 1
  <2>1. p.buf \in Seq(Nat)
    BY <1>1
  <2>2. Append(p.buf, n) \in Seq(Nat) /\ Len(Append(p.buf, n)) = Len(p.buf) + 1
    BY <2>1, AppendProperties
  <2>3. Append(p.buf, n) # << >>
    BY <2>1, <2>2, LenProperties, EmptySeq, SMTT(30)
  <2> QED BY <2>2, <2>3
<1>4. /\ q \in Sinks
      /\ q.buf = Append(p.buf, n) /\ q.written = n
      /\ q.scheduled = p.scheduled /\ q.closing = p.closing
      /\ q.tasks = p.tasks /\ q.owed = p.owed
  BY <1>2, <1>3 DEF Sinks
<1>5. Stream(q, s)
  <2>1. s \o Append(p.buf, n) = Append(s \o p.buf, n)
    BY <1>1, ConcatAppend, SMTT(30)
  <2>2. s \o p.buf = [i \in 1 .. p.written |-> i]
    BY DEF Promise, Stream
  <2>3. Append([i \in 1 .. p.written |-> i], n) = [i \in 1 .. n |-> i]
    <3>1. [i \in 1 .. p.written |-> i] \in Seq(Nat) /\ Len([i \in 1 .. p.written |-> i]) = p.written
      BY <1>1
    <3>2. [i \in 1 .. n |-> i] \in Seq(Nat) /\ Len([i \in 1 .. n |-> i]) = n
      OBVIOUS
    <3> QED BY <1>2, <1>1, <3>1, <3>2
  <2> QED BY <1>4, <2>1, <2>2, <2>3 DEF Stream
<1>6. q.buf # << >>
  BY <1>3, <1>4
<1>7. CASE Len(q.buf) > MaxBuffered
  <2>1. p.buf # << >>
    BY <1>1, <1>3, <1>4, <1>7, LenProperties, ConnectionAssumption
  <2>2. Owes(q, s, b)
    BY <1>1, <1>4, <2>1 DEF Promise, Owes, Paid
  <2>3. Write(p) = Close(q)
    BY <1>7 DEF Write
  <2> QED BY <1>4, <1>5, <2>2, <2>3, CloseKeeps DEF Promise
<1>8. CASE ~(Len(q.buf) > MaxBuffered) /\ (q.closing \/ q.scheduled)
  <2>1. Owes(q, s, b)
    BY <1>1, <1>4, <1>8 DEF Promise, Owes, Paid
  <2>2. Write(p) = q
    BY <1>8 DEF Write
  <2> QED BY <1>4, <1>5, <2>1, <2>2 DEF Promise
<1>9. CASE ~(Len(q.buf) > MaxBuffered) /\ ~(q.closing \/ q.scheduled)
  <2>1. Write(p) = u
    BY <1>9 DEF Write
  <2>2. /\ u \in Sinks
        /\ u.buf = q.buf /\ u.written = q.written /\ u.scheduled = TRUE
        /\ u.closing = p.closing /\ u.owed = p.owed
        /\ u.tasks = Append(p.tasks, "write")
    BY <1>4, AppendTask DEF Sinks, TaskNames
  <2>3. /\ \A k : Contains(u.tasks, k) <=> Contains(p.tasks, k) \/ k = "write"
        /\ WritesFirst(p.tasks) => WritesFirst(u.tasks)
    BY <1>1, <2>2, AppendTask DEF TaskNames
  <2>4. /\ p.owed = -1 => ~p.closing /\ ~Contains(p.tasks, "close")
        /\ p.owed <= p.written
        /\ ~Contains(p.tasks, "release")
        /\ p.owed # -1 => Paid(p, s, b) \/ WritesFirst(p.tasks)
    BY <1>4, <1>9 DEF Promise, Owes
  <2>5. Owes(u, s, b)
    BY <1>1, <1>4, <1>9, <2>2, <2>3, <2>4 DEF Owes, Paid
  <2>6. Stream(u, s)
    BY <1>5, <2>2 DEF Stream
  <2> QED BY <2>1, <2>2, <2>5, <2>6 DEF Promise
<1> QED BY <1>7, <1>8, <1>9

\* What the codec does with what the decoder tells it.
LEMMA ToldKeeps ==
  ASSUME NEW p \in Sinks, NEW s \in Seq(Nat), NEW b \in BOOLEAN, Promise(p, s, b),
         NEW what
  PROVE  /\ Told(p, what) \in Sinks
         /\ Promise(Told(p, what), s, b)
         /\ Told(p, what).closing = p.closing
         /\ Len(Told(p, what).tasks) >= Len(p.tasks)
<1>1. CASE what = "end"
  BY <1>1, WriteKeeps DEF Told
<1>2. CASE what = "error"
  BY <1>2, WriteKeeps, CloseKeeps DEF Told
<1>3. CASE what # "end" /\ what # "error"
  BY <1>3 DEF Told
<1> QED BY <1>1, <1>2, <1>3

\* A deferred read is another task.
LEMMA DeferReadKeeps ==
  ASSUME NEW p \in Sinks, NEW s \in Seq(Nat), NEW b \in BOOLEAN, Promise(p, s, b),
         NEW q, q = [p EXCEPT !.tasks = Append(@, "read")]
  PROVE  /\ q \in Sinks /\ Promise(q, s, b) /\ q.closing = p.closing
         /\ Len(q.tasks) >= Len(p.tasks)
<1>1. p.tasks \in Seq(TaskNames) /\ p.scheduled \in BOOLEAN /\ p.closing \in BOOLEAN
  BY DEF Sinks
<1>2. /\ q \in Sinks
      /\ q.buf = p.buf /\ q.written = p.written /\ q.scheduled = p.scheduled
      /\ q.closing = p.closing /\ q.owed = p.owed
      /\ q.tasks = Append(p.tasks, "read")
  BY <1>1, AppendTask DEF Sinks, TaskNames
<1>3. /\ \A n : Contains(q.tasks, n) <=> Contains(p.tasks, n) \/ n = "read"
      /\ WritesFirst(p.tasks) => WritesFirst(q.tasks)
  BY <1>1, <1>2, AppendTask DEF TaskNames
<1>4. Len(q.tasks) >= Len(p.tasks)
  BY <1>1, <1>2, AppendTask DEF TaskNames
<1> QED BY <1>1, <1>2, <1>3, <1>4 DEF Promise, Stream, Owes, Paid

\* A task that is not a write of the data_sink, or runs when it closes already,
\* is done.  Nothing is owed any more when it is a close.
LEMMA NextTaskKeeps ==
  ASSUME NEW p \in Sinks, NEW s \in Seq(Nat), NEW b \in BOOLEAN, Promise(p, s, b),
         p.tasks # << >>, p.closing \/ Head(p.tasks) # "write"
  PROVE  /\ NextTask(p) \in Sinks
         /\ Promise(NextTask(p), s, b)
         /\ NextTask(p).closing = p.closing
         /\ Len(NextTask(p).tasks) = Len(p.tasks) - 1
         /\ Head(p.tasks) = "close" => p.owed # -1 /\ Paid(p, s, b)
         /\ Head(p.tasks) = "release" => p.closing
<1> DEFINE q == NextTask(p)
<1>1. p.tasks \in Seq(TaskNames) /\ p.scheduled \in BOOLEAN /\ p.closing \in BOOLEAN
  BY DEF Sinks
<1>2. /\ q \in Sinks
      /\ q.buf = p.buf /\ q.written = p.written /\ q.scheduled = p.scheduled
      /\ q.closing = p.closing /\ q.owed = p.owed
      /\ q.tasks = Tail(p.tasks)
  BY <1>1, TailTask DEF Sinks, NextTask
<1>3. /\ \A n : Contains(q.tasks, n) => Contains(p.tasks, n)
      /\ \A n : Contains(p.tasks, n) => n = Head(p.tasks) \/ Contains(q.tasks, n)
      /\ Contains(p.tasks, Head(p.tasks))
      /\ Head(p.tasks) # "write" /\ WritesFirst(p.tasks)
           => Head(p.tasks) # "close" /\ WritesFirst(q.tasks)
  BY <1>1, <1>2, TailTask
<1>4. Stream(q, s)
  BY <1>2 DEF Promise, Stream
<1>5. Head(p.tasks) = "close" => p.owed # -1 /\ Paid(p, s, b)
  BY <1>3 DEF Promise, Owes
<1>6. Head(p.tasks) = "release" => p.closing
  BY <1>3 DEF Promise, Owes
<1>7. Owes(q, s, b)
  BY <1>1, <1>2, <1>3 DEF Promise, Owes, Paid
<1> QED BY <1>2, <1>4, <1>5, <1>6, <1>7 DEF Promise

\* The kernel takes a part of the buffer: what is left waits for it.  The
\* data_sink that writes need not know of a task for it any more.
LEMMA WriteBufferKeeps ==
  ASSUME TypeInv, WriteBuffer,
         NEW p \in Sinks, p.buf = pipe.buf, Stream(p, sent), ~p.closing,
         p.owed = -1 => ~Contains(p.tasks, "close"),
         p.owed <= p.written,
         p.scheduled => Contains(p.tasks, "write"),
         ~Contains(p.tasks, "release")
  PROVE  /\ sent' \in Seq(Nat) /\ space' \in Nat /\ avail' \in Nat
         /\ blocked' \in BOOLEAN
         /\ Rest(p) \in Sinks
         /\ Promise(Rest(p), sent', blocked')
         /\ ~Rest(p).closing
         /\ Rest(p).tasks = p.tasks
         /\ peer = "broken" => Rest(p) = p
<1> DEFINE q == Rest(p)
           front == SubSeq(p.buf, 1, Taken)
           back  == SubSeq(p.buf, Taken + 1, Len(p.buf))
<1>1. /\ p.buf \in Seq(Nat) /\ Len(p.buf) \in Nat
      /\ p.written \in Nat /\ p.owed \in Nat \cup {-1}
      /\ p.scheduled \in BOOLEAN /\ p.closing \in BOOLEAN
  BY LenProperties DEF Sinks
<1>2. Taken \in 0 .. Len(p.buf) /\ (peer = "broken" => Taken = 0)
  BY <1>1 DEF Taken, TypeInv
<1>3. PICK k \in 0 .. Len(p.buf) : k = Taken
  BY <1>2
<1>4. \A i \in 1 .. Len(p.buf) : p.buf[i] \in Nat
  BY <1>1, ElementOfSeq
<1>5. front \in Seq(Nat) /\ Len(front) = Taken
  <2>1. SubSeq(p.buf, 1, k) \in Seq(Nat)
        /\ Len(SubSeq(p.buf, 1, k)) = IF 1 <= k THEN k - 1 + 1 ELSE 0
    <3>1. \A i \in 1 .. k : p.buf[i] \in Nat
      BY <1>1, <1>4
    <3>2. 1 \in Int /\ k \in Int
      BY <1>1
    <3> QED BY <3>1, <3>2, SubSeqProperties
  <2> QED BY <1>1, <1>3, <2>1
<1>6. back \in Seq(Nat) /\ Len(back) = Len(p.buf) - Taken
  <2>1. SubSeq(p.buf, k + 1, Len(p.buf)) \in Seq(Nat)
        /\ Len(SubSeq(p.buf, k + 1, Len(p.buf))) =
             IF k + 1 <= Len(p.buf) THEN Len(p.buf) - (k + 1) + 1 ELSE 0
    <3>1. \A i \in k + 1 .. Len(p.buf) : p.buf[i] \in Nat
      BY <1>1, <1>4
    <3>2. k + 1 \in Int /\ Len(p.buf) \in Int
      BY <1>1
    <3> QED BY <3>1, <3>2, SubSeqProperties
  <2> QED BY <1>1, <1>3, <2>1
<1>7. front \o back = p.buf
  <2>1. SubSeq(p.buf, 1, k) \o SubSeq(p.buf, k + 1, Len(p.buf)) = SubSeq(p.buf, 1, Len(p.buf))
    <3>1. /\ 1 \in 1 .. Len(p.buf) + 1
          /\ k \in 1 - 1 .. Len(p.buf)
          /\ Len(p.buf) \in k .. Len(p.buf)
      BY <1>1
    <3> QED BY <1>1, <3>1, ConcatAdjacentSubSeq
  <2>2. SubSeq(p.buf, 1, Len(p.buf)) = p.buf
    BY <1>1, SubSeqFull
  <2> QED BY <1>3, <2>1, <2>2
<1>8. /\ q \in Sinks
      /\ q.buf = back /\ q.scheduled = p.scheduled /\ q.closing = p.closing
      /\ q.tasks = p.tasks /\ q.written = p.written /\ q.owed = p.owed
  BY <1>6 DEF Rest, Sinks
<1>9. /\ sent' = sent \o front
      /\ space' = space - Taken
      /\ blocked' \in BOOLEAN /\ (blocked' <=> Taken < Len(p.buf))
      /\ UNCHANGED avail
  <2>1. blocked' = (Taken < Len(p.buf))
    BY DEF WriteBuffer
  <2>2. blocked' \in BOOLEAN /\ (blocked' <=> Taken < Len(p.buf))
    <3>1. CASE Taken < Len(p.buf)
      <4>1. (Taken < Len(p.buf)) = TRUE
        BY <3>1
      <4> QED BY <2>1, <3>1, <4>1
    <3>2. CASE ~(Taken < Len(p.buf))
      <4>1. (Taken < Len(p.buf)) = FALSE
        BY <3>2
      <4> QED BY <2>1, <3>2, <4>1
    <3> QED BY <3>1, <3>2
  <2> QED BY <2>2 DEF WriteBuffer
<1>10. sent \in Seq(Nat) /\ space \in Nat /\ avail \in Nat
  BY DEF TypeInv
<1>11. /\ sent' \in Seq(Nat) /\ avail' \in Nat /\ blocked' \in BOOLEAN
       /\ Len(sent') = Len(sent) + Taken
  <2>1. ASSUME NEW x \in Seq(Nat)
        PROVE  sent \o x \in Seq(Nat) /\ Len(sent \o x) = Len(sent) + Len(x)
    BY <1>10, ConcatProperties
  <2> QED BY <1>5, <1>9, <1>10, <2>1
<1>12. space' \in Nat
  BY <1>1, <1>9, <1>10 DEF Taken
<1>13. Stream(q, sent')
  <2>1. ASSUME NEW x \in Seq(Nat), NEW y \in Seq(Nat)
        PROVE  (sent \o x) \o y = sent \o (x \o y)
    BY <1>10, ConcatAssociative, SMTT(30)
  <2>2. (sent \o front) \o back = sent \o (front \o back)
    BY <1>5, <1>6, <2>1
  <2> QED BY <1>7, <1>8, <1>9, <2>2 DEF Stream
<1>14. q.buf # << >> => blocked'
  <2>1. ASSUME ~blocked' PROVE Len(back) = 0
    BY <1>1, <1>2, <1>6, <1>9, <2>1
  <2> QED BY <1>6, <1>8, <2>1, EmptySeq
<1>15. Paid(q, sent', blocked')
  <2>1. Len(sent) + Len(p.buf) = p.written
    <3>1. Len(sent \o p.buf) = Len(sent) + Len(p.buf)
      BY <1>1, <1>10, ConcatProperties
    <3>2. Len([i \in 1 .. p.written |-> i]) = p.written
      BY <1>1
    <3> QED BY <3>1, <3>2 DEF Stream
  <2>2. CASE Taken = Len(p.buf)
    <3>1. Len(sent') = p.written
      BY <1>1, <1>11, <2>1, <2>2
    <3>2. Len(sent') >= q.owed
      BY <1>1, <1>8, <3>1
    <3> QED BY <3>2 DEF Paid
  <2>3. CASE Taken # Len(p.buf)
    <3>1. blocked'
      BY <1>1, <1>2, <1>9, <2>3
    <3> QED BY <3>1 DEF Paid
  <2> QED BY <2>2, <2>3
<1>16. Owes(q, sent', blocked')
  BY <1>8, <1>14, <1>15 DEF Owes
<1>17. ASSUME peer = "broken" PROVE q = p
  <2>1. k = 0
    BY <1>2, <1>3, <1>17
  <2>2. back = p.buf
    <3>1. SubSeq(p.buf, 1, Len(p.buf)) = p.buf
      BY <1>1, SubSeqFull
    <3>2. Taken + 1 = 1
      BY <1>3, <2>1
    <3> QED BY <3>1, <3>2
  <2> QED BY <2>2 DEF Rest, Sinks
<1> QED BY <1>8, <1>11, <1>12, <1>13, <1>16, <1>17 DEF Promise

----------------------------------------------------------------------------
(***************************************************************************)
(* The event.                                                              *)
(***************************************************************************)

\* The event is active, and epoll has it, exactly while the connection is open
\* and does not close.  While the thread goes through the flags of an event it
\* is, and it reads only from an open connection.
Attached ==
  /\ registered <=> conn = "open" /\ ~pipe.closing
  /\ event = "active" <=> conn = "open" /\ ~pipe.closing
  /\ conn = "gone" => pipe.closing
  /\ pipe.closing => conn \in {"open", "gone"}
  /\ flags # {} => registered
  /\ reading.on => conn = "open"
  /\ ~misused

\* The inductive invariant.
IInv == TypeInv /\ Attached /\ Promise(pipe, sent, blocked)

LEMMA InitIInv == Init => IInv
<1> SUFFICES ASSUME Init PROVE IInv
  OBVIOUS
<1>1. << >> \in Seq(Nat) /\ << >> \in Seq(TaskNames)
  OBVIOUS
<1>2. pipe = NewPipe /\ pipe \in Sinks
  BY <1>1 DEF Init, NewPipe, Sinks
<1>3. TypeInv
  <2>1. reading \in Reads
    BY DEF Init, NotReading, Reads
  <2>2. space \in Nat
    BY ConnectionAssumption DEF Init
  <2>3. budget \in Int /\ budget <= Len(pipe.tasks)
    BY <1>2 DEF Init, NewPipe
  <2> QED BY <1>1, <1>2, <2>1, <2>2, <2>3 DEF Init, TypeInv
<1>4. Attached
  BY DEF Init, Attached, NewPipe, NotReading
<1>5. Stream(pipe, sent)
  <2>1. sent = << >> /\ pipe.buf = << >> /\ pipe.written = 0
    BY DEF Init, NewPipe
  <2>2. sent \o pipe.buf = << >>
    BY <1>1, <2>1, ConcatEmptySeq
  <2>3. [i \in 1 .. 0 |-> i] = << >>
    OBVIOUS
  <2> QED BY <2>1, <2>2, <2>3 DEF Stream
<1>6. Owes(pipe, sent, blocked)
  BY DEF Init, NewPipe, Owes, Contains
<1> QED BY <1>3, <1>4, <1>5, <1>6 DEF IInv, Promise

\* A step that changes none of what the invariant is about.
LEMMA Stutters ==
  ASSUME IInv, UNCHANGED <<conn, event, registered, pipe, reading, flags, budget, sent, blocked,
                           misused>>,
         space' \in Nat, avail' \in Nat
  PROVE  IInv'
BY DEF IInv, TypeInv, Attached, Promise, Stream, Owes, Paid, WritesFirst

\* The acceptor, the connector and the task that makes the pipe.
LEMMA ConnectSteps ==
  ASSUME IInv, Accept \/ AcceptorClose \/ Connect \/ ConnectingWritable \/ CreatePipe
  PROVE  IInv'
<1>1. /\ UNCHANGED <<pipe, flags, budget, reading, sent, space, avail, blocked, misused>>
      /\ conn \in {"none", "connecting", "handed"}
  BY DEF Accept, AcceptorClose, Connect, ConnectingWritable, CreatePipe, unconnected,
         thread, kernel
<1>2. \/ /\ conn' \in {"none", "connecting", "handed", "refused"}
         /\ UNCHANGED <<event, registered>>
      \/ conn' = "open" /\ event' = "active" /\ registered' = TRUE
  BY DEF Accept, AcceptorClose, Connect, ConnectingWritable, CreatePipe, unconnected,
         AcceptResults, ConnectResults, AttachHandler, AttachReactor, Arm, ArmEvent, watch
<1>3. TypeInv'
  BY <1>1, <1>2 DEF IInv, TypeInv
<1>4. Attached'
  BY <1>1, <1>2 DEF IInv, Attached
<1>5. Promise(pipe, sent, blocked)'
  BY <1>1 DEF IInv, Promise, Stream, Owes, Paid, WritesFirst
<1> QED BY <1>3, <1>4, <1>5 DEF IInv

\* A step after which the data_sink has kept its promise and closes no sooner.
LEMMA PipeSteps ==
  ASSUME IInv,
         UNCHANGED <<conn, event, registered, sent, blocked, misused>>,
         pipe' \in Sinks, Promise(pipe', sent, blocked), pipe'.closing = pipe.closing,
         reading' \in Reads, reading'.on => conn = "open",
         flags' # {} => registered,
         budget' \in Int, budget' <= Len(pipe'.tasks),
         space' \in Nat, avail' \in Nat
  PROVE  IInv'
<1>1. TypeInv'
  BY DEF IInv, TypeInv
<1>2. Attached'
  BY DEF IInv, Attached
<1>3. Promise(pipe, sent, blocked)'
  BY DEF IInv, Promise, Stream, Owes, Paid, WritesFirst
<1> QED BY <1>1, <1>2, <1>3 DEF IInv

\* The read_data that a thread is in.
LEMMA ReadTypes ==
  /\ NotReading \in Reads /\ ~NotReading.on
  /\ [NotReading EXCEPT !.onIo = TRUE, !.on = TRUE] \in Reads
  /\ [NotReading EXCEPT !.on = TRUE] \in Reads
<1>1. NotReading \in Reads /\ ~NotReading.on
  BY DEF NotReading, Reads
<1>2. ASSUME NEW r \in Reads
      PROVE  [r EXCEPT !.onIo = TRUE, !.on = TRUE] \in Reads /\ [r EXCEPT !.on = TRUE] \in Reads
  BY DEF Reads
<1> QED BY <1>1, <1>2

\* What the thread does with the data_sink: it looks at the events, of which
\* some close it, it goes on to a deferred task that does not write, and between
\* its steps the program writes and closes.
LEMMA HandleSteps ==
  ASSUME IInv,
         \/ Poll \/ RunTasks \/ HandleRead \/ HandleClose("error") \/ HandleClose("close")
         \/ SkipTask \/ ReadTask \/ ProgramWrite \/ ProgramClose
  PROVE  IInv'
<1> USE DEF kernel, watch, program, thread
<1>1. /\ pipe \in Sinks /\ sent \in Seq(Nat) /\ blocked \in BOOLEAN
      /\ space \in Nat /\ avail \in Nat /\ reading \in Reads
      /\ Promise(pipe, sent, blocked)
      /\ reading.on => conn = "open"
      /\ flags # {} => registered
      /\ budget \in Int /\ budget <= Len(pipe.tasks)
      /\ pipe.tasks \in Seq(TaskNames) /\ Len(pipe.tasks) \in Nat
      /\ pipe.tasks = << >> => Len(pipe.tasks) = 0
  BY LenProperties DEF IInv, TypeInv, Attached, Sinks
<1>2. CASE Poll
  <2>1. flags' # {} => registered
    BY <1>2 DEF Poll, Reported
  <2>2. budget' \in Int /\ budget' <= Len(pipe'.tasks)
    BY <1>1, <1>2 DEF Poll
  <2> QED BY <1>1, <1>2, <2>1, <2>2, PipeSteps DEF Poll
<1>13. CASE RunTasks
  <2>1. budget' \in Int /\ budget' <= Len(pipe'.tasks)
    BY <1>1, <1>13 DEF RunTasks
  <2> QED BY <1>1, <1>13, <2>1, PipeSteps DEF RunTasks
<1>3. CASE HandleRead
  <2>1. flags # {}
    BY <1>3 DEF HandleRead, Handling
  <2>2. registered /\ conn = "open"
    BY <1>1, <2>1 DEF IInv, Attached
  <2>3. reading' \in Reads
    BY <1>3, ReadTypes DEF HandleRead
  <2> QED BY <1>1, <1>3, <2>2, <2>3, PipeSteps DEF HandleRead
<1>4. CASE HandleClose("error") \/ HandleClose("close")
  <2>1. pipe' = Close(pipe) /\ flags # {}
    BY <1>4 DEF HandleClose, Handling
  <2>2. /\ pipe' \in Sinks /\ Promise(pipe', sent, blocked) /\ pipe'.closing = pipe.closing
        /\ Len(pipe'.tasks) >= Len(pipe.tasks)
    BY <1>1, <2>1, CloseKeeps
  <2>3. pipe'.tasks \in Seq(TaskNames) /\ Len(pipe'.tasks) \in Nat
    BY <2>2, LenProperties DEF Sinks
  <2>4. budget' \in Int /\ budget' <= Len(pipe'.tasks)
    BY <1>1, <1>4, <2>2, <2>3 DEF HandleClose
  <2> QED BY <1>1, <1>4, <2>1, <2>2, <2>4, PipeSteps DEF HandleClose
<1>5. CASE ProgramWrite \/ ProgramClose
  <2>1. pipe' = Close(pipe) \/ pipe' = Write(pipe)
    BY <1>5 DEF ProgramWrite, ProgramClose
  <2>2. /\ pipe' \in Sinks /\ Promise(pipe', sent, blocked) /\ pipe'.closing = pipe.closing
        /\ Len(pipe'.tasks) >= Len(pipe.tasks)
    BY <1>1, <2>1, CloseKeeps, WriteKeeps
  <2>3. UNCHANGED <<conn, event, registered, sent, blocked, misused, reading, flags, budget,
                    space, avail>>
    BY <1>5 DEF ProgramWrite, ProgramClose
  <2>4. pipe'.tasks \in Seq(TaskNames) /\ Len(pipe'.tasks) \in Nat
    BY <2>2, LenProperties DEF Sinks
  <2>5. budget' \in Int /\ budget' <= Len(pipe'.tasks)
    BY <1>1, <2>2, <2>3, <2>4
  <2> QED BY <1>1, <2>2, <2>3, <2>5, PipeSteps
<1>6. CASE SkipTask \/ ReadTask
  <2>1. /\ budget > 0 /\ budget' = budget - 1
        /\ pipe' = NextTask(pipe)
        /\ conn = "gone" \/ Head(pipe.tasks) = "read"
        /\ UNCHANGED <<conn, event, registered, sent, blocked, misused, flags, space, avail>>
    BY <1>6 DEF SkipTask, ReadTask, Task
  <2>2. pipe.tasks # << >> /\ (pipe.closing \/ Head(pipe.tasks) # "write")
    BY <1>1, <2>1 DEF IInv, Attached
  <2>3. /\ pipe' \in Sinks /\ Promise(pipe', sent, blocked) /\ pipe'.closing = pipe.closing
        /\ Len(pipe'.tasks) = Len(pipe.tasks) - 1
    BY <1>1, <2>1, <2>2, NextTaskKeeps
  <2>4. budget' \in Int /\ budget' <= Len(pipe'.tasks)
    BY <1>1, <2>1, <2>3
  <2>5. reading' \in Reads /\ (reading'.on => conn = "open")
    BY <1>1, <1>6, ReadTypes DEF SkipTask, ReadTask
  <2> QED BY <1>1, <2>1, <2>3, <2>4, <2>5, PipeSteps
<1> QED BY <1>2, <1>3, <1>4, <1>5, <1>6, <1>13

\* epoll_ctl does not fail while the event is active.
LEMMA ChangesState ==
  ASSUME IInv, conn = "open", ~pipe.closing, NEW new, ChangeState(new)
  PROVE  ~misused' /\ UNCHANGED registered
BY DEF IInv, Attached, ChangeState, ModEvent

\* A step in which the data_sink writes.  It is not closing, so the event is
\* active when the interest in it changes.
LEMMA WritingSteps ==
  ASSUME IInv, conn = "open", ~pipe.closing,
         UNCHANGED <<conn, event, registered, reading>>, ~misused',
         pipe' \in Sinks, Promise(pipe', sent', blocked'), ~pipe'.closing,
         flags' \subseteq flags,
         budget' \in Int, budget' <= Len(pipe'.tasks),
         sent' \in Seq(Nat), blocked' \in BOOLEAN, space' \in Nat, avail' \in Nat
  PROVE  IInv'
<1>1. TypeInv'
  BY DEF IInv, TypeInv
<1>2. Attached'
  BY DEF IInv, Attached
<1>3. Promise(pipe, sent, blocked)'
  BY DEF Promise, Stream, Owes, Paid, WritesFirst
<1> QED BY <1>1, <1>2, <1>3 DEF IInv

LEMMA HandleWriteStep ==
  ASSUME IInv, HandleWrite
  PROVE  IInv'
<1>1. flags # {} /\ flags' \subseteq flags
  BY DEF HandleWrite, Handling
<1>2. conn = "open" /\ ~pipe.closing
  BY <1>1 DEF IInv, Attached
<1>3. /\ UNCHANGED <<conn, event, budget, reading>>
      /\ pipe \in Sinks /\ Promise(pipe, sent, blocked)
      /\ sent \in Seq(Nat) /\ blocked \in BOOLEAN /\ space \in Nat /\ avail \in Nat
      /\ budget \in Int /\ budget <= Len(pipe.tasks)
  BY DEF HandleWrite, program, IInv, TypeInv
<1>4. CASE pipe.buf = << >>
  <2>1. UNCHANGED <<pipe, sent, space, avail, blocked, registered, misused>>
    BY <1>4 DEF HandleWrite, kernel
  <2> QED BY <1>1, <1>2, <1>3, <2>1, WritingSteps DEF IInv, Attached
<1>5. CASE pipe.buf # << >>
  <2>1. WriteBuffer /\ pipe' = Rest(pipe) /\ ExpectWrite(Taken < Len(pipe.buf))
    BY <1>5 DEF HandleWrite
  <2>2. ~misused' /\ UNCHANGED registered
    BY <1>2, <2>1, ChangesState DEF ExpectWrite
  <2>3. /\ Stream(pipe, sent)
        /\ pipe.owed = -1 => ~Contains(pipe.tasks, "close")
        /\ pipe.owed <= pipe.written
        /\ pipe.scheduled => Contains(pipe.tasks, "write")
        /\ ~Contains(pipe.tasks, "release")
    BY <1>2, <1>3 DEF Promise, Owes
  <2>4. /\ sent' \in Seq(Nat) /\ space' \in Nat /\ avail' \in Nat /\ blocked' \in BOOLEAN
        /\ Rest(pipe) \in Sinks /\ Promise(Rest(pipe), sent', blocked')
        /\ ~Rest(pipe).closing /\ Rest(pipe).tasks = pipe.tasks
    BY <1>2, <1>3, <2>1, <2>3, WriteBufferKeeps DEF IInv
  <2> QED BY <1>1, <1>2, <1>3, <2>1, <2>2, <2>4, WritingSteps
<1> QED BY <1>4, <1>5

LEMMA WriteTaskStep ==
  ASSUME IInv, WriteTask
  PROVE  IInv'
<1> DEFINE p == [NextTask(pipe) EXCEPT !.scheduled = FALSE]
           ts == pipe.tasks
<1>1. /\ conn = "open" /\ budget > 0 /\ Head(ts) = "write"
      /\ budget' = budget - 1
      /\ UNCHANGED <<conn, event, flags, reading>>
      /\ pipe \in Sinks /\ Promise(pipe, sent, blocked)
      /\ sent \in Seq(Nat) /\ blocked \in BOOLEAN /\ space \in Nat /\ avail \in Nat
      /\ reading \in Reads
      /\ budget \in Int /\ budget <= Len(ts)
  BY DEF WriteTask, Task, program, IInv, TypeInv
<1>2. /\ ts \in Seq(TaskNames) /\ ts # << >> /\ Len(ts) \in Nat
  BY <1>1, LenProperties, EmptySeq DEF Sinks
<1>3. /\ Tail(ts) \in Seq(TaskNames)
      /\ Len(Tail(ts)) = Len(ts) - 1
      /\ \A n : Contains(Tail(ts), n) => Contains(ts, n)
  BY <1>2, TailTask
<1>4. /\ p \in Sinks
      /\ p.buf = pipe.buf /\ p.written = pipe.written /\ p.scheduled = FALSE
      /\ p.closing = pipe.closing /\ p.owed = pipe.owed /\ p.tasks = Tail(ts)
  <2>1. pipe \in Sinks /\ NextTask(pipe) = [pipe EXCEPT !.tasks = Tail(ts)]
    BY <1>1 DEF NextTask
  <2>2. p = [pipe EXCEPT !.tasks = Tail(ts), !.scheduled = FALSE]
    BY <2>1 DEF Sinks
  <2> QED BY <1>3, <2>1, <2>2 DEF Sinks
<1>5. budget' \in Int /\ budget' <= Len(p.tasks)
  <2>1. budget' \in Int /\ budget' <= Len(Tail(ts))
    BY <1>1, <1>2, <1>3
  <2> QED BY <1>4, <2>1
<1>6. Stream(p, sent)
  BY <1>1, <1>4 DEF Promise, Stream
<1>7. CASE pipe.closing
  <2>1. pipe' = p /\ UNCHANGED <<registered, sent, space, avail, blocked, misused>>
    BY <1>4, <1>7 DEF WriteTask, kernel
  <2>2. /\ pipe.owed # -1 /\ pipe.owed <= pipe.written /\ Paid(pipe, sent, blocked)
    BY <1>1, <1>7 DEF Promise, Owes
  <2>3. Owes(p, sent, blocked)
    BY <1>4, <1>7, <2>2 DEF Owes, Paid
  <2>4. reading.on => conn = "open"
    BY DEF IInv, Attached
  <2>5. flags' # {} => registered
    BY <1>1 DEF IInv, Attached
  <2> QED BY <1>1, <1>4, <1>5, <1>6, <2>1, <2>3, <2>4, <2>5, PipeSteps DEF Promise
<1>8. CASE ~pipe.closing
  <2>1. /\ p.owed = -1 => ~Contains(p.tasks, "close")
        /\ p.owed <= p.written
        /\ p.scheduled => Contains(p.tasks, "write")
        /\ ~Contains(p.tasks, "release")
        /\ ~p.closing
    BY <1>1, <1>3, <1>4, <1>8 DEF Promise, Owes
  <2>2. CASE pipe.buf = << >>
    <3>1. pipe' = p /\ UNCHANGED <<registered, sent, space, avail, blocked, misused>>
      BY <1>4, <1>8, <2>2 DEF WriteTask, kernel
    <3>2. Len(sent) = pipe.written
      <4>1. sent = [i \in 1 .. pipe.written |-> i]
        BY <1>1, <2>2, ConcatEmptySeq DEF Promise, Stream
      <4>2. pipe.written \in Nat
        BY <1>1 DEF Sinks
      <4> QED BY <4>1, <4>2
    <3>3. Paid(p, sent, blocked)
      BY <1>4, <2>1, <3>2 DEF Paid
    <3>4. Owes(p, sent, blocked)
      BY <1>4, <1>8, <2>1, <2>2, <3>3 DEF Owes
    <3>5. ~misused'
      BY <3>1 DEF IInv, Attached
    <3> QED BY <1>1, <1>4, <1>5, <1>6, <1>8, <2>1, <3>1, <3>4, <3>5, WritingSteps DEF Promise
  <2>3. CASE pipe.buf # << >>
    <3>1. /\ WriteBuffer
          /\ \/ /\ pipe' = Rest(p)
                /\ \/ UNCHANGED <<registered, misused>>
                   \/ ExpectWrite(TRUE)
             \/ /\ peer = "broken"
                /\ pipe' = Close(p)
                /\ UNCHANGED <<registered, misused>>
      BY <1>4, <1>8, <2>3 DEF WriteTask, WriteResults
    <3>2. ~misused' /\ UNCHANGED registered
      <4>1. CASE UNCHANGED <<registered, misused>>
        BY <4>1 DEF IInv, Attached
      <4>2. CASE ExpectWrite(TRUE)
        BY <1>1, <1>8, <4>2, ChangesState DEF ExpectWrite
      <4> QED BY <3>1, <4>1, <4>2
    <3>3. /\ sent' \in Seq(Nat) /\ space' \in Nat /\ avail' \in Nat /\ blocked' \in BOOLEAN
          /\ Rest(p) \in Sinks /\ Promise(Rest(p), sent', blocked')
          /\ ~Rest(p).closing /\ Rest(p).tasks = p.tasks
          /\ peer = "broken" => Rest(p) = p
      BY <1>4, <1>6, <2>1, <3>1, WriteBufferKeeps DEF IInv
    <3>4. CASE pipe' = Rest(p)
      BY <1>1, <1>5, <1>8, <3>2, <3>3, <3>4, WritingSteps
    <3>5. CASE peer = "broken" /\ pipe' = Close(p)
      <4>1. /\ pipe' \in Sinks /\ Promise(pipe', sent', blocked') /\ ~pipe'.closing
            /\ Len(pipe'.tasks) >= Len(p.tasks)
        BY <2>1, <3>3, <3>5, CloseKeeps
      <4>2. Len(pipe'.tasks) \in Nat /\ Len(p.tasks) \in Nat
        BY <1>4, <4>1, LenProperties DEF Sinks
      <4>3. budget' <= Len(pipe'.tasks)
        BY <1>5, <4>1, <4>2
      <4> QED BY <1>1, <1>5, <1>8, <3>2, <3>3, <4>1, <4>3, WritingSteps
    <3> QED BY <3>1, <3>4, <3>5
  <2> QED BY <2>2, <2>3
<1> QED BY <1>7, <1>8

\* The task of close: what was owed is paid, and the event is cancelled.
LEMMA CloseTaskStep ==
  ASSUME IInv, CloseTask
  PROVE  IInv'
<1> DEFINE n == NextTask(pipe)
           p == [n EXCEPT !.closing = TRUE]
           u == [p EXCEPT !.tasks = Append(@, "release")]
<1>1. /\ conn = "open" /\ budget > 0 /\ Head(pipe.tasks) = "close"
      /\ budget' = budget - 1
      /\ UNCHANGED <<conn, flags, reading, sent, space, avail, blocked, misused>>
      /\ flags = {}
      /\ Cancel(p)
  BY DEF CloseTask, Task, Idle, program, kernel
<1>2. /\ pipe \in Sinks /\ Promise(pipe, sent, blocked)
      /\ sent \in Seq(Nat) /\ blocked \in BOOLEAN
      /\ budget \in Int /\ budget <= Len(pipe.tasks)
  BY DEF IInv, TypeInv
<1>3. pipe.tasks \in Seq(TaskNames) /\ pipe.tasks # << >> /\ Len(pipe.tasks) \in Nat
  BY <1>1, <1>2, LenProperties, EmptySeq DEF Sinks
<1>4. /\ n \in Sinks /\ Promise(n, sent, blocked)
      /\ n.closing = pipe.closing
      /\ Len(n.tasks) = Len(pipe.tasks) - 1
      /\ pipe.owed # -1 /\ Paid(pipe, sent, blocked)
  BY <1>1, <1>2, <1>3, NextTaskKeeps
<1>5. n.owed = pipe.owed /\ n.written = pipe.written
  BY <1>2 DEF NextTask, Sinks
<1>6. /\ p \in Sinks
      /\ p.buf = n.buf /\ p.written = n.written /\ p.closing = TRUE
      /\ p.owed = n.owed /\ p.tasks = n.tasks
  <2>1. n \in Sinks
    BY <1>4
  <2> HIDE DEF n
  <2> QED BY <2>1 DEF Sinks
<1>7. Promise(p, sent, blocked)
  <2>1. Stream(p, sent) /\ n.owed <= n.written
    BY <1>4, <1>6 DEF Promise, Stream, Owes
  <2> QED BY <1>4, <1>5, <1>6, <2>1 DEF Promise, Owes, Paid
<1>8. /\ u \in Sinks /\ Promise(u, sent, blocked) /\ u.closing = TRUE
      /\ Len(u.tasks) >= Len(p.tasks)
  <2>1. p \in Sinks
    BY <1>6
  <2>2. p.tasks \in Seq(TaskNames) /\ "release" \in TaskNames
    BY <2>1 DEF Sinks, TaskNames
  <2>3. Append(p.tasks, "release") \in Seq(TaskNames)
        /\ Len(Append(p.tasks, "release")) = Len(p.tasks) + 1
        /\ Len(p.tasks) \in Nat
    BY <2>2, AppendTask
  <2>4. /\ u \in Sinks
        /\ u.buf = p.buf /\ u.written = p.written /\ u.closing = p.closing
        /\ u.owed = p.owed /\ u.tasks = Append(p.tasks, "release")
    <3> HIDE DEF p
    <3> QED BY <2>1, <2>3 DEF Sinks
  <2>5. Len(u.tasks) >= Len(p.tasks)
    BY <2>3, <2>4
  <2> QED BY <1>4, <1>5, <1>6, <1>7, <2>4, <2>5 DEF Promise, Stream, Owes, Paid
<1>9. \/ /\ event = "active" /\ event' = "cancelled" /\ registered' = FALSE /\ pipe' = u
      \/ /\ event # "active" /\ pipe' = p /\ UNCHANGED <<event, registered>>
  BY <1>1 DEF Cancel, DelEvent
<1>10. /\ pipe' \in Sinks /\ Promise(pipe', sent, blocked) /\ pipe'.closing = TRUE
       /\ Len(pipe'.tasks) >= Len(n.tasks)
  <2>1. Len(p.tasks) = Len(n.tasks) /\ Len(n.tasks) \in Int
    BY <1>3, <1>4, <1>6
  <2>2. CASE pipe' = p
    BY <1>6, <1>7, <2>1, <2>2
  <2>3. CASE pipe' = u
    BY <1>8, <2>1, <2>3
  <2> QED BY <1>9, <2>2, <2>3
<1>11. budget' \in Int /\ budget' <= Len(pipe'.tasks)
  <2>1. pipe'.tasks \in Seq(TaskNames) /\ Len(pipe'.tasks) \in Nat
    BY <1>10, LenProperties DEF Sinks
  <2>2. budget' \in Int /\ budget' <= Len(pipe.tasks) - 1
    BY <1>1, <1>2, <1>3
  <2>3. Len(pipe'.tasks) >= Len(pipe.tasks) - 1
    BY <1>4, <1>10
  <2> QED BY <1>3, <2>1, <2>2, <2>3
<1>12. TypeInv'
  BY <1>1, <1>9, <1>10, <1>11 DEF IInv, TypeInv
<1>13. event' # "active" /\ registered' = FALSE
  BY <1>1, <1>9 DEF IInv, Attached
<1>14. Attached'
  BY <1>1, <1>10, <1>13 DEF IInv, Attached
<1>15. Promise(pipe, sent, blocked)'
  BY <1>1, <1>10 DEF Promise, Stream, Owes, Paid, WritesFirst
<1> QED BY <1>12, <1>14, <1>15 DEF IInv

\* The task that lets go of the handler: it is there only after a close.
LEMMA ReleaseTaskStep ==
  ASSUME IInv, ReleaseTask
  PROVE  IInv'
<1>1. /\ conn = "open" /\ budget > 0 /\ Head(pipe.tasks) = "release"
      /\ budget' = budget - 1
      /\ UNCHANGED <<flags, reading, sent, space, avail, blocked, misused>>
      /\ flags = {} /\ ~reading.on
      /\ event' = "released" /\ conn' = "gone" /\ registered' = FALSE
      /\ pipe' = NextTask(pipe)
  BY DEF ReleaseTask, Task, Idle, kernel, DetachHandler, SocketClose
<1>2. /\ pipe \in Sinks /\ Promise(pipe, sent, blocked)
      /\ sent \in Seq(Nat) /\ blocked \in BOOLEAN
      /\ budget \in Int /\ budget <= Len(pipe.tasks)
  BY DEF IInv, TypeInv
<1>3. pipe.tasks \in Seq(TaskNames) /\ pipe.tasks # << >> /\ Len(pipe.tasks) \in Nat
  BY <1>1, <1>2, LenProperties, EmptySeq DEF Sinks
<1>4. /\ pipe' \in Sinks /\ Promise(pipe', sent, blocked)
      /\ pipe'.closing = pipe.closing /\ pipe.closing
      /\ Len(pipe'.tasks) = Len(pipe.tasks) - 1
  BY <1>1, <1>2, <1>3, NextTaskKeeps
<1>5. TypeInv'
  <2>1. budget' \in Int /\ budget' <= Len(pipe'.tasks)
    BY <1>1, <1>2, <1>3, <1>4
  <2> QED BY <1>1, <1>4, <2>1 DEF IInv, TypeInv
<1>6. Attached'
  BY <1>1, <1>4 DEF IInv, Attached
<1>7. Promise(pipe, sent, blocked)'
  BY <1>1, <1>4 DEF Promise, Stream, Owes, Paid, WritesFirst
<1> QED BY <1>5, <1>6, <1>7 DEF IInv

\* The end of read_data leaves the data_sink to the codec.
LEMMA ForwardTypes ==
  ASSUME NEW r \in Reads, NEW p, Forward(r, p)
  PROVE  pipe' = p /\ reading' \in Reads
BY ReadTypes DEF Forward

\* A turn of read_data.  It asks for more only of a data_sink that does not
\* close.
LEMMA ReadLoopStep ==
  ASSUME IInv, ReadLoop
  PROVE  IInv'
<1>1. /\ reading.on
      /\ UNCHANGED <<conn, event, budget, flags, sent, space, blocked>>
  BY DEF ReadLoop, ReadTurn, program
<1>2. /\ pipe \in Sinks /\ Promise(pipe, sent, blocked) /\ reading \in Reads
      /\ sent \in Seq(Nat) /\ blocked \in BOOLEAN /\ avail \in Nat /\ space \in Nat
      /\ budget \in Int /\ budget <= Len(pipe.tasks)
      /\ conn = "open" /\ (flags # {} => registered)
  BY <1>1 DEF IInv, TypeInv, Attached
<1>3. ASSUME NEW k \in Nat PROVE Grown(reading, k) \in Reads
  <2>1. reading.got \in Int
    BY <1>2 DEF Reads
  <2>2. PICK v \in Int : v = (IF reading.got = -1 THEN 0 ELSE reading.got) + k
    BY <2>1
  <2>3. [reading EXCEPT !.got = v] \in Reads
    BY <1>2 DEF Reads
  <2> QED BY <2>2, <2>3 DEF Grown
<1>4. /\ Len(pipe.tasks) \in Nat
      /\ pipe.closing \in BOOLEAN
  BY <1>2, LenProperties DEF Sinks
<1>5. CASE pipe.closing
  <2>1. Forward(reading, pipe) /\ UNCHANGED <<avail, registered, misused>>
    BY <1>5 DEF ReadLoop, ReadTurn
  <2> QED BY <1>1, <1>2, <2>1, ForwardTypes, PipeSteps
<1>6. CASE ~pipe.closing /\ ReadResult = "data"
  <2> DEFINE r == Grown(reading, avail)
             q == [pipe EXCEPT !.tasks = Append(@, "read")]
  <2>1. r \in Reads
    BY <1>2, <1>3
  <2>2. /\ avail' = 0 /\ UNCHANGED <<registered, misused>>
        /\ \/ Forward(r, q)
           \/ /\ reading' = [r EXCEPT !.loops = IF r.onIo /\ @ < 2 THEN @ + 1 ELSE @]
              /\ UNCHANGED pipe
    BY <1>6 DEF ReadLoop, ReadTurn, ReadResult
  <2>3. CASE Forward(r, q)
    <3>1. pipe' = q /\ reading' \in Reads
      BY <2>1, <2>3, ForwardTypes
    <3>2. /\ q \in Sinks /\ Promise(q, sent, blocked) /\ q.closing = pipe.closing
          /\ Len(q.tasks) >= Len(pipe.tasks)
      BY <1>2, DeferReadKeeps
    <3>3. Len(q.tasks) \in Nat
      BY <3>2, LenProperties DEF Sinks
    <3>4. budget' \in Int /\ budget' <= Len(pipe'.tasks)
      BY <1>1, <1>2, <1>4, <3>1, <3>2, <3>3
    <3> QED BY <1>1, <1>2, <2>2, <3>1, <3>2, <3>4, PipeSteps
  <2>4. CASE /\ reading' = [r EXCEPT !.loops = IF r.onIo /\ @ < 2 THEN @ + 1 ELSE @]
             /\ UNCHANGED pipe
    <3>1. reading' \in Reads
      <4> HIDE DEF r
      <4>1. PICK k \in Int : k = IF r.onIo /\ r.loops < 2 THEN r.loops + 1 ELSE r.loops
        BY <2>1 DEF Reads
      <4>2. [r EXCEPT !.loops = k] \in Reads
        BY <2>1 DEF Reads
      <4> QED BY <2>4, <4>1, <4>2
    <3> QED BY <1>1, <1>2, <2>2, <2>4, <3>1, PipeSteps
  <2> QED BY <2>2, <2>3, <2>4
<1>7. CASE ~pipe.closing /\ ReadResult = "retry"
  <2>1. ExpectRead /\ Forward(Grown(reading, 0), pipe) /\ UNCHANGED avail
    BY <1>7 DEF ReadLoop, ReadTurn, ReadResult
  <2>2. ~misused' /\ UNCHANGED registered
    BY <1>2, <1>7, <2>1, ChangesState DEF ExpectRead
  <2>3. ~misused
    BY DEF IInv, Attached
  <2>4. pipe' = pipe /\ reading' \in Reads
    BY <1>3, <2>1, ForwardTypes
  <2>5. TypeInv'
    BY <1>1, <2>1, <2>2, <2>4 DEF IInv, TypeInv
  <2>6. Attached'
    BY <1>1, <1>2, <2>2, <2>4 DEF IInv, Attached
  <2>7. Promise(pipe, sent, blocked)'
    BY <1>1, <1>2, <2>4 DEF Promise, Stream, Owes, Paid, WritesFirst
  <2> QED BY <2>5, <2>6, <2>7 DEF IInv
<1>8. CASE ~pipe.closing /\ ReadResult = "error"
  <2>1. /\ Forward([Grown(reading, 0) EXCEPT !.close = TRUE], pipe)
        /\ UNCHANGED <<avail, registered, misused>>
    BY <1>8 DEF ReadLoop, ReadTurn, ReadResult
  <2>2. [Grown(reading, 0) EXCEPT !.close = TRUE] \in Reads
    <3>1. PICK r \in Reads : r = Grown(reading, 0)
      BY <1>3
    <3>2. [r EXCEPT !.close = TRUE] \in Reads
      BY DEF Reads
    <3> QED BY <3>1, <3>2
  <2>3. pipe' = pipe /\ reading' \in Reads
    BY <2>1, <2>2, ForwardTypes
  <2> QED BY <1>1, <1>2, <2>1, <2>3, PipeSteps
<1> QED BY <1>5, <1>6, <1>7, <1>8 DEF ReadResult

\* A round of decode, whatever it finds.
LEMMA DecodeStep ==
  ASSUME IInv, Decode
  PROVE  IInv'
<1>1. UNCHANGED <<conn, event, registered, budget, flags, sent, space, avail, blocked, misused>>
  BY DEF Decode, program, watch, thread, kernel
<1>2. /\ pipe \in Sinks /\ Promise(pipe, sent, blocked) /\ reading \in Reads
      /\ sent \in Seq(Nat) /\ blocked \in BOOLEAN /\ avail \in Nat /\ space \in Nat
      /\ budget \in Int /\ budget <= Len(pipe.tasks)
      /\ (reading.on => conn = "open") /\ (flags # {} => registered)
  BY DEF IInv, TypeInv, Attached
<1>3. \E what : pipe' = Told(pipe, what) \/ pipe' = Close(Told(pipe, what))
  BY DEF Decode
<1>4. reading' = reading \/ reading' = NotReading
  BY DEF Decode
<1>5. /\ pipe' \in Sinks /\ Promise(pipe', sent, blocked) /\ pipe'.closing = pipe.closing
      /\ Len(pipe'.tasks) >= Len(pipe.tasks)
  <2>1. PICK what : pipe' = Told(pipe, what) \/ pipe' = Close(Told(pipe, what))
    BY <1>3
  <2>2. PICK p : p = Told(pipe, what)
    OBVIOUS
  <2>3. /\ p \in Sinks /\ Promise(p, sent, blocked) /\ p.closing = pipe.closing
        /\ Len(p.tasks) >= Len(pipe.tasks)
    BY <1>2, <2>2, ToldKeeps
  <2>4. /\ Close(p) \in Sinks /\ Promise(Close(p), sent, blocked)
        /\ Close(p).closing = p.closing
        /\ Len(Close(p).tasks) >= Len(p.tasks)
    BY <1>2, <2>3, CloseKeeps
  <2>5. Len(p.tasks) \in Nat /\ Len(pipe.tasks) \in Nat /\ Len(Close(p).tasks) \in Nat
    BY <1>2, <2>3, <2>4, LenProperties DEF Sinks
  <2> QED BY <2>1, <2>2, <2>3, <2>4, <2>5
<1>6. Len(pipe'.tasks) \in Nat /\ Len(pipe.tasks) \in Nat
  BY <1>2, <1>5, LenProperties DEF Sinks
<1>7. budget' \in Int /\ budget' <= Len(pipe'.tasks)
  BY <1>1, <1>2, <1>5, <1>6
<1>8. reading' \in Reads /\ (reading'.on => conn = "open")
  BY <1>2, <1>4, ReadTypes
<1> QED BY <1>1, <1>2, <1>5, <1>7, <1>8, PipeSteps

\* The peer and the kernel.
LEMMA KernelSteps ==
  ASSUME IInv,
         \/ (\E n \in ChunkSizes : Arrive(n)) \/ ArriveMore
         \/ Leave("shut") \/ Leave("broken") \/ Drain
  PROVE  IInv'
<1>1. UNCHANGED <<conn, event, registered, pipe, reading, flags, budget, sent, blocked, misused>>
  BY DEF Arrive, ArriveMore, Leave, Drain, program, watch, thread
<1>2. space \in Nat /\ avail \in Nat
  BY DEF IInv, TypeInv
<1>3. space' \in Nat
  BY <1>2, ConnectionAssumption DEF Arrive, ArriveMore, Leave, Drain
<1>4. avail' \in Nat
  BY <1>2, ConnectionAssumption DEF Arrive, ArriveMore, Leave, Drain
<1> QED BY <1>1, <1>3, <1>4, Stutters

LEMMA NextIInv == IInv /\ [Next]_vars => IInv'
<1> SUFFICES ASSUME IInv, [Next]_vars PROVE IInv'
  OBVIOUS
<1>1. CASE UNCHANGED vars
  BY <1>1, Stutters DEF vars, IInv, TypeInv
<1>2. CASE Shard
  BY <1>2, HandleSteps, HandleWriteStep, WriteTaskStep, CloseTaskStep, ReleaseTaskStep,
     ReadLoopStep, DecodeStep DEF Shard
<1>3. CASE Environment
  BY <1>3, ConnectSteps, HandleSteps, KernelSteps DEF Environment
<1>4. CASE Drain
  BY <1>4, KernelSteps
<1> QED BY <1>1, <1>2, <1>3, <1>4 DEF Next

\* Whatever the peer, the kernel, the decoder and the program do, the thread
\* changes its event only while epoll has it.
THEOREM EventUsed == Spec => []EventUsedWhileActive
<1>1. IInv => EventUsedWhileActive
  BY DEF IInv, Attached, EventUsedWhileActive
<1> QED BY <1>1, InitIInv, NextIInv, PTL DEF Spec

\* What was written reaches the kernel once and in order, and what was written
\* before close was first called is there when the data_sink closes, unless the
\* last write could not pass on everything.
THEOREM Flushed == Spec => []FlushedBeforeClose
<1>1. IInv => FlushedBeforeClose
  BY DEF IInv, Promise, Stream, Owes, Paid, FlushedBeforeClose
<1> QED BY <1>1, InitIInv, NextIInv, PTL DEF Spec

----------------------------------------------------------------------------
(***************************************************************************)
(* The filters of a pipe.  First Only: it is recursive, and what it keeps  *)
(* is shown by induction.                                                  *)
(***************************************************************************)

\* q, and x behind it if x is in S.
Keep(q, x, S) == IF x \in S THEN Append(q, x) ELSE q

\* What Only computes for the first i contexts of s.
Chooses(g, s, S) ==
  /\ g[0] = << >>
  /\ \A i \in 1 .. Len(s) : g[i] = Keep(g[i - 1], s[i], S)

\* The same as a function of i and of the value before.
Choice(A, s, S) == [p \in (1 .. Len(s)) \X Seq(A) |-> Keep(p[2], s[p[1]], S)]

\* Keep and Choice make lists of contexts.
LEMMA KeepType ==
  ASSUME NEW A, NEW q \in Seq(A), NEW x \in A, NEW S
  PROVE  Keep(q, x, S) \in Seq(A)
  BY AppendProperties DEF Keep

LEMMA ChoiceType ==
  ASSUME NEW A, NEW s \in Seq(A), NEW S
  PROVE  Choice(A, s, S) \in [(1 .. Len(s)) \X Seq(A) -> Seq(A)]
  <1>1. ASSUME NEW p \in (1 .. Len(s)) \X Seq(A)
        PROVE  Keep(p[2], s[p[1]], S) \in Seq(A)
    <2>1. p[1] \in 1 .. Len(s) /\ p[2] \in Seq(A)
      OBVIOUS
    <2>2. s[p[1]] \in A
      BY <2>1, ElementOfSeq
    <2> QED BY <2>1, <2>2, KeepType
  <1> QED BY <1>1 DEF Choice

LEMMA ChoiceValue ==
  ASSUME NEW A, NEW s, NEW S, NEW i \in 1 .. Len(s), NEW q \in Seq(A)
  PROVE  Choice(A, s, S)[<<i, q>>] = Keep(q, s[i], S)
  BY DEF Choice

\* There is one way to compute it,
LEMMA ChoosesUnique ==
  ASSUME NEW n \in Nat, NEW s, Len(s) = n, NEW S,
         NEW g, NEW h, Chooses(g, s, S), Chooses(h, s, S)
  PROVE  \A i \in 0 .. n : g[i] = h[i]
  <1> DEFINE T == {i \in 0 .. n : g[i] # h[i]}
  <1>1. SUFFICES ASSUME T # {} PROVE FALSE
    OBVIOUS
  <1>2. T \subseteq Nat
    OBVIOUS
  <1>3. PICK m \in T : \A i \in T : m <= i
    <2> HIDE DEF T
    <2> QED BY <1>1, <1>2, LeastLength
  <1>4. m # 0
    BY <1>3 DEF Chooses
  <1>5. m \in 1 .. n /\ m - 1 \in 0 .. n /\ m - 1 \notin T
    BY <1>3, <1>4
  <1>6. g[m - 1] = h[m - 1]
    BY <1>5
  <1>7. g[m] = Keep(g[m - 1], s[m], S) /\ h[m] = Keep(h[m - 1], s[m], S)
    BY <1>5 DEF Chooses
  <1>8. g[m] # h[m]
    BY <1>3
  <1> QED BY <1>6, <1>7, <1>8

\* and what it computes is Only.
LEMMA OnlyChooses ==
  ASSUME NEW A, NEW s \in Seq(A), NEW S
  PROVE  \E g \in [0 .. Len(s) -> Seq(A)] :
           Chooses(g, s, S) /\ P!Only(s, S) = g[Len(s)]
  <1> DEFINE Is(g) == g = [i \in 0 .. Len(s) |->
                             IF i = 0 THEN << >>
                             ELSE Keep(g[i - 1], s[i], S)]
  <1>1. Len(s) \in Nat /\ << >> \in Seq(A)
    BY LenProperties, EmptySeq
  <1>2. ASSUME NEW g \in [0 .. Len(s) -> Seq(A)]
        PROVE  Recurs(g, << >>, Choice(A, s, S), Len(s)) <=> Chooses(g, s, S)
    <2>1. ASSUME NEW i \in 1 .. Len(s)
          PROVE  Choice(A, s, S)[<<i, g[i - 1]>>]
                   = Keep(g[i - 1], s[i], S)
      <3>1. g[i - 1] \in Seq(A)
        <4>1. i - 1 \in 0 .. Len(s)
          BY <1>1
        <4> QED BY <4>1
      <3>2. PICK q \in Seq(A) : q = g[i - 1]
        BY <3>1
      <3>3. Choice(A, s, S)[<<i, q>>] = Keep(q, s[i], S)
        BY ChoiceValue
      <3> QED BY <3>2, <3>3
    <2> QED BY <2>1 DEF Recurs, Chooses
  <1>3. PICK g \in [0 .. Len(s) -> Seq(A)] : Chooses(g, s, S)
    <2>1. Choice(A, s, S) \in [(1 .. Len(s)) \X Seq(A) -> Seq(A)]
      BY ChoiceType
    <2>2. \E g \in [0 .. Len(s) -> Seq(A)] : Recurs(g, << >>, Choice(A, s, S), Len(s))
      BY <1>1, <2>1, RecursionDefined
    <2> QED BY <1>2, <2>2
  <1>4. Is(g)
    <2> DEFINE k == [i \in 0 .. Len(s) |->
                       IF i = 0 THEN << >>
                       ELSE Keep(g[i - 1], s[i], S)]
    <2>1. ASSUME NEW i \in 0 .. Len(s) PROVE g[i] = k[i]
      <3>1. CASE i = 0
        BY <1>3, <3>1 DEF Chooses
      <3>2. CASE i # 0
        <4>1. i \in 1 .. Len(s)
          BY <1>1, <3>2
        <4>2. k[i] = Keep(g[i - 1], s[i], S)
          BY <3>2
        <4> HIDE DEF k
        <4> QED BY <1>3, <4>1, <4>2 DEF Chooses
      <3> QED BY <3>1, <3>2
    <2>2. g = k
      BY <2>1
    <2> QED BY <2>2
  <1>5. ASSUME NEW h, Is(h) PROVE Chooses(h, s, S)
    <2> DEFINE d == 0 .. Len(s)
               v(i) == IF i = 0 THEN << >>
                       ELSE Keep(h[i - 1], s[i], S)
    <2>1. h = [i \in d |-> v(i)]
      BY <1>5
    <2>2. \A i \in d : h[i] = v(i)
      <3> HIDE DEF d, v, Is
      <3> QED BY <2>1
    <2>3. 0 \in d /\ \A i \in 1 .. Len(s) : i \in d /\ i # 0
      BY <1>1
    <2> QED BY <2>2, <2>3 DEF Chooses
  <1> DEFINE h == CHOOSE x : Is(x)
  <1>6. Is(h)
    <2> HIDE DEF Is
    <2> QED BY <1>4
  <1>7. P!Only(s, S) = h[Len(s)]
    BY DEF P!Only, Keep
  <1>8. \A i \in 0 .. Len(s) : g[i] = h[i]
    <2> HIDE DEF h, Is
    <2>1. Chooses(h, s, S)
      BY <1>5, <1>6
    <2> QED BY <1>1, <1>3, <2>1, ChoosesUnique
  <1> HIDE DEF h, Is
  <1>9. P!Only(s, S) = g[Len(s)]
    BY <1>1, <1>7, <1>8
  <1> QED BY <1>3, <1>9

\* Only, of nothing and of one context more.
LEMMA OnlyEmpty ==
  ASSUME NEW S
  PROVE  P!Only(<< >>, S) = << >>
  <1>1. PICK s \in Seq({}) : s = << >> /\ Len(s) = 0
    BY EmptySeq
  <1>2. PICK g : Chooses(g, s, S) /\ P!Only(s, S) = g[Len(s)]
    BY OnlyChooses
  <1> QED BY <1>1, <1>2 DEF Chooses

LEMMA OnlyAppend ==
  ASSUME NEW A, NEW s \in Seq(A), NEW x \in A, NEW S
  PROVE  /\ P!Only(s, S) \in Seq(A)
         /\ P!Only(Append(s, x), S) = Keep(P!Only(s, S), x, S)
  <1>1. PICK n \in Nat : n = Len(s)
    BY LenProperties
  <1>2. PICK t \in Seq(A) : /\ t = Append(s, x) /\ Len(t) = n + 1
                            /\ t[n + 1] = x /\ \A i \in 1 .. n : t[i] = s[i]
    <2>1. /\ Append(s, x) \in Seq(A) /\ Len(Append(s, x)) = Len(s) + 1
          /\ \A i \in 1 .. Len(s) : Append(s, x)[i] = s[i]
          /\ Append(s, x)[Len(s) + 1] = x
      BY AppendProperties
    <2> QED BY <1>1, <2>1
  <1>3. PICK g \in [0 .. n -> Seq(A)] : Chooses(g, s, S) /\ P!Only(s, S) = g[n]
    BY <1>1, OnlyChooses
  <1>4. PICK h \in [0 .. n + 1 -> Seq(A)] : Chooses(h, t, S) /\ P!Only(t, S) = h[n + 1]
    <2>1. \E h \in [0 .. Len(t) -> Seq(A)] : Chooses(h, t, S) /\ P!Only(t, S) = h[Len(t)]
      BY OnlyChooses
    <2> QED BY <1>2, <2>1
  <1>5. /\ h[0] = << >>
        /\ \A i \in 1 .. n + 1 : h[i] = Keep(h[i - 1], t[i], S)
    BY <1>2, <1>4 DEF Chooses
  <1>6. \A i \in 1 .. n : h[i] = Keep(h[i - 1], s[i], S)
    <2>1. \A i \in 1 .. n : i \in 1 .. n + 1
      OBVIOUS
    <2> QED BY <1>2, <1>5, <2>1
  <1>7. Chooses(h, s, S)
    BY <1>1, <1>5, <1>6 DEF Chooses
  <1>8. g[n] = h[n]
    BY <1>1, <1>3, <1>7, ChoosesUnique
  <1>9. h[n + 1] = Keep(h[n], x, S)
    <2>1. n + 1 \in 1 .. n + 1 /\ (n + 1) - 1 = n
      OBVIOUS
    <2> QED BY <1>2, <1>5, <2>1
  <1>10. g[n] \in Seq(A)
    OBVIOUS
  <1> QED BY <1>2, <1>3, <1>4, <1>8, <1>9, <1>10

\* What is kept is a list, of contexts of s that are in S, not more of them
\* than s has, and each of them once if s has each once.
LEMMA OnlyType ==
  ASSUME NEW A, NEW s \in Seq(A), NEW S
  PROVE  P!Only(s, S) \in Seq(A)
  <1>1. Len(s) \in Nat
    BY LenProperties
  <1>2. PICK g \in [0 .. Len(s) -> Seq(A)] : P!Only(s, S) = g[Len(s)]
    BY OnlyChooses
  <1> QED BY <1>1, <1>2

\* What is kept is of s, in S, and not more than s.
LEMMA OnlyElements ==
  ASSUME NEW A, NEW S
  PROVE  \A s \in Seq(A) :
           /\ Len(P!Only(s, S)) <= Len(s)
           /\ \A x : Contains(P!Only(s, S), x) <=> (Contains(s, x) /\ x \in S)
  <1> DEFINE T == {s \in Seq(A) :
                     /\ Len(P!Only(s, S)) <= Len(s)
                     /\ \A x : Contains(P!Only(s, S), x) <=> (Contains(s, x) /\ x \in S)}
  <1>1. << >> \in T
    BY OnlyEmpty, EmptySeq DEF Contains
  <1>2. ASSUME NEW s \in Seq(A), NEW e \in A, s \in T PROVE Append(s, e) \in T
    <2>1. PICK o \in Seq(A) : o = P!Only(s, S)
      BY OnlyType
    <2>2. /\ Len(o) <= Len(s)
          /\ \A x : Contains(o, x) <=> (Contains(s, x) /\ x \in S)
      BY <1>2, <2>1
    <2> HIDE DEF T
    <2>3. PICK p \in Seq(A) : p = P!Only(Append(s, e), S) /\ p = Keep(o, e, S)
      BY <2>1, OnlyAppend, KeepType
    <2>4. /\ Append(s, e) \in Seq(A) /\ Len(Append(s, e)) = Len(s) + 1
          /\ \A x : Contains(Append(s, e), x) <=> (Contains(s, x) \/ x = e)
      BY ContainsAppend, AppendProperties
    <2>5. /\ Append(o, e) \in Seq(A) /\ Len(Append(o, e)) = Len(o) + 1
          /\ \A x : Contains(Append(o, e), x) <=> (Contains(o, x) \/ x = e)
      BY ContainsAppend, AppendProperties
    <2>6. Len(s) \in Nat /\ Len(o) \in Nat
      BY LenProperties
    <2>7. Len(p) <= Len(s) + 1
      <3>1. CASE e \in S
        BY <2>2, <2>3, <2>5, <2>6, <3>1 DEF Keep
      <3>2. CASE e \notin S
        BY <2>2, <2>3, <2>6, <3>2 DEF Keep
      <3> QED BY <3>1, <3>2
    <2>8. ASSUME NEW x
          PROVE  Contains(p, x) <=> (Contains(Append(s, e), x) /\ x \in S)
      <3>1. CASE e \in S
        BY <2>2, <2>3, <2>4, <2>5, <3>1 DEF Keep
      <3>2. CASE e \notin S
        BY <2>2, <2>3, <2>4, <3>2 DEF Keep
      <3> QED BY <3>1, <3>2
    <2> QED BY <2>3, <2>4, <2>7, <2>8 DEF T
  <1>3. \A s \in Seq(A) : s \in T
    <2> HIDE DEF T
    <2> QED BY <1>1, <1>2, SequencesBuilt
  <1> QED BY <1>3

LEMMA OnlyInjective ==
  ASSUME NEW A, NEW S
  PROVE  \A s \in Seq(A) : IsInjective(s) => IsInjective(P!Only(s, S))
  <1> DEFINE T == {s \in Seq(A) : IsInjective(s) => IsInjective(P!Only(s, S))}
  <1>1. << >> \in T
    BY OnlyEmpty, EmptySeq DEF IsInjective
  <1>2. ASSUME NEW s \in Seq(A), NEW e \in A, s \in T PROVE Append(s, e) \in T
    <2>1. PICK o \in Seq(A) : o = P!Only(s, S)
      BY OnlyType
    <2>2. IsInjective(s) => IsInjective(o)
      BY <1>2, <2>1
    <2> HIDE DEF T
    <2>3. \A x : Contains(o, x) => Contains(s, x)
      BY <2>1, OnlyElements
    <2>4. P!Only(Append(s, e), S) = Keep(o, e, S) /\ Append(s, e) \in Seq(A)
      BY <2>1, OnlyAppend, AppendProperties
    <2>5. ASSUME IsInjective(Append(s, e)) PROVE IsInjective(Keep(o, e, S))
      <3>1. /\ Len(s) \in Nat /\ Len(Append(s, e)) = Len(s) + 1
            /\ DOMAIN s = 1 .. Len(s) /\ DOMAIN Append(s, e) = 1 .. Len(s) + 1
            /\ Append(s, e)[Len(s) + 1] = e
            /\ \A i \in 1 .. Len(s) : Append(s, e)[i] = s[i]
        BY AppendProperties, LenProperties, <2>4
      <3>2. IsInjective(s)
        BY <2>5, <3>1 DEF IsInjective
      <3>3. ~Contains(s, e)
        BY <2>5, <3>1 DEF IsInjective, Contains
      <3>4. CASE e \in S
        <4>1. IsInjective(Append(o, e))
          BY <2>2, <2>3, <3>2, <3>3, ContainsAppend
        <4> QED BY <3>4, <4>1 DEF Keep
      <3>5. CASE e \notin S
        BY <2>2, <3>2, <3>5 DEF Keep
      <3> QED BY <3>4, <3>5
    <2> QED BY <2>4, <2>5 DEF T
  <1>3. \A s \in Seq(A) : s \in T
    <2> HIDE DEF T
    <2> QED BY <1>1, <1>2, SequencesBuilt
  <1> QED BY <1>3


\* Only of contexts that are joined, of all of them, and of Only.
LEMMA OnlyConcat ==
  ASSUME NEW A, NEW S, NEW s \in Seq(A)
  PROVE  \A t \in Seq(A) : P!Only(s \o t, S) = P!Only(s, S) \o P!Only(t, S)
  <1> DEFINE T == {t \in Seq(A) : P!Only(s \o t, S) = P!Only(s, S) \o P!Only(t, S)}
  <1>1. PICK o \in Seq(A) : o = P!Only(s, S)
    BY OnlyType
  <1>2. << >> \in T
    BY <1>1, OnlyEmpty, EmptySeq, ConcatEmptySeq
  <1>3. ASSUME NEW t \in Seq(A), NEW e \in A, t \in T PROVE Append(t, e) \in T
    <2>1. PICK q \in Seq(A) : q = P!Only(t, S) /\ P!Only(s \o t, S) = o \o q
      BY <1>1, <1>3, OnlyType
    <2> HIDE DEF T
    <2>2. PICK u \in Seq(A) : u = s \o t
      BY ConcatProperties
    <2>3. s \o Append(t, e) = Append(u, e) /\ Append(t, e) \in Seq(A)
      BY <2>2, AppendProperties
    <2>4. P!Only(Append(u, e), S) = Keep(o \o q, e, S)
      BY <2>1, <2>2, OnlyAppend
    <2>5. P!Only(Append(t, e), S) = Keep(q, e, S)
      BY <2>1, OnlyAppend
    <2>6. Keep(o \o q, e, S) = o \o Keep(q, e, S)
      <3>1. PICK l \in Seq(A), oq \in Seq(A) : l = <<e>> /\ oq = o \o q
        <4>1. <<e>> \in Seq(A)
          OBVIOUS
        <4> QED BY <4>1, ConcatProperties
      <3>2. Append(q, e) = q \o l /\ Append(oq, e) = oq \o l
        BY <3>1, AppendIsConcat
      <3>3. (o \o q) \o l = o \o (q \o l)
        BY ConcatAssociative, SMTT(60)
      <3>4. Append(o \o q, e) = o \o Append(q, e)
        BY <3>1, <3>2, <3>3
      <3> QED BY <3>4 DEF Keep
    <2> QED BY <1>1, <2>3, <2>4, <2>5, <2>6 DEF T
  <1>4. \A t \in Seq(A) : t \in T
    <2> HIDE DEF T
    <2> QED BY <1>2, <1>3, SequencesBuilt
  <1> QED BY <1>4

LEMMA OnlyAll ==
  ASSUME NEW A, NEW S
  PROVE  \A s \in Seq(A) : (\A x : Contains(s, x) => x \in S) => P!Only(s, S) = s
  <1> DEFINE T == {s \in Seq(A) : (\A x : Contains(s, x) => x \in S) => P!Only(s, S) = s}
  <1>1. << >> \in T
    BY OnlyEmpty, EmptySeq
  <1>2. ASSUME NEW s \in Seq(A), NEW e \in A, s \in T PROVE Append(s, e) \in T
    <2>1. Append(s, e) \in Seq(A) /\ \A x : Contains(Append(s, e), x) <=> (Contains(s, x) \/ x = e)
      BY ContainsAppend
    <2>2. P!Only(Append(s, e), S) = Keep(P!Only(s, S), e, S)
      BY OnlyAppend
    <2>3. ASSUME \A x : Contains(Append(s, e), x) => x \in S
          PROVE  P!Only(Append(s, e), S) = Append(s, e)
      <3>1. e \in S /\ \A x : Contains(s, x) => x \in S
        BY <2>1, <2>3
      <3>2. P!Only(s, S) = s
        BY <1>2, <3>1
      <3> QED BY <2>2, <3>1, <3>2 DEF Keep
    <2> QED BY <2>1, <2>3
  <1>3. \A s \in Seq(A) : s \in T
    <2> HIDE DEF T
    <2> QED BY <1>1, <1>2, SequencesBuilt
  <1> QED BY <1>3

LEMMA OnlyOnly ==
  ASSUME NEW A, NEW S, NEW R
  PROVE  \A s \in Seq(A) : P!Only(P!Only(s, S), R) = P!Only(s, S \cap R)
  <1> DEFINE T == {s \in Seq(A) : P!Only(P!Only(s, S), R) = P!Only(s, S \cap R)}
  <1>1. << >> \in T
    BY OnlyEmpty, EmptySeq
  <1>2. ASSUME NEW s \in Seq(A), NEW e \in A, s \in T PROVE Append(s, e) \in T
    <2>1. PICK o \in Seq(A), q \in Seq(A) :
            o = P!Only(s, S) /\ q = P!Only(s, S \cap R) /\ P!Only(o, R) = q
      BY <1>2, OnlyType
    <2> HIDE DEF T
    <2>2. P!Only(Append(s, e), S) = Keep(o, e, S)
      BY <2>1, OnlyAppend
    <2>3. P!Only(Append(s, e), S \cap R) = Keep(q, e, S \cap R)
      BY <2>1, OnlyAppend
    <2>4. P!Only(Append(o, e), R) = Keep(q, e, R)
      BY <2>1, OnlyAppend
    <2>5. P!Only(Keep(o, e, S), R) = Keep(q, e, S \cap R)
      <3>1. CASE e \in S
        BY <2>4, <3>1 DEF Keep
      <3>2. CASE e \notin S
        BY <2>1, <3>2 DEF Keep
      <3> QED BY <3>1, <3>2
    <2>6. Append(s, e) \in Seq(A)
      BY AppendProperties
    <2> QED BY <2>2, <2>3, <2>5, <2>6 DEF T
  <1>3. \A s \in Seq(A) : s \in T
    <2> HIDE DEF T
    <2> QED BY <1>1, <1>2, SequencesBuilt
  <1> QED BY <1>3

\* One context in front.
LEMMA OnlyFirst ==
  ASSUME NEW A, NEW x \in A, NEW s \in Seq(A), NEW S
  PROVE  /\ <<x>> \o s \in Seq(A)
         /\ P!Only(<<x>> \o s, S) = IF x \in S THEN <<x>> \o P!Only(s, S) ELSE P!Only(s, S)
  <1>1. PICK e \in Seq(A), u \in Seq(A), o \in Seq(A) :
          e = << >> /\ u = <<x>> /\ u = Append(e, x) /\ o = P!Only(s, S)
    <2>1. << >> \in Seq(A) /\ <<x>> \in Seq(A) /\ <<x>> = Append(<< >>, x)
      BY EmptySeq
    <2>2. P!Only(s, S) \in Seq(A)
      BY OnlyType
    <2> QED BY <2>1, <2>2
  <1>2. P!Only(u, S) = Keep(<< >>, x, S)
    <2>1. P!Only(Append(e, x), S) = Keep(P!Only(e, S), x, S)
      BY OnlyAppend
    <2>2. P!Only(e, S) = << >>
      BY <1>1, OnlyEmpty
    <2> QED BY <1>1, <2>1, <2>2
  <1>3. P!Only(u \o s, S) = P!Only(u, S) \o o /\ u \o s \in Seq(A)
    BY <1>1, OnlyConcat, ConcatProperties
  <1>4. << >> \o o = o
    BY ConcatEmptySeq
  <1>5. CASE x \in S
    <2>1. Keep(<< >>, x, S) = <<x>>
      BY <1>5 DEF Keep
    <2> QED BY <1>1, <1>2, <1>3, <1>5, <2>1
  <1>6. CASE x \notin S
    <2>1. Keep(<< >>, x, S) = << >>
      BY <1>6 DEF Keep
    <2> QED BY <1>1, <1>2, <1>3, <1>4, <1>6, <2>1
  <1> QED BY <1>5, <1>6

\* The contexts from the back to the front.
LEMMA ReverseContexts ==
  ASSUME NEW A, NEW s \in Seq(A)
  PROVE  /\ P!Reverse(s) \in Seq(A) /\ Len(P!Reverse(s)) = Len(s)
         /\ \A x : Contains(P!Reverse(s), x) <=> Contains(s, x)
         /\ IsInjective(s) => IsInjective(P!Reverse(s))
  <1>1. PICK n \in Nat : n = Len(s) /\ DOMAIN s = 1 .. n
    BY LenProperties
  <1>2. \A i \in 1 .. n : n - i + 1 \in 1 .. n /\ s[n - i + 1] \in A
    BY <1>1, ElementOfSeq
  <1>3. P!Reverse(s) = [i \in 1 .. n |-> s[n - i + 1]]
    BY <1>1 DEF P!Reverse
  <1>4. PICK r \in Seq(A) : /\ r = P!Reverse(s) /\ Len(r) = n /\ DOMAIN r = 1 .. n
                            /\ \A i \in 1 .. n : r[i] = s[n - i + 1]
    BY <1>2, <1>3
  <1>5. \A i \in 1 .. n : s[i] = r[n - i + 1] /\ n - i + 1 \in 1 .. n
    <2>1. \A i \in 1 .. n : n - (n - i + 1) + 1 = i
      OBVIOUS
    <2> QED BY <1>2, <1>4, <2>1
  <1>6. \A x : Contains(r, x) <=> Contains(s, x)
    BY <1>1, <1>2, <1>4, <1>5 DEF Contains
  <1>7. ASSUME IsInjective(s) PROVE IsInjective(r)
    <2>1. ASSUME NEW i \in 1 .. n, NEW j \in 1 .. n, r[i] = r[j] PROVE i = j
      <3>1. s[n - i + 1] = s[n - j + 1]
        BY <1>4, <2>1
      <3>2. n - i + 1 = n - j + 1
        BY <1>1, <1>2, <1>7, <3>1 DEF IsInjective
      <3> QED BY <3>2
    <2> QED BY <1>4, <2>1 DEF IsInjective
  <1> QED BY <1>1, <1>4, <1>6, <1>7

LEMMA ReverseAppend ==
  ASSUME NEW A, NEW s \in Seq(A), NEW e \in A
  PROVE  P!Reverse(Append(s, e)) = <<e>> \o P!Reverse(s)
  <1>1. PICK n \in Nat : n = Len(s)
    BY LenProperties
  <1>2. PICK t \in Seq(A) : /\ t = Append(s, e) /\ Len(t) = n + 1
                            /\ t[n + 1] = e /\ \A i \in 1 .. n : t[i] = s[i]
    <2>1. /\ Append(s, e) \in Seq(A) /\ Len(Append(s, e)) = Len(s) + 1
          /\ \A i \in 1 .. Len(s) : Append(s, e)[i] = s[i]
          /\ Append(s, e)[Len(s) + 1] = e
      BY AppendProperties
    <2> QED BY <1>1, <2>1
  <1>3. PICK r \in Seq(A), u \in Seq(A) :
          r = P!Reverse(s) /\ Len(r) = n /\ u = P!Reverse(t) /\ Len(u) = n + 1
    BY <1>1, <1>2, ReverseContexts
  <1>4. \A i \in 1 .. n : r[i] = s[n - i + 1]
    BY <1>1, <1>3 DEF P!Reverse
  <1>5. \A i \in 1 .. n + 1 : u[i] = t[(n + 1) - i + 1]
    BY <1>2, <1>3 DEF P!Reverse
  <1>6. PICK o \in Seq(A) : o = <<e>> /\ Len(o) = 1 /\ o[1] = e
    <2>1. <<e>> \in Seq(A) /\ Len(<<e>>) = 1 /\ <<e>>[1] = e
      OBVIOUS
    <2> QED BY <2>1
  <1>7. PICK v \in Seq(A) : /\ v = o \o r /\ Len(v) = n + 1
                            /\ \A i \in 1 .. n + 1 : v[i] = IF i <= 1 THEN o[i] ELSE r[i - 1]
    <2>1. /\ o \o r \in Seq(A) /\ Len(o \o r) = Len(o) + Len(r)
          /\ \A i \in 1 .. Len(o) + Len(r) :
               (o \o r)[i] = IF i <= Len(o) THEN o[i] ELSE r[i - Len(o)]
      BY ConcatProperties
    <2>2. Len(o) + Len(r) = n + 1 /\ Len(o) = 1
      BY <1>3, <1>6
    <2> QED BY <2>1, <2>2
  <1>8. ASSUME NEW i \in 1 .. n + 1 PROVE u[i] = v[i]
    <2>1. CASE i = 1
      <3>1. u[1] = t[(n + 1) - 1 + 1] /\ (n + 1) - 1 + 1 = n + 1
        BY <1>5, <2>1
      <3>2. v[1] = o[1]
        BY <1>7, <2>1
      <3> QED BY <1>2, <1>6, <2>1, <3>1, <3>2
    <2>2. CASE i # 1
      <3>1. i - 1 \in 1 .. n /\ n - (i - 1) + 1 \in 1 .. n /\ n - (i - 1) + 1 = (n + 1) - i + 1
        BY <2>2
      <3>2. v[i] = s[n - (i - 1) + 1]
        <4>1. v[i] = IF i <= 1 THEN o[i] ELSE r[i - 1]
          BY <1>7
        <4>2. v[i] = r[i - 1]
          BY <2>2, <4>1
        <4> QED BY <1>4, <3>1, <4>2
      <3>3. u[i] = s[(n + 1) - i + 1]
        BY <1>2, <1>5, <3>1
      <3> QED BY <3>1, <3>2, <3>3
    <2> QED BY <2>1, <2>2
  <1>9. u = v
    BY <1>3, <1>7, <1>8, SeqEqual
  <1> QED BY <1>2, <1>3, <1>6, <1>7, <1>9

LEMMA OnlyReverse ==
  ASSUME NEW A, NEW S
  PROVE  \A s \in Seq(A) : P!Only(P!Reverse(s), S) = P!Reverse(P!Only(s, S))
  <1> DEFINE T == {s \in Seq(A) : P!Only(P!Reverse(s), S) = P!Reverse(P!Only(s, S))}
  <1>1. << >> \in T
    <2>1. P!Reverse(<< >>) = << >>
      BY EmptySeq, ReverseContexts
    <2> QED BY <2>1, OnlyEmpty, EmptySeq
  <1>2. ASSUME NEW s \in Seq(A), NEW e \in A, s \in T PROVE Append(s, e) \in T
    <2>1. PICK o \in Seq(A), r \in Seq(A) :
            o = P!Only(s, S) /\ r = P!Reverse(s) /\ P!Only(r, S) = P!Reverse(o)
      BY <1>2, OnlyType, ReverseContexts
    <2> HIDE DEF T
    <2>2. P!Reverse(Append(s, e)) = <<e>> \o r
      BY <2>1, ReverseAppend
    <2>3. P!Only(<<e>> \o r, S) = IF e \in S THEN <<e>> \o P!Reverse(o) ELSE P!Reverse(o)
      <3>1. P!Only(<<e>> \o r, S) = IF e \in S THEN <<e>> \o P!Only(r, S) ELSE P!Only(r, S)
        BY OnlyFirst
      <3> QED BY <2>1, <3>1
    <2>4. P!Only(Append(s, e), S) = Keep(o, e, S)
      BY <2>1, OnlyAppend
    <2>5. P!Reverse(Append(o, e)) = <<e>> \o P!Reverse(o)
      BY ReverseAppend
    <2>6. P!Only(P!Reverse(Append(s, e)), S) = P!Reverse(P!Only(Append(s, e), S))
      <3>1. CASE e \in S
        BY <2>2, <2>3, <2>4, <2>5, <3>1 DEF Keep
      <3>2. CASE e \notin S
        BY <2>2, <2>3, <2>4, <3>2 DEF Keep
      <3> QED BY <3>1, <3>2
    <2>7. Append(s, e) \in Seq(A)
      BY AppendProperties
    <2> QED BY <2>6, <2>7 DEF T
  <1>3. \A s \in Seq(A) : s \in T
    <2> HIDE DEF T
    <2> QED BY <1>1, <1>2, SequencesBuilt
  <1> QED BY <1>3

----------------------------------------------------------------------------
(***************************************************************************)
(* The links of a pipe, and the invariant.                                 *)
(***************************************************************************)

\* Element i of s, or None.
Nth(s, i) == IF i \in 1 .. Len(s) THEN s[i] ELSE None

\* Each of s leads to the next.
Linked(s, next) == \A i \in 1 .. Len(s) : next[s[i]] = Nth(s, i + 1)

\* The way of a message past the takers of s, when those in gone asked to go:
\* it starts with the first that stays.
Way(has, first, next, s, takers, gone) ==
  /\ Linked(P!Only(s, takers), next)
  /\ first = IF has THEN Nth(P!Only(s, takers \ gone), 1) ELSE None

\* The contexts that asked to go.
Gone == P!ToSet(deferred)

AtMostOne(S) == \A x, y \in S : x = y

\* The types that the argument needs.
PipeTypes ==
  /\ reads \subseteq Filters /\ writes \subseteq Filters
  /\ contexts \in Seq(Filters)
  /\ head \in Filters \cup {None} /\ tail \in Filters \cup {None}
  /\ nextRead \in [Filters -> Filters \cup {None}]
  /\ nextWrite \in [Filters -> Filters \cup {None}]
  /\ deferred \in Seq(Filters)

\* While filters come at the back and go one at a time.
PlainInv ==
  /\ IsInjective(contexts)
  /\ AtMostOne(Gone)
  /\ Way(P!HasHead, head, nextRead, contexts, reads, Gone)
  /\ Way(P!HasTail, tail, nextWrite, P!Reverse(contexts), writes, Gone)

\* The inductive invariant.
PipeInv == PipeTypes /\ (plain => PlainInv)

\* None is the null pointer, not a filter.
PipeAssumption == None \notin Filters

\* The first element, and what Only keeps of it.
LEMMA NthFirst ==
  ASSUME NEW A, NEW x \in A, NEW s \in Seq(A)
  PROVE  /\ Nth(<<x>> \o s, 1) = x
         /\ \A i \in Nat : i >= 1 => Nth(<<x>> \o s, i + 1) = Nth(s, i)
         /\ Len(<<x>> \o s) = Len(s) + 1
  <1>1. PICK u \in Seq(A) : u = <<x>> /\ Len(u) = 1 /\ u[1] = x
    <2>1. <<x>> \in Seq(A) /\ Len(<<x>>) = 1 /\ <<x>>[1] = x
      OBVIOUS
    <2> QED BY <2>1
  <1>2. PICK n \in Nat : n = Len(s)
    BY LenProperties
  <1>3. PICK v \in Seq(A) : /\ v = u \o s /\ Len(v) = n + 1
                            /\ \A i \in 1 .. n + 1 : v[i] = IF i <= 1 THEN u[i] ELSE s[i - 1]
    <2>1. /\ u \o s \in Seq(A) /\ Len(u \o s) = Len(u) + Len(s)
          /\ \A i \in 1 .. Len(u) + Len(s) :
               (u \o s)[i] = IF i <= Len(u) THEN u[i] ELSE s[i - Len(u)]
      BY ConcatProperties
    <2>2. Len(u) + Len(s) = n + 1 /\ Len(u) = 1
      BY <1>1, <1>2
    <2> QED BY <2>1, <2>2
  <1>4. v[1] = x
    <2>1. 1 \in 1 .. n + 1
      OBVIOUS
    <2> QED BY <1>1, <1>3, <2>1
  <1>5. ASSUME NEW i \in Nat, i >= 1 PROVE Nth(v, i + 1) = Nth(s, i)
    <2>1. CASE i \in 1 .. n
      <3>1. i + 1 \in 1 .. n + 1 /\ ~(i + 1 <= 1) /\ (i + 1) - 1 = i
        BY <2>1
      <3>2. v[i + 1] = s[(i + 1) - 1]
        BY <1>3, <3>1
      <3> QED BY <1>2, <1>3, <2>1, <3>1, <3>2 DEF Nth
    <2>2. CASE i \notin 1 .. n
      <3>1. i + 1 \notin 1 .. n + 1
        BY <1>5, <2>2
      <3> QED BY <1>2, <1>3, <2>2, <3>1 DEF Nth
    <2> QED BY <2>1, <2>2
  <1>6. Nth(v, 1) = x
    BY <1>3, <1>4, SMTT(30) DEF Nth
  <1> QED BY <1>1, <1>2, <1>3, <1>5, <1>6

\* A list is empty, or has a first element and a rest.
LEMMA FirstAndRest ==
  ASSUME NEW A, NEW s \in Seq(A), s # << >>
  PROVE  \E x \in A, t \in Seq(A) : s = <<x>> \o t
  <1>1. Head(s) \in A /\ Tail(s) \in Seq(A)
    BY HeadTailProperties, SMTT(30)
  <1>2. s = <<Head(s)>> \o Tail(s)
    <2>1. PICK x \in A, t \in Seq(A) : x = Head(s) /\ t = Tail(s)
      BY <1>1
    <2>2. PICK n \in Nat : n = Len(t) /\ Len(s) = n + 1
      BY <2>1, HeadTailProperties, EmptySeq, LenProperties
    <2>3. s[1] = x /\ \A i \in 1 .. n : t[i] = s[i + 1]
      BY <2>1, <2>2, HeadTailProperties
    <2>4. PICK u \in Seq(A) : u = <<x>> /\ Len(u) = 1 /\ u[1] = x
      <3>1. <<x>> \in Seq(A) /\ Len(<<x>>) = 1 /\ <<x>>[1] = x
        OBVIOUS
      <3> QED BY <3>1
    <2>5. PICK v \in Seq(A) : /\ v = u \o t /\ Len(v) = n + 1
                              /\ \A i \in 1 .. n + 1 : v[i] = IF i <= 1 THEN u[i] ELSE t[i - 1]
      <3>1. /\ u \o t \in Seq(A) /\ Len(u \o t) = Len(u) + Len(t)
            /\ \A i \in 1 .. Len(u) + Len(t) :
                 (u \o t)[i] = IF i <= Len(u) THEN u[i] ELSE t[i - Len(u)]
        BY ConcatProperties
      <3>2. Len(u) + Len(t) = n + 1 /\ Len(u) = 1
        BY <2>2, <2>4
      <3> QED BY <3>1, <3>2
    <2>6. ASSUME NEW i \in 1 .. n + 1 PROVE v[i] = s[i]
      <3>1. CASE i = 1
        BY <2>3, <2>4, <2>5, <3>1
      <3>2. CASE i # 1
        <4>1. i - 1 \in 1 .. n /\ (i - 1) + 1 = i /\ ~(i <= 1)
          BY <3>2
        <4>2. v[i] = t[i - 1]
          BY <2>5, <4>1
        <4> QED BY <2>3, <4>1, <4>2
      <3> QED BY <3>1, <3>2
    <2>7. v = s
      BY <2>2, <2>5, <2>6, SeqEqual
    <2> QED BY <2>1, <2>4, <2>5, <2>7
  <1> QED BY <1>1, <1>2

\* The first j elements of a list.
LEMMA Beginning ==
  ASSUME NEW A, NEW q \in Seq(A), NEW j \in 1 .. Len(q)
  PROVE  /\ SubSeq(q, 1, j) \in Seq(A)
         /\ Len(SubSeq(q, 1, j)) = j
         /\ \A i \in 1 .. j : SubSeq(q, 1, j)[i] = q[i]
  <1>1. Len(q) \in Nat /\ j \in Int /\ 1 <= j /\ j - 1 + 1 = j
    BY LenProperties
  <1>2. \A i \in 1 .. j : q[i] \in A
    BY <1>1, ElementOfSeq
  <1>3. /\ SubSeq(q, 1, j) \in Seq(A)
        /\ Len(SubSeq(q, 1, j)) = IF 1 <= j THEN j - 1 + 1 ELSE 0
        /\ \A i \in 1 .. j - 1 + 1 : SubSeq(q, 1, j)[i] = q[1 + i - 1]
    BY <1>1, <1>2, SubSeqProperties
  <1>4. \A i \in 1 .. j : 1 + i - 1 = i
    OBVIOUS
  <1> QED BY <1>1, <1>3, <1>4

\* A message follows the links past all of q.
LEMMA PathFollows ==
  ASSUME PipeAssumption, contexts \in Seq(Filters),
         NEW q \in Seq(Filters), NEW next, Linked(q, next), Len(q) <= Len(contexts),
         NEW first, first = Nth(q, 1)
  PROVE  P!Path(first, next) = q
  <1>1. PICK m \in Nat, l \in Nat : m = Len(contexts) + 1 /\ l = Len(q) /\ l < m
    BY LenProperties
  <1> DEFINE Upto(n) == IF n + 1 <= l THEN SubSeq(q, 1, n + 1) ELSE q
             start == IF first = None THEN << >> ELSE <<first>>
             Is(g) == g = [n \in 0 .. m |-> IF n = 0 THEN start ELSE P!ForwardTo(g[n - 1], next)]
             Goes(g) == g[0] = start /\ \A n \in 1 .. m : g[n] = P!ForwardTo(g[n - 1], next)
             k == [n \in 0 .. m |-> Upto(n)]
  <1>2. \A i \in 1 .. l : q[i] \in Filters /\ q[i] # None
    BY <1>1, ElementOfSeq DEF PipeAssumption
  <1>3. Upto(0) = start
    <2>1. CASE l = 0
      <3>1. q = << >>
        BY <1>1, <2>1, EmptySeq
      <3>2. first = None
        BY <1>1, <2>1 DEF Nth
      <3> QED BY <2>1, <3>1, <3>2
    <2>2. CASE l # 0
      <3>1. 1 \in 1 .. l
        BY <2>2
      <3>2. first = q[1] /\ first # None
        BY <1>1, <1>2, <3>1 DEF Nth
      <3>3. SubSeq(q, 1, 1) = <<q[1]>>
        <4>1. PICK p \in Seq(Filters) : p = SubSeq(q, 1, 1) /\ Len(p) = 1 /\ p[1] = q[1]
          <5>1. /\ SubSeq(q, 1, 1) \in Seq(Filters) /\ Len(SubSeq(q, 1, 1)) = 1
                /\ \A i \in 1 .. 1 : SubSeq(q, 1, 1)[i] = q[i]
            BY <1>1, <3>1, Beginning
          <5>2. PICK p \in Seq(Filters) :
                  p = SubSeq(q, 1, 1) /\ Len(p) = 1 /\ \A i \in 1 .. 1 : p[i] = q[i]
            BY <5>1
          <5>3. p[1] = q[1]
            BY <5>2
          <5> QED BY <5>2, <5>3
        <4>2. PICK u \in Seq(Filters) : u = <<q[1]>> /\ Len(u) = 1 /\ u[1] = q[1]
          <5>1. q[1] \in Filters
            BY <1>2, <3>1
          <5>2. <<q[1]>> \in Seq(Filters) /\ Len(<<q[1]>>) = 1 /\ <<q[1]>>[1] = q[1]
            BY <5>1
          <5> QED BY <5>2
        <4>3. p = u
          <5>1. Len(p) = Len(u) /\ \A i \in 1 .. Len(p) : p[i] = u[i]
            BY <4>1, <4>2
          <5> QED BY <5>1, SeqEqual
        <4> QED BY <4>1, <4>2, <4>3
      <3> QED BY <2>2, <3>2, <3>3
    <2> QED BY <2>1, <2>2
  <1>4. ASSUME NEW n \in 1 .. m PROVE Upto(n) = P!ForwardTo(Upto(n - 1), next)
    <2>1. CASE l = 0
      <3>1. q = << >>
        BY <1>1, <2>1, EmptySeq
      <3> QED BY <2>1, <3>1 DEF P!ForwardTo
    <2>2. CASE l # 0
      <3>1. PICK j \in 1 .. l : j = IF n <= l THEN n ELSE l
        BY <2>2
      <3>2. PICK p \in Seq(Filters) : p = SubSeq(q, 1, j) /\ Len(p) = j /\ p[j] = q[j]
        <4>1. /\ SubSeq(q, 1, j) \in Seq(Filters) /\ Len(SubSeq(q, 1, j)) = j
              /\ \A i \in 1 .. j : SubSeq(q, 1, j)[i] = q[i]
          BY <1>1, Beginning
        <4>2. j \in 1 .. j
          OBVIOUS
        <4> QED BY <4>1, <4>2
      <3>3. Upto(n - 1) = p
        <4>1. CASE n <= l
          BY <3>1, <3>2, <4>1
        <4>2. CASE ~(n <= l)
          <5>1. SubSeq(q, 1, l) = q
            BY <1>1, SubSeqFull
          <5> QED BY <3>1, <3>2, <4>2, <5>1
        <4> QED BY <4>1, <4>2
      <3>4. p # << >> /\ P!Last(p) = q[j]
        <4>1. Len(p) # 0
          BY <3>2
        <4>2. p # << >>
          BY <4>1, EmptySeq
        <4> QED BY <3>2, <4>2 DEF P!Last
      <3>5. next[q[j]] = Nth(q, j + 1)
        BY <1>1 DEF Linked
      <3>6. CASE n + 1 <= l
        <4>1. j = n /\ j + 1 \in 1 .. l
          BY <3>1, <3>6
        <4>2. next[q[j]] = q[n + 1] /\ q[n + 1] # None
          BY <1>1, <1>2, <3>5, <4>1 DEF Nth
        <4>3. P!ForwardTo(p, next) = Append(p, q[n + 1])
          BY <3>4, <4>2 DEF P!ForwardTo
        <4>4. SubSeq(q, 1, n + 1) = Append(SubSeq(q, 1, n), q[n + 1])
          BY <1>1, <4>1, SubSeqRecursiveSecond
        <4> QED BY <3>2, <3>3, <3>6, <4>1, <4>3, <4>4
      <3>7. CASE ~(n + 1 <= l)
        <4>1. j = l /\ j + 1 \notin 1 .. l
          BY <3>1, <3>7
        <4>2. next[q[j]] = None
          BY <1>1, <3>5, <4>1 DEF Nth
        <4>3. P!ForwardTo(p, next) = p
          BY <3>4, <4>2 DEF P!ForwardTo
        <4>4. p = q
          BY <1>1, <3>2, <4>1, SubSeqFull
        <4> QED BY <3>3, <3>7, <4>3, <4>4
      <3> QED BY <3>6, <3>7
    <2> QED BY <2>1, <2>2
  <1>5. Goes(k)
    <2>1. k[0] = Upto(0) /\ \A n \in 1 .. m : k[n] = Upto(n) /\ k[n - 1] = Upto(n - 1)
      <3> HIDE DEF Upto
      <3> QED OBVIOUS
    <2> HIDE DEF k, Upto, start
    <2> QED BY <1>3, <1>4, <2>1
  <1>6. Is(k)
    <2> HIDE DEF Upto, start
    <2> DEFINE f == [n \in 0 .. m |-> IF n = 0 THEN start ELSE P!ForwardTo(k[n - 1], next)]
    <2>1. ASSUME NEW n \in 0 .. m PROVE k[n] = f[n]
      <3>1. f[n] = IF n = 0 THEN start ELSE P!ForwardTo(k[n - 1], next)
        <4> HIDE DEF k
        <4> QED OBVIOUS
      <3>2. n = 0 \/ n \in 1 .. m
        OBVIOUS
      <3> HIDE DEF k, f
      <3> QED BY <1>5, <3>1, <3>2
    <2>2. k = f
      BY <2>1
    <2> QED BY <2>2
  <1>7. ASSUME NEW h, Is(h) PROVE Goes(h)
    <2> DEFINE d == 0 .. m
               v(n) == IF n = 0 THEN start ELSE P!ForwardTo(h[n - 1], next)
    <2>1. h = [n \in d |-> v(n)]
      BY <1>7
    <2>2. \A n \in d : h[n] = v(n)
      <3> HIDE DEF d, v, Is, Goes
      <3> QED BY <2>1
    <2>3. 0 \in d /\ \A n \in 1 .. m : n \in d /\ n # 0
      OBVIOUS
    <2> HIDE DEF start
    <2> QED BY <2>2, <2>3
  <1> DEFINE h == CHOOSE g : Is(g)
  <1>8. Is(h)
    <2> HIDE DEF Is, k
    <2> QED BY <1>6
  <1>9. P!Path(first, next) = h[m]
    BY <1>1 DEF P!Path
  <1>10. Goes(h)
    <2> HIDE DEF Is, Goes, h
    <2> QED BY <1>7, <1>8
  <1> HIDE DEF h, k
  <1>11. \A n \in 0 .. m : k[n] = h[n]
    <2> HIDE DEF start
    <2> DEFINE T == {n \in 0 .. m : k[n] # h[n]}
    <2>1. SUFFICES ASSUME T # {} PROVE FALSE
      OBVIOUS
    <2>2. T \subseteq Nat
      OBVIOUS
    <2>3. PICK n \in T : \A i \in T : n <= i
      <3> HIDE DEF T
      <3> QED BY <2>1, <2>2, LeastLength
    <2>4. n # 0
      BY <1>5, <1>10, <2>3
    <2>5. n \in 1 .. m /\ n - 1 \in 0 .. m /\ n - 1 \notin T
      BY <2>3, <2>4
    <2>6. k[n - 1] = h[n - 1] /\ k[n] # h[n]
      BY <2>3, <2>5
    <2> QED BY <1>5, <1>10, <2>5, <2>6
  <1>12. k[m] = q
    BY <1>1 DEF k
  <1> QED BY <1>1, <1>9, <1>11, <1>12

\* q is s without its element k.
Drops(q, s, k) ==
  /\ Len(q) + 1 = Len(s)
  /\ \A i \in 1 .. Len(q) : q[i] = IF i < k THEN s[i] ELSE s[i + 1]

\* Only of all contexts but one, which is there once.
LEMMA OnlyDrops ==
  ASSUME NEW A
  PROVE  \A s \in Seq(A) : IsInjective(s) =>
           \A k \in 1 .. Len(s) : Drops(P!Only(s, A \ {s[k]}), s, k)
  <1> DEFINE T == {s \in Seq(A) : IsInjective(s) =>
                     \A k \in 1 .. Len(s) : Drops(P!Only(s, A \ {s[k]}), s, k)}
  <1>1. << >> \in T
    BY EmptySeq
  <1>2. ASSUME NEW s \in Seq(A), NEW e \in A, s \in T PROVE Append(s, e) \in T
    <2>1. IsInjective(s) => \A k \in 1 .. Len(s) : Drops(P!Only(s, A \ {s[k]}), s, k)
      BY <1>2
    <2> HIDE DEF T
    <2>2. PICK n \in Nat : n = Len(s) /\ DOMAIN s = 1 .. n
      BY LenProperties
    <2>3. PICK t \in Seq(A) : /\ t = Append(s, e) /\ Len(t) = n + 1 /\ DOMAIN t = 1 .. n + 1
                              /\ t[n + 1] = e /\ \A i \in 1 .. n : t[i] = s[i]
      <3>1. /\ Append(s, e) \in Seq(A) /\ Len(Append(s, e)) = Len(s) + 1
            /\ \A i \in 1 .. Len(s) : Append(s, e)[i] = s[i]
            /\ Append(s, e)[Len(s) + 1] = e
        BY AppendProperties
      <3>2. DOMAIN Append(s, e) = 1 .. Len(Append(s, e))
        BY <3>1, LenProperties
      <3> QED BY <2>2, <3>1, <3>2
    <2>4. ASSUME IsInjective(t), NEW k \in 1 .. n + 1
          PROVE  Drops(P!Only(t, A \ {t[k]}), t, k)
      <3>1. IsInjective(s) /\ \A i \in 1 .. n : s[i] # e
        BY <2>2, <2>3, <2>4 DEF IsInjective
      <3>2. CASE k = n + 1
        <4>1. t[k] = e
          BY <2>3, <3>2
        <4>2. ASSUME NEW x, Contains(s, x) PROVE x \in A \ {e}
          <5>1. PICK i \in 1 .. n : s[i] = x
            BY <2>2, <4>2 DEF Contains
          <5>2. s[i] \in A
            BY <2>2, ElementOfSeq
          <5> QED BY <3>1, <5>1, <5>2
        <4>3. P!Only(s, A \ {e}) = s
          BY <4>2, OnlyAll
        <4>4. P!Only(t, A \ {e}) = Keep(s, e, A \ {e})
          BY <2>3, <4>3, OnlyAppend
        <4>5. Keep(s, e, A \ {e}) = s
          BY DEF Keep
        <4>6. Drops(s, t, n + 1)
          BY <2>2, <2>3 DEF Drops
        <4> QED BY <3>2, <4>1, <4>4, <4>5, <4>6
      <3>3. CASE k # n + 1
        <4>1. k \in 1 .. n /\ t[k] = s[k] /\ s[k] # e
          BY <2>3, <3>1, <3>3
        <4>2. PICK q \in Seq(A) : q = P!Only(s, A \ {s[k]}) /\ Drops(q, s, k)
          BY <2>1, <2>2, <3>1, <4>1, OnlyType
        <4>3. P!Only(t, A \ {s[k]}) = Append(q, e)
          <5>1. P!Only(t, A \ {s[k]}) = Keep(q, e, A \ {s[k]})
            BY <2>3, <4>2, OnlyAppend
          <5> QED BY <4>1, <5>1 DEF Keep
        <4>4. Len(q) + 1 = n /\ \A i \in 1 .. Len(q) : q[i] = IF i < k THEN s[i] ELSE s[i + 1]
          BY <2>2, <4>2 DEF Drops
        <4>5. Len(q) = n - 1 /\ n - 1 \in Nat
          <5>1. Len(q) \in Nat
            BY LenProperties
          <5> QED BY <4>4, <5>1
        <4>6. PICK v \in Seq(A) : /\ v = Append(q, e) /\ Len(v) = n
                                  /\ v[n] = e /\ \A i \in 1 .. n - 1 : v[i] = q[i]
          <5>1. /\ Append(q, e) \in Seq(A) /\ Len(Append(q, e)) = Len(q) + 1
                /\ \A i \in 1 .. Len(q) : Append(q, e)[i] = q[i]
                /\ Append(q, e)[Len(q) + 1] = e
            BY AppendProperties
          <5>2. Len(q) + 1 = n /\ Len(q) = n - 1
            BY <4>4, <4>5
          <5>3. /\ Append(q, e) \in Seq(A) /\ Len(Append(q, e)) = n
                /\ \A i \in 1 .. n - 1 : Append(q, e)[i] = q[i]
                /\ Append(q, e)[n] = e
            BY <5>1, <5>2
          <5> QED BY <5>3
        <4>7. ASSUME NEW i \in 1 .. n PROVE v[i] = IF i < k THEN t[i] ELSE t[i + 1]
          <5>1. CASE i = n
            <6>1. ~(i < k) /\ i + 1 = n + 1
              BY <4>1, <5>1
            <6> QED BY <2>3, <4>6, <5>1, <6>1
          <5>2. CASE i # n
            <6>1. i \in 1 .. n - 1 /\ i \in 1 .. n /\ i + 1 \in 1 .. n
              BY <5>2
            <6>2. v[i] = IF i < k THEN s[i] ELSE s[i + 1]
              BY <4>4, <4>5, <4>6, <6>1
            <6>3. t[i] = s[i] /\ t[i + 1] = s[i + 1]
              BY <2>3, <6>1
            <6> QED BY <6>2, <6>3
          <5> QED BY <5>1, <5>2
        <4>8. Drops(v, t, k)
          BY <2>3, <4>6, <4>7 DEF Drops
        <4> QED BY <4>1, <4>3, <4>6, <4>8
      <3> QED BY <3>2, <3>3
    <2> QED BY <2>3, <2>4 DEF T
  <1>3. \A s \in Seq(A) : s \in T
    <2> HIDE DEF T
    <2> QED BY <1>1, <1>2, SequencesBuilt
  <1> QED BY <1>3

----------------------------------------------------------------------------
(***************************************************************************)
(* How the way of a message changes.                                       *)
(***************************************************************************)

\* A context comes at the end of the way.
LEMMA WayBehind ==
  ASSUME PipeAssumption, NEW s \in Seq(Filters), IsInjective(s), NEW x \in Filters,
         ~Contains(s, x), NEW takers, NEW gone, x \notin gone, NEW has \in BOOLEAN,
         NEW first, NEW next, Way(has, first, next, s, takers, gone), NEW new,
         new[x] = None,
         \A f \in Filters : Contains(s, f) => new[f] =
            IF f \in takers /\ x \in takers /\ next[f] = None THEN x ELSE next[f]
  PROVE  Way(has, IF has /\ first = None /\ x \in takers THEN x ELSE first, new,
             Append(s, x), takers, gone)
  <1>1. PICK r \in Seq(Filters), q \in Seq(Filters) :
          r = P!Only(s, takers) /\ q = P!Only(s, takers \ gone)
    BY OnlyType
  <1>2. /\ P!Only(Append(s, x), takers) = Keep(r, x, takers)
        /\ P!Only(Append(s, x), takers \ gone) = Keep(q, x, takers \ gone)
    BY <1>1, OnlyAppend
  <1>3. PICK n \in Nat : n = Len(r)
    BY LenProperties
  <1>4. \A i \in 1 .. n : r[i] \in Filters /\ r[i] # None /\ Contains(s, r[i]) /\ r[i] \in takers
    <2>1. \A y : Contains(r, y) => (Contains(s, y) /\ y \in takers)
      BY <1>1, OnlyElements
    <2>2. \A i \in 1 .. n : Contains(r, r[i])
      BY <1>3 DEF Contains
    <2>3. \A i \in 1 .. n : r[i] \in Filters
      BY <1>3, ElementOfSeq
    <2> QED BY <2>1, <2>2, <2>3 DEF PipeAssumption
  <1>5. \A i \in 1 .. n : next[r[i]] = Nth(r, i + 1)
    BY <1>1, <1>3 DEF Way, Linked
  <1>6. Linked(Keep(r, x, takers), new)
    <2>1. CASE x \notin takers
      <3>1. \A i \in 1 .. n : new[r[i]] = next[r[i]]
        BY <1>4, <2>1
      <3> QED BY <1>3, <1>5, <2>1, <3>1 DEF Linked, Keep
    <2>2. CASE x \in takers
      <3>1. PICK v \in Seq(Filters) : /\ v = Append(r, x) /\ Len(v) = n + 1
                                      /\ v[n + 1] = x /\ \A i \in 1 .. n : v[i] = r[i]
        <4>1. /\ Append(r, x) \in Seq(Filters) /\ Len(Append(r, x)) = Len(r) + 1
              /\ \A i \in 1 .. Len(r) : Append(r, x)[i] = r[i]
              /\ Append(r, x)[Len(r) + 1] = x
          BY AppendProperties
        <4> QED BY <1>3, <4>1
      <3>2. ASSUME NEW i \in 1 .. n + 1 PROVE new[v[i]] = Nth(v, i + 1)
        <4>1. CASE i = n + 1
          <5>1. i + 1 \notin 1 .. n + 1
            BY <4>1
          <5> QED BY <3>1, <4>1, <5>1 DEF Nth
        <4>2. CASE i = n /\ i # n + 1
          <5>1. n \in 1 .. n /\ n + 1 \notin 1 .. n /\ n + 1 \in 1 .. n + 1
            BY <4>2
          <5>2. next[r[n]] = None
            BY <1>3, <1>5, <5>1 DEF Nth
          <5>3. new[r[n]] = x
            BY <1>4, <2>2, <5>1, <5>2
          <5> QED BY <3>1, <4>2, <5>1, <5>3 DEF Nth
        <4>3. CASE i # n /\ i # n + 1
          <5>1. i \in 1 .. n /\ i + 1 \in 1 .. n /\ i + 1 \in 1 .. n + 1
            BY <4>3
          <5>2. next[r[i]] = r[i + 1] /\ next[r[i]] # None
            BY <1>3, <1>4, <1>5, <5>1 DEF Nth
          <5>3. new[r[i]] = r[i + 1]
            BY <1>4, <5>1, <5>2
          <5> QED BY <3>1, <5>1, <5>3 DEF Nth
        <4> QED BY <4>1, <4>2, <4>3
      <3> QED BY <2>2, <3>1, <3>2 DEF Linked, Keep
    <2> QED BY <2>1, <2>2
  <1>7. (IF has /\ first = None /\ x \in takers THEN x ELSE first)
          = IF has THEN Nth(Keep(q, x, takers \ gone), 1) ELSE None
    <2>1. CASE ~has
      BY <2>1 DEF Way
    <2>2. CASE has
      <3>1. first = Nth(q, 1)
        BY <1>1, <2>2 DEF Way
      <3>2. PICK m \in Nat : m = Len(q)
        BY LenProperties
      <3>3. CASE m = 0
        <4>1. first = None /\ q = << >>
          <5>1. q = << >>
            BY <3>2, <3>3, EmptySeq
          <5>2. 1 \notin 1 .. m
            BY <3>3
          <5>3. first = None
            BY <3>1, <3>2, <5>2 DEF Nth
          <5> QED BY <5>1, <5>3
        <4>2. CASE x \in takers
          <5>1. Keep(q, x, takers \ gone) = <<x>>
            BY <4>1, <4>2 DEF Keep
          <5>2. Nth(<<x>>, 1) = x
            BY DEF Nth
          <5> QED BY <2>2, <4>1, <4>2, <5>1, <5>2
        <4>3. CASE x \notin takers
          BY <2>2, <3>1, <4>3 DEF Keep
        <4> QED BY <4>2, <4>3
      <3>4. CASE m # 0
        <4>1. 1 \in 1 .. m /\ 1 \in 1 .. m + 1
          BY <3>4
        <4>2. first = q[1] /\ q[1] \in Filters
          BY <3>1, <3>2, <4>1, ElementOfSeq DEF Nth
        <4>3. Nth(Append(q, x), 1) = q[1]
          <5>1. /\ Len(Append(q, x)) = m + 1
                /\ \A i \in 1 .. m : Append(q, x)[i] = q[i]
            BY <3>2, AppendProperties
          <5> QED BY <4>1, <5>1 DEF Nth
        <4>4. Nth(Keep(q, x, takers \ gone), 1) = q[1]
          BY <3>1, <4>2, <4>3 DEF Keep
        <4> QED BY <2>2, <4>2, <4>4 DEF PipeAssumption
      <3> QED BY <3>3, <3>4
    <2> QED BY <2>1, <2>2
  <1> QED BY <1>2, <1>6, <1>7 DEF Way

\* What is left of a list without x: where it begins, and that the links that
\* pass x over are its own.
LEMMA WithoutOne ==
  ASSUME PipeAssumption, NEW r \in Seq(Filters), IsInjective(r), NEW x \in Filters,
         NEW next, Linked(r, next)
  PROVE  LET q == P!Only(r, Filters \ {x})
         IN /\ Nth(q, 1) = IF Nth(r, 1) = x THEN next[x] ELSE Nth(r, 1)
            /\ \A new : (\A f \in Filters : Contains(r, f) =>
                           new[f] = IF next[f] = x THEN next[x] ELSE next[f])
                        => Linked(q, new)
  <1>1. PICK q \in Seq(Filters) : q = P!Only(r, Filters \ {x})
    BY OnlyType
  <1>2. PICK n \in Nat : n = Len(r) /\ DOMAIN r = 1 .. n
    BY LenProperties
  <1>3. \A i \in 1 .. n : r[i] \in Filters /\ r[i] # None /\ Contains(r, r[i])
    <2>1. \A i \in 1 .. n : r[i] \in Filters
      BY <1>2, ElementOfSeq
    <2> QED BY <1>2, <2>1 DEF PipeAssumption, Contains
  <1>4. \A i \in 1 .. n : next[r[i]] = Nth(r, i + 1)
    BY <1>2 DEF Linked
  <1>5. x # None
    BY DEF PipeAssumption
  <1>6. CASE ~Contains(r, x)
    <2>1. \A y : Contains(r, y) => y \in Filters \ {x}
      BY <1>2, <1>3, <1>6 DEF Contains
    <2>2. q = r
      BY <1>1, <2>1, OnlyAll
    <2>3. \A i \in 1 .. n : r[i] # x
      BY <1>3, <1>6
    <2>4. \A i \in Nat : Nth(r, i) # x
      BY <1>2, <1>5, <2>3 DEF Nth
    <2>5. Nth(r, 1) # x /\ \A i \in 1 .. n : next[r[i]] # x
      BY <1>4, <2>4
    <2>6. ASSUME NEW new, \A f \in Filters : Contains(r, f) =>
                           new[f] = IF next[f] = x THEN next[x] ELSE next[f]
          PROVE  Linked(r, new)
      <3>1. \A i \in 1 .. n : new[r[i]] = next[r[i]]
        BY <1>3, <2>5, <2>6
      <3> QED BY <1>2, <1>4, <3>1 DEF Linked
    <2> QED BY <1>1, <2>2, <2>5, <2>6
  <1>7. CASE Contains(r, x)
    <2>1. PICK k \in 1 .. n : r[k] = x
      BY <1>2, <1>7 DEF Contains
    <2>2. Drops(q, r, k)
      BY <1>1, <1>2, <2>1, OnlyDrops
    <2>3. \A i \in 1 .. n : i # k => r[i] # x
      BY <1>2, <2>1 DEF IsInjective
    <2>4. PICK m \in Nat : m = Len(q) /\ m + 1 = n
      BY <1>2, <2>2, LenProperties DEF Drops
    <2>5. \A i \in 1 .. m : q[i] = IF i < k THEN r[i] ELSE r[i + 1]
      BY <2>2, <2>4 DEF Drops
    <2>6. Nth(q, 1) = IF Nth(r, 1) = x THEN next[x] ELSE Nth(r, 1)
      <3>1. Nth(r, 1) = r[1] /\ 1 \in 1 .. n
        BY <1>2, <2>1 DEF Nth
      <3>2. CASE k = 1
        <4>1. Nth(r, 1) = x
          BY <2>1, <3>1, <3>2
        <4>2. next[x] = Nth(r, 2)
          BY <1>4, <2>1, <3>1, <3>2
        <4>3. CASE m = 0
          <5>1. 1 \notin 1 .. m /\ 2 \notin 1 .. n
            BY <2>4, <4>3
          <5> QED BY <1>2, <2>4, <4>1, <4>2, <5>1 DEF Nth
        <4>4. CASE m # 0
          <5>1. 1 \in 1 .. m /\ 2 \in 1 .. n /\ ~(1 < k) /\ 1 + 1 = 2
            BY <2>4, <3>2, <4>4
          <5>2. q[1] = r[2]
            BY <2>5, <5>1
          <5> QED BY <1>2, <2>4, <4>1, <4>2, <5>1, <5>2 DEF Nth
        <4> QED BY <4>3, <4>4
      <3>3. CASE k # 1
        <4>1. 1 \in 1 .. m /\ 1 < k
          BY <2>4, <3>3
        <4>2. q[1] = r[1] /\ r[1] # x
          BY <2>3, <2>5, <3>1, <3>3, <4>1
        <4> QED BY <2>4, <3>1, <4>1, <4>2 DEF Nth
      <3> QED BY <3>2, <3>3
    <2>7. ASSUME NEW new, \A f \in Filters : Contains(r, f) =>
                           new[f] = IF next[f] = x THEN next[x] ELSE next[f]
          PROVE  Linked(q, new)
      <3>1. \A i \in 1 .. n : new[r[i]] = IF Nth(r, i + 1) = x THEN next[x] ELSE Nth(r, i + 1)
        BY <1>3, <1>4, <2>7
      <3>2. next[x] = Nth(r, k + 1)
        BY <1>4, <2>1
      <3>3. ASSUME NEW i \in 1 .. m PROVE new[q[i]] = Nth(q, i + 1)
        <4>1. CASE i + 1 < k
          <5>1. i \in 1 .. n /\ i + 1 \in 1 .. n /\ i + 1 \in 1 .. m /\ i < k /\ i + 1 # k
            BY <2>4, <4>1
          <5>2. q[i] = r[i] /\ q[i + 1] = r[i + 1]
            BY <2>5, <4>1, <5>1
          <5>3. Nth(r, i + 1) = r[i + 1] /\ Nth(q, i + 1) = q[i + 1] /\ r[i + 1] # x
            BY <1>2, <2>3, <2>4, <5>1 DEF Nth
          <5> QED BY <3>1, <5>1, <5>2, <5>3
        <4>2. CASE i + 1 = k
          <5>1. i \in 1 .. n /\ i < k /\ k + 1 \in Nat
            BY <2>4, <4>2
          <5>2. q[i] = r[i]
            BY <2>5, <5>1
          <5>3. Nth(r, i + 1) = x
            BY <1>2, <2>1, <4>2 DEF Nth
          <5>4. new[q[i]] = Nth(r, k + 1)
            BY <3>1, <3>2, <5>1, <5>2, <5>3
          <5>5. Nth(r, k + 1) = Nth(q, k)
            <6>1. CASE k = n
              <7>1. k + 1 \notin 1 .. n /\ k \notin 1 .. m
                BY <2>4, <6>1
              <7> QED BY <1>2, <2>4, <7>1 DEF Nth
            <6>2. CASE k # n
              <7>1. k + 1 \in 1 .. n /\ k \in 1 .. m /\ ~(k < k)
                BY <2>4, <6>2
              <7>2. q[k] = r[k + 1]
                BY <2>5, <7>1
              <7> QED BY <1>2, <2>4, <7>1, <7>2 DEF Nth
            <6> QED BY <6>1, <6>2
          <5> QED BY <4>2, <5>4, <5>5
        <4>3. CASE i + 1 > k
          <5>1. i + 1 \in 1 .. n /\ ~(i < k) /\ i + 1 # k /\ i + 1 + 1 # k
            BY <2>4, <4>3
          <5>2. q[i] = r[i + 1]
            BY <2>5, <5>1
          <5>3. new[q[i]] = IF Nth(r, i + 1 + 1) = x THEN next[x] ELSE Nth(r, i + 1 + 1)
            BY <3>1, <5>1, <5>2
          <5>4. Nth(r, i + 1 + 1) = Nth(q, i + 1) /\ Nth(r, i + 1 + 1) # x
            <6>1. CASE i = m
              <7>1. i + 1 + 1 \notin 1 .. n /\ i + 1 \notin 1 .. m
                BY <2>4, <6>1
              <7> QED BY <1>2, <1>5, <2>4, <7>1 DEF Nth
            <6>2. CASE i # m
              <7>1. i + 1 + 1 \in 1 .. n /\ i + 1 \in 1 .. m /\ ~(i + 1 < k)
                BY <2>4, <4>3, <6>2
              <7>2. q[i + 1] = r[i + 1 + 1] /\ r[i + 1 + 1] # x
                BY <2>3, <2>5, <5>1, <7>1
              <7> QED BY <1>2, <2>4, <7>1, <7>2 DEF Nth
            <6> QED BY <6>1, <6>2
          <5> QED BY <5>3, <5>4
        <4> QED BY <2>4, <4>1, <4>2, <4>3
      <3> QED BY <2>4, <3>3 DEF Linked
    <2> QED BY <1>1, <2>6, <2>7
  <1> QED BY <1>6, <1>7

\* The takers but x.
LEMMA TakersWithout ==
  ASSUME NEW s \in Seq(Filters), NEW x \in Filters, NEW takers \in SUBSET Filters
  PROVE  P!Only(s, takers \ {x}) = P!Only(P!Only(s, takers), Filters \ {x})
  <1>1. P!Only(P!Only(s, takers), Filters \ {x}) = P!Only(s, takers \cap (Filters \ {x}))
    BY OnlyOnly
  <1>2. takers \cap (Filters \ {x}) = takers \ {x}
    OBVIOUS
  <1> QED BY <1>1, <1>2

\* A context asks to go.
LEMMA WayLeave ==
  ASSUME PipeAssumption, NEW s \in Seq(Filters), IsInjective(s), NEW x \in Filters,
         NEW takers \in SUBSET Filters, NEW gone, gone \subseteq {x}, NEW has \in BOOLEAN,
         NEW first, NEW next, Way(has, first, next, s, takers, gone),
         NEW start, start = IF first = x THEN next[x] ELSE first
  PROVE  Way(has, start, next, s, takers, {x})
  <1>1. PICK r \in Seq(Filters) : r = P!Only(s, takers) /\ IsInjective(r)
    BY OnlyType, OnlyInjective
  <1>2. Linked(r, next) /\ first = IF has THEN Nth(P!Only(s, takers \ gone), 1) ELSE None
    BY <1>1 DEF Way
  <1>3. PICK q \in Seq(Filters) : q = P!Only(s, takers \ {x}) /\ q = P!Only(r, Filters \ {x})
    BY <1>1, OnlyType, TakersWithout
  <1>4. Nth(q, 1) = IF Nth(r, 1) = x THEN next[x] ELSE Nth(r, 1)
    BY <1>1, <1>2, <1>3, WithoutOne
  <1>5. x # None
    BY DEF PipeAssumption
  <1>6. CASE ~has
    BY <1>1, <1>2, <1>5, <1>6 DEF Way
  <1>7. CASE has /\ gone = {}
    <2>1. takers \ gone = takers
      BY <1>7
    <2>2. first = Nth(r, 1)
      BY <1>1, <1>2, <1>7, <2>1
    <2> QED BY <1>1, <1>2, <1>3, <1>4, <1>7, <2>2 DEF Way
  <1>8. CASE has /\ gone = {x}
    <2>1. first = Nth(q, 1)
      BY <1>2, <1>3, <1>8
    <2>2. first # x
      <3>1. \A i \in 1 .. Len(q) : q[i] # x
        <4>1. \A y : Contains(q, y) => y \in takers \ {x}
          <5>1. \A y : Contains(P!Only(s, takers \ {x}), y) => y \in takers \ {x}
            BY OnlyElements
          <5> QED BY <1>3, <5>1
        <4> QED BY <4>1 DEF Contains
      <3> QED BY <1>5, <2>1, <3>1 DEF Nth
    <2> QED BY <1>1, <1>2, <1>3, <1>8, <2>1, <2>2 DEF Way
  <1> QED BY <1>6, <1>7, <1>8

\* A context that asked to go does.
LEMMA WayGo ==
  ASSUME PipeAssumption, NEW s \in Seq(Filters), IsInjective(s), NEW x \in Filters,
         NEW takers \in SUBSET Filters, NEW gone, gone \subseteq {x}, NEW has \in BOOLEAN,
         NEW first, NEW next, Way(has, first, next, s, takers, {x}), NEW new,
         \A f \in Filters : Contains(s, f) => new[f] = IF next[f] = x THEN next[x] ELSE next[f]
  PROVE  Way(has, first, new, P!Only(s, Filters \ {x}), takers, gone)
  <1>1. PICK r \in Seq(Filters) : r = P!Only(s, takers) /\ IsInjective(r)
    BY OnlyType, OnlyInjective
  <1>2. Linked(r, next) /\ first = IF has THEN Nth(P!Only(s, takers \ {x}), 1) ELSE None
    BY <1>1 DEF Way
  <1>3. PICK q \in Seq(Filters) : q = P!Only(s, takers \ {x}) /\ q = P!Only(r, Filters \ {x})
    BY <1>1, OnlyType, TakersWithout
  <1>4. \A f \in Filters : Contains(r, f) => Contains(s, f)
    BY <1>1, OnlyElements
  <1>5. Linked(q, new)
    BY <1>1, <1>2, <1>3, <1>4, WithoutOne
  <1>6. P!Only(P!Only(s, Filters \ {x}), takers) = q
    <2>1. P!Only(P!Only(s, Filters \ {x}), takers) = P!Only(s, (Filters \ {x}) \cap takers)
      BY OnlyOnly
    <2>2. (Filters \ {x}) \cap takers = takers \ {x}
      OBVIOUS
    <2> QED BY <1>3, <2>1, <2>2
  <1>7. P!Only(P!Only(s, Filters \ {x}), takers \ gone) = q
    <2>1. P!Only(P!Only(s, Filters \ {x}), takers \ gone)
            = P!Only(s, (Filters \ {x}) \cap (takers \ gone))
      BY OnlyOnly
    <2>2. (Filters \ {x}) \cap (takers \ gone) = takers \ {x}
      OBVIOUS
    <2> QED BY <1>3, <2>1, <2>2
  <1> QED BY <1>2, <1>3, <1>5, <1>6, <1>7 DEF Way

\* A context comes at the beginning of the way.
LEMMA WayAhead ==
  ASSUME PipeAssumption, NEW s \in Seq(Filters), NEW x \in Filters,
         ~Contains(s, x), NEW takers \in SUBSET Filters, NEW gone, x \notin gone,
         NEW has \in BOOLEAN,
         NEW first, NEW next, Way(has, first, next, s, takers, gone), NEW new,
         x \in takers => new[x] = Nth(P!Only(s, takers), 1),
         \A f \in Filters : f # x => new[f] = next[f]
  PROVE  Way(has, IF has /\ x \in takers THEN x ELSE first, new, <<x>> \o s, takers, gone)
  <1>1. PICK r \in Seq(Filters), q \in Seq(Filters) :
          r = P!Only(s, takers) /\ q = P!Only(s, takers \ gone)
    BY OnlyType
  <1>2. PICK n \in Nat : n = Len(r)
    BY LenProperties
  <1>3. \A i \in 1 .. n : r[i] \in Filters /\ r[i] # x
    <2>1. \A y : Contains(r, y) => Contains(s, y)
      BY <1>1, OnlyElements
    <2>2. \A i \in 1 .. n : Contains(r, r[i])
      BY <1>2 DEF Contains
    <2>3. \A i \in 1 .. n : r[i] \in Filters
      BY <1>2, ElementOfSeq
    <2> QED BY <2>1, <2>2, <2>3
  <1>4. \A i \in 1 .. n : new[r[i]] = Nth(r, i + 1)
    BY <1>1, <1>2, <1>3 DEF Way, Linked
  <1>5. P!Only(<<x>> \o s, takers) = IF x \in takers THEN <<x>> \o r ELSE r
    <2>1. P!Only(<<x>> \o s, takers)
            = IF x \in takers THEN <<x>> \o P!Only(s, takers) ELSE P!Only(s, takers)
      BY OnlyFirst
    <2> QED BY <1>1, <2>1
  <1>6. P!Only(<<x>> \o s, takers \ gone) = IF x \in takers THEN <<x>> \o q ELSE q
    <2>1. P!Only(<<x>> \o s, takers \ gone)
            = IF x \in takers \ gone THEN <<x>> \o P!Only(s, takers \ gone)
              ELSE P!Only(s, takers \ gone)
      BY OnlyFirst, SMTT(30)
    <2>2. (x \in takers \ gone) <=> (x \in takers)
      OBVIOUS
    <2> QED BY <1>1, <2>1, <2>2
  <1>7. CASE x \notin takers
    <2>1. Linked(r, new)
      BY <1>2, <1>4 DEF Linked
    <2> QED BY <1>1, <1>5, <1>6, <1>7, <2>1 DEF Way
  <1>8. CASE x \in takers
    <2>1. PICK v \in Seq(Filters) :
            /\ v = <<x>> \o r /\ Len(v) = n + 1 /\ Nth(v, 1) = x
            /\ \A i \in Nat : i >= 1 => Nth(v, i + 1) = Nth(r, i)
      <3>1. <<x>> \o r \in Seq(Filters)
        BY OnlyFirst
      <3>2. /\ Nth(<<x>> \o r, 1) = x /\ Len(<<x>> \o r) = n + 1
            /\ \A i \in Nat : i >= 1 => Nth(<<x>> \o r, i + 1) = Nth(r, i)
        BY <1>2, NthFirst
      <3> QED BY <3>1, <3>2
    <2>6. \A i \in Nat : i >= 1 => Nth(v, i + 1) = Nth(r, i)
      BY <2>1, Zenon
    <2>2. ASSUME NEW i \in 1 .. n + 1 PROVE new[v[i]] = Nth(v, i + 1)
      <3>0. v[i] = Nth(v, i)
        BY <2>1 DEF Nth
      <3>1. CASE i = 1
        <4>1. Nth(v, i + 1) = Nth(r, i)
          BY <2>6
        <4> QED BY <1>1, <1>8, <2>1, <3>0, <3>1, <4>1
      <3>2. CASE i # 1
        <4>1. PICK j \in 1 .. n : i = j + 1
          <5>1. i - 1 \in 1 .. n /\ i = (i - 1) + 1
            BY <3>2
          <5> QED BY <5>1
        <4>2. Nth(v, i) = Nth(r, j) /\ Nth(v, i + 1) = Nth(r, j + 1)
          <5>1. Nth(v, j + 1) = Nth(r, j)
            BY <2>6
          <5>2. Nth(v, i + 1) = Nth(r, i)
            BY <2>6
          <5> QED BY <4>1, <5>1, <5>2
        <4>3. Nth(r, j) = r[j]
          BY <1>2 DEF Nth
        <4> QED BY <1>4, <3>0, <4>2, <4>3
      <3> QED BY <3>1, <3>2
    <2>3. Linked(v, new)
      BY <2>1, <2>2 DEF Linked
    <2>4. Nth(<<x>> \o q, 1) = x
      BY NthFirst
    <2>5. first = None \/ has
      BY DEF Way
    <2> QED BY <1>5, <1>6, <1>8, <2>1, <2>3, <2>4, <2>5 DEF Way
  <1> QED BY <1>7, <1>8

\* q leads past the takers of s, and perhaps past one that asked to go.
LeadsPast(q, first, next, s, takers, gone) ==
  /\ Linked(q, next) /\ first = Nth(q, 1) /\ Len(q) <= Len(s)
  /\ \A y : Contains(q, y) => Contains(s, y)
  /\ P!Only(q, Filters \ gone) = P!Only(s, takers \cap (Filters \ gone))

\* The contexts a message passes.
LEMMA WayPath ==
  ASSUME PipeAssumption, NEW s \in Seq(Filters), IsInjective(s), 
         NEW takers \in SUBSET Filters, NEW gone \in SUBSET Filters,
         AtMostOne(gone),
         NEW first, NEW next, Way(TRUE, first, next, s, takers, gone)
  PROVE  \E q \in Seq(Filters) : LeadsPast(q, first, next, s, takers, gone)
  <1>1. PICK r \in Seq(Filters) : r = P!Only(s, takers) /\ IsInjective(r)
    BY OnlyType, OnlyInjective
  <1>2. Linked(r, next) /\ first = Nth(P!Only(s, takers \ gone), 1)
    BY <1>1 DEF Way
  <1>3. Len(r) <= Len(s) /\ \A y : Contains(r, y) => Contains(s, y)
    BY <1>1, OnlyElements
  <1>4. P!Only(r, Filters \ gone) = P!Only(s, takers \cap (Filters \ gone))
    BY <1>1, OnlyOnly
  <1>5. CASE gone = {}
    <2>1. takers \ gone = takers
      BY <1>5
    <2> QED BY <1>1, <1>2, <1>3, <1>4, <2>1 DEF LeadsPast
  <1>6. CASE gone # {}
    <2>1. PICK x \in Filters : gone = {x}
      BY <1>6 DEF AtMostOne
    <2>2. first = Nth(P!Only(r, Filters \ {x}), 1)
      BY <1>1, <1>2, <2>1, TakersWithout
    <2>3. first = IF Nth(r, 1) = x THEN next[x] ELSE Nth(r, 1)
      BY <1>1, <1>2, <2>2, WithoutOne
    <2>4. CASE Nth(r, 1) # x
      BY <1>1, <1>2, <1>3, <1>4, <2>3, <2>4 DEF LeadsPast
    <2>5. CASE Nth(r, 1) = x
      <3>1. r # << >>
        BY <2>5, EmptySeq DEF Nth, PipeAssumption
      <3>2. PICK z \in Filters, t \in Seq(Filters) : r = <<z>> \o t
        BY <3>1, FirstAndRest
      <3>3. /\ Nth(r, 1) = z
            /\ \A i \in Nat : i >= 1 => Nth(r, i + 1) = Nth(t, i)
            /\ Len(r) = Len(t) + 1
        BY <3>2, NthFirst
      <3>4. PICK n \in Nat : n = Len(t) /\ Len(r) = n + 1
        BY <3>3, LenProperties
      <3>5. \A i \in 1 .. n + 1 : next[r[i]] = Nth(r, i + 1)
        BY <1>2, <3>4 DEF Linked
      <3>6. \A i \in 1 .. n : t[i] = r[i + 1]
        <4>1. ASSUME NEW i \in 1 .. n PROVE t[i] = r[i + 1]
          <5>1. i \in Nat /\ i >= 1 /\ i + 1 \in 1 .. n + 1
            OBVIOUS
          <5>2. Nth(r, i + 1) = Nth(t, i)
            BY <3>3, <5>1
          <5> QED BY <3>4, <5>1, <5>2 DEF Nth
        <4> QED BY <4>1
      <3>7. Linked(t, next)
        <4>1. ASSUME NEW i \in 1 .. n PROVE next[t[i]] = Nth(t, i + 1)
          <5>1. i + 1 \in 1 .. n + 1 /\ i + 1 \in Nat /\ i + 1 >= 1
            OBVIOUS
          <5>2. next[r[i + 1]] = Nth(r, i + 1 + 1) /\ Nth(r, i + 1 + 1) = Nth(t, i + 1)
            BY <3>3, <3>5, <5>1
          <5> QED BY <3>6, <5>2
        <4> QED BY <3>4, <4>1 DEF Linked
      <3>8. first = Nth(t, 1)
        <4>1. 1 \in 1 .. n + 1 /\ 1 \in Nat /\ 1 >= 1
          OBVIOUS
        <4>2. r[1] = x
          BY <2>5, <3>4, <4>1 DEF Nth
        <4>3. next[x] = Nth(r, 1 + 1)
          BY <3>5, <4>1, <4>2
        <4>4. Nth(r, 1 + 1) = Nth(t, 1)
          BY <3>3, <4>1
        <4> QED BY <2>3, <2>5, <4>3, <4>4
      <3>9. ASSUME NEW y, Contains(t, y) PROVE Contains(s, y)
        <4>1. DOMAIN t = 1 .. n /\ DOMAIN r = 1 .. n + 1
          BY <3>4, LenProperties
        <4>2. PICK i \in 1 .. n : t[i] = y
          BY <3>4, <3>9, <4>1 DEF Contains
        <4>3. i + 1 \in 1 .. n + 1 /\ r[i + 1] = y
          BY <3>6, <4>2
        <4>4. Contains(r, y)
          BY <3>4, <4>1, <4>3 DEF Contains
        <4> QED BY <1>3, <4>4
      <3>10. P!Only(r, Filters \ gone) = P!Only(t, Filters \ gone)
        <4>1. z \notin Filters \ gone
          BY <2>1, <2>5, <3>3
        <4> QED BY <3>2, <4>1, OnlyFirst
      <3>11. Len(t) <= Len(s)
        <4>1. Len(s) \in Nat
          BY LenProperties
        <4> QED BY <1>3, <3>4, <4>1
      <3> QED BY <1>4, <3>7, <3>8, <3>9, <3>10, <3>11 DEF LeadsPast
    <2> QED BY <2>4, <2>5
  <1> QED BY <1>5, <1>6

----------------------------------------------------------------------------
(***************************************************************************)
(* The actions, and the theorem.                                           *)
(***************************************************************************)

\* ToSet, which the pipe uses, and Contains, which the lemmas use.
LEMMA InContains ==
  ASSUME NEW A, NEW s \in Seq(A)
  PROVE  /\ \A x : x \in P!ToSet(s) <=> Contains(s, x)
         /\ P!ToSet(s) \subseteq A
  <1>1. DOMAIN s = 1 .. Len(s) /\ \A i \in 1 .. Len(s) : s[i] \in A
    BY LenProperties, ElementOfSeq
  <1> QED BY <1>1 DEF P!ToSet, Contains

\* FirstWriteLink is the first of the takers.
LEMMA FirstWriter ==
  ASSUME NEW s \in Seq(Filters)
  PROVE  P!FirstWriteLink(s) = Nth(P!Only(s, writes), 1)
  <1>1. PICK r \in Seq(Filters) : r = P!Only(s, writes)
    BY OnlyType
  <1>2. CASE r = << >>
    <2>1. 1 \notin 1 .. Len(r)
      BY <1>2, EmptySeq
    <2> QED BY <1>1, <1>2, <2>1 DEF P!FirstWriteLink, Nth
  <1>3. CASE r # << >>
    <2>1. Len(r) \in Nat /\ Len(r) # 0
      BY <1>3, EmptySeq, LenProperties
    <2>2. Head(r) = r[1] /\ 1 \in 1 .. Len(r)
      BY <1>3, <2>1, HeadTailProperties
    <2> QED BY <1>1, <1>3, <2>2 DEF P!FirstWriteLink, Nth
  <1> QED BY <1>2, <1>3

\* An element is one of the list or None.
LEMMA NthType ==
  ASSUME NEW A, NEW s \in Seq(A), NEW i \in Nat
  PROVE  Nth(s, i) \in A \cup {None}
  BY ElementOfSeq DEF Nth

\* What push_back does, and push_front to an empty pipe.
ComesBehind(x) ==
  /\ x \notin P!In \cup P!ToSet(deferred)
  /\ nextRead' = P!AddReadIfNull(x)
  /\ nextWrite' = P!AddWriteIfNull(x, P!Reverse(contexts))
  /\ contexts' = Append(contexts, x)
  /\ P!MaybeUpdateTail(x)
  /\ UNCHANGED <<P!roles, deferred>>

\* The way on of a message that is read is longer by one, and so is the way
\* of one that is written, at its beginning.
LEMMA ComesBehindPlain ==
  ASSUME PipeAssumption, PipeTypes, PlainInv, NEW x \in Filters, ComesBehind(x)
  PROVE  PlainInv'
  <1>1. PICK s \in Seq(Filters) : s = contexts
    BY DEF PipeTypes
  <1>2. PICK t \in Seq(Filters) : t = P!Reverse(contexts) /\ \A y : Contains(t, y) <=> Contains(s, y)
    BY <1>1, ReverseContexts
  <1>3. ~Contains(s, x) /\ ~Contains(t, x) /\ x \notin Gone
    BY <1>1, <1>2, InContains DEF ComesBehind, P!In, Gone
  <1>4. P!HasHead \in BOOLEAN /\ P!HasTail \in BOOLEAN
    BY DEF P!HasHead, P!HasTail
  <1>5. Way(P!HasHead, head', nextRead', Append(s, x), reads, Gone)
    <2>1. nextRead'[x] = None
      BY DEF ComesBehind, P!AddReadIfNull
    <2>2. \A f \in Filters : Contains(s, f) => nextRead'[f] =
            IF f \in reads /\ x \in reads /\ nextRead[f] = None THEN x ELSE nextRead[f]
      <3>1. ASSUME NEW f \in Filters, Contains(s, f)
            PROVE  nextRead'[f] = IF f \in reads /\ x \in reads /\ nextRead[f] = None
                                  THEN x ELSE nextRead[f]
        <4>1. f \in P!In /\ f # x
          BY <1>1, <1>3, <3>1, InContains DEF P!In
        <4> QED BY <4>1 DEF ComesBehind, P!AddReadIfNull, P!IsReadLink
      <3> QED BY <3>1
    <2>3. head' = IF P!HasHead /\ head = None /\ x \in reads THEN x ELSE head
      BY DEF ComesBehind, P!MaybeUpdateTail, P!IsReadLink
    <2>4. IsInjective(s) /\ Way(P!HasHead, head, nextRead, s, reads, Gone)
      BY <1>1 DEF PlainInv
    <2>5. Way(P!HasHead, IF P!HasHead /\ head = None /\ x \in reads THEN x ELSE head,
              nextRead', Append(s, x), reads, Gone)
      BY <1>3, <1>4, <2>1, <2>2, <2>4, WayBehind
    <2> QED BY <2>3, <2>5
  <1>6. Way(P!HasTail, tail', nextWrite', <<x>> \o t, writes, Gone)
    <2>1. x \in writes => nextWrite'[x] = Nth(P!Only(t, writes), 1)
      BY <1>2, FirstWriter DEF ComesBehind, P!AddWriteIfNull, P!IsWriteLink, PipeTypes
    <2>2. \A f \in Filters : f # x => nextWrite'[f] = nextWrite[f]
      BY DEF ComesBehind, P!AddWriteIfNull, PipeTypes
    <2>3. tail' = IF P!HasTail /\ x \in writes THEN x ELSE tail
      BY DEF ComesBehind, P!MaybeUpdateTail, P!IsWriteLink
    <2>4. Way(P!HasTail, tail, nextWrite, t, writes, Gone)
      BY <1>2 DEF PlainInv
    <2>5. writes \in SUBSET Filters
      BY DEF PipeTypes
    <2>6. Way(P!HasTail, IF P!HasTail /\ x \in writes THEN x ELSE tail,
              nextWrite', <<x>> \o t, writes, Gone)
      BY <1>3, <1>4, <2>1, <2>2, <2>4, <2>5, WayAhead
    <2> QED BY <2>3, <2>6
  <1>7. IsInjective(Append(s, x))
    BY <1>1, <1>3, ContainsAppend DEF PlainInv
  <1>8. P!Reverse(Append(s, x)) = <<x>> \o t
    BY <1>1, <1>2, ReverseAppend
  <1>9. contexts' = Append(s, x) /\ Gone' = Gone /\ reads' = reads /\ writes' = writes
        /\ P!HasHead' = P!HasHead /\ P!HasTail' = P!HasTail
    BY <1>1 DEF ComesBehind, Gone, P!roles, P!HasHead, P!HasTail
  <1> QED BY <1>5, <1>6, <1>7, <1>8, <1>9 DEF PlainInv

\* A filter at the back.
LEMMA PushBackStep ==
  ASSUME PipeAssumption, PipeInv, NEW x \in Filters, P!PushBack(x)
  PROVE  PipeInv'
  <1>1. ComesBehind(x) /\ plain' = plain
    BY DEF P!PushBack, ComesBehind
  <1>2. plain' => PlainInv'
    BY <1>1, ComesBehindPlain DEF PipeInv
  <1>3. PICK t \in Seq(Filters) : t = P!Reverse(contexts)
    BY ReverseContexts DEF PipeInv, PipeTypes
  <1>4. P!FirstWriteLink(t) \in Filters \cup {None}
    BY FirstWriter, OnlyType, NthType
  <1>5. PipeTypes'
    <2>1. Append(contexts, x) \in Seq(Filters)
      BY AppendProperties DEF PipeInv, PipeTypes
    <2>2. P!AddReadIfNull(x) \in [Filters -> Filters \cup {None}]
      BY DEF PipeInv, PipeTypes, P!AddReadIfNull
    <2>3. P!AddWriteIfNull(x, t) \in [Filters -> Filters \cup {None}]
      BY <1>4 DEF PipeInv, PipeTypes, P!AddWriteIfNull
    <2> QED BY <1>1, <1>3, <2>1, <2>2, <2>3
          DEF PipeInv, PipeTypes, ComesBehind, P!roles, P!MaybeUpdateTail
  <1> QED BY <1>2, <1>5 DEF PipeInv

\* A filter at the front, which keeps the links in order only in an empty
\* pipe: in another one the pipe is no longer plain.
LEMMA PushFrontStep ==
  ASSUME PipeAssumption, PipeInv, NEW x \in Filters, P!PushFront(x)
  PROVE  PipeInv'
  <1>1. P!FirstWriteLink(contexts) \in Filters \cup {None}
    BY FirstWriter, OnlyType, NthType DEF PipeInv, PipeTypes
  <1>2. PipeTypes'
    <2>1. <<x>> \o contexts \in Seq(Filters)
      BY OnlyFirst DEF PipeInv, PipeTypes
    <2>2. P!AddReadIfNull(x) \in [Filters -> Filters \cup {None}]
      BY DEF PipeInv, PipeTypes, P!AddReadIfNull
    <2>3. P!AddWriteIfNull(x, contexts) \in [Filters -> Filters \cup {None}]
      BY <1>1 DEF PipeInv, PipeTypes, P!AddWriteIfNull
    <2> QED BY <2>1, <2>2, <2>3
          DEF PipeInv, PipeTypes, P!PushFront, P!roles, P!MaybeUpdateHead
  <1>3. ASSUME plain' PROVE PlainInv'
    <2>1. plain /\ contexts = << >>
      BY <1>3 DEF P!PushFront
    <2>2. P!Reverse(<< >>) = << >>
      BY EmptySeq, ReverseContexts
    <2>3. PlainInv /\ PipeTypes
      BY <2>1 DEF PipeInv
    <2>4. Nth(<< >>, 1) = None
      BY EmptySeq DEF Nth
    <2>5. head = None /\ tail = None
      BY <2>1, <2>2, <2>3, <2>4, OnlyEmpty DEF PlainInv, Way
    <2>6. P!Reverse(contexts) = contexts
      BY <2>1, <2>2
    <2>7. <<x>> \o contexts = Append(contexts, x)
      <3>1. <<x>> \o << >> = Append(<< >>, x)
        OBVIOUS
      <3> QED BY <2>1, <3>1
    <2>8. P!MaybeUpdateTail(x)
      BY <2>5 DEF P!PushFront, P!MaybeUpdateHead, P!MaybeUpdateTail
    <2>9. ComesBehind(x)
      BY <2>6, <2>7, <2>8 DEF P!PushFront, ComesBehind
    <2> QED BY <2>3, <2>9, ComesBehindPlain
  <1> QED BY <1>2, <1>3 DEF PipeInv

\* A filter asks to go: the ends let go of it, the links do not yet.
LEMMA RemoveContextStep ==
  ASSUME PipeAssumption, PipeInv, NEW x \in Filters, P!RemoveContext(x)
  PROVE  PipeInv'
  <1>1. PipeTypes'
    <2>1. Append(deferred, x) \in Seq(Filters)
      BY AppendProperties DEF PipeInv, PipeTypes
    <2> QED BY <2>1 DEF PipeInv, PipeTypes, P!RemoveContext, P!roles,
                        P!MaybeChangeHead, P!MaybeChangeTail
  <1>2. ASSUME plain' PROVE PlainInv'
    <2>1. PlainInv /\ Gone \subseteq {x}
      BY <1>2 DEF PipeInv, P!RemoveContext, Gone
    <2>2. Gone' = {x}
      <3>1. deferred \in Seq(Filters) /\ deferred' = Append(deferred, x)
        BY DEF PipeInv, PipeTypes, P!RemoveContext
      <3>2. \A y : y \in P!ToSet(Append(deferred, x)) <=> (y \in P!ToSet(deferred) \/ y = x)
        <4>1. PICK d \in Seq(Filters) : d = Append(deferred, x)
          BY <3>1, AppendProperties
        <4>2. \A y : Contains(d, y) <=> (Contains(deferred, y) \/ y = x)
          BY <3>1, <4>1, ContainsAppend
        <4>3. \A y : y \in P!ToSet(d) <=> Contains(d, y)
          BY InContains
        <4>4. \A y : y \in P!ToSet(deferred) <=> Contains(deferred, y)
          BY <3>1, InContains
        <4> QED BY <4>1, <4>2, <4>3, <4>4
      <3> QED BY <2>1, <3>1, <3>2 DEF Gone
    <2>3. P!HasHead \in BOOLEAN /\ P!HasTail \in BOOLEAN
      BY DEF P!HasHead, P!HasTail
    <2>4. contexts \in Seq(Filters) /\ reads \in SUBSET Filters /\ writes \in SUBSET Filters
      BY DEF PipeInv, PipeTypes
    <2>5. PICK t \in Seq(Filters) : t = P!Reverse(contexts) /\ IsInjective(t)
      BY <2>1, <2>4, ReverseContexts DEF PlainInv
    <2>6. IsInjective(contexts) /\ Way(P!HasHead, head, nextRead, contexts, reads, Gone)
          /\ Way(P!HasTail, tail, nextWrite, t, writes, Gone)
      BY <2>1, <2>5 DEF PlainInv
    <2>7. Way(P!HasHead, IF head = x THEN nextRead[x] ELSE head, nextRead, contexts, reads, {x})
      <3>1. PICK gone : gone = Gone /\ gone \subseteq {x}
        BY <2>1
      <3>2. Way(P!HasHead, head, nextRead, contexts, reads, gone)
        BY <2>6, <3>1
      <3>3. PICK start : start = IF head = x THEN nextRead[x] ELSE head
        OBVIOUS
      <3>4. Way(P!HasHead, start, nextRead, contexts, reads, {x})
        BY <2>3, <2>4, <2>6, <3>1, <3>2, <3>3, WayLeave
      <3> QED BY <3>3, <3>4
    <2>8. Way(P!HasTail, IF tail = x THEN nextWrite[x] ELSE tail, nextWrite, t, writes, {x})
      <3>1. PICK gone : gone = Gone /\ gone \subseteq {x}
        BY <2>1
      <3>2. Way(P!HasTail, tail, nextWrite, t, writes, gone)
        BY <2>6, <3>1
      <3>3. PICK start : start = IF tail = x THEN nextWrite[x] ELSE tail
        OBVIOUS
      <3>4. Way(P!HasTail, start, nextWrite, t, writes, {x})
        <4>1. IsInjective(t)
          BY <2>5
        <4> QED BY <2>3, <2>4, <3>1, <3>2, <3>3, <4>1, WayLeave
      <3> QED BY <3>3, <3>4
    <2>9. /\ contexts' = contexts /\ reads' = reads /\ writes' = writes
          /\ nextRead' = nextRead /\ nextWrite' = nextWrite
          /\ P!HasHead' = P!HasHead /\ P!HasTail' = P!HasTail
          /\ head' = (IF head = x THEN nextRead[x] ELSE head)
          /\ tail' = (IF tail = x THEN nextWrite[x] ELSE tail)
      BY DEF P!RemoveContext, P!roles, P!HasHead, P!HasTail, P!MaybeChangeHead, P!MaybeChangeTail
    <2> QED BY <2>2, <2>5, <2>6, <2>7, <2>8, <2>9 DEF PlainInv, AtMostOne
  <1> QED BY <1>1, <1>2 DEF PipeInv

\* The filter goes: the links pass it over.
LEMMA DoRemoveStep ==
  ASSUME PipeAssumption, PipeInv, P!DoRemove
  PROVE  PipeInv'
  <1>1. deferred \in Seq(Filters) /\ deferred # << >>
    BY DEF PipeInv, PipeTypes, P!DoRemove
  <1>2. PICK x \in Filters : x = Head(deferred) /\ x \in Gone
    <2>1. Head(deferred) \in Filters /\ Head(deferred) = deferred[1] /\ 1 \in 1 .. Len(deferred)
      BY <1>1, HeadTailProperties, EmptySeq, LenProperties
    <2>2. DOMAIN deferred = 1 .. Len(deferred)
      BY <1>1, LenProperties
    <2> QED BY <2>1, <2>2 DEF Gone, P!ToSet
  <1>3. Tail(deferred) \in Seq(Filters) /\ P!ToSet(Tail(deferred)) \subseteq Gone
    <2>1. PICK z \in Filters, q \in Seq(Filters) : deferred = <<z>> \o q
      BY <1>1, FirstAndRest
    <2>2. Tail(deferred) = q
      BY <2>1
    <2>3. \A y : Contains(q, y) => Contains(<<z>> \o q, y)
      <3>1. <<z>> \in Seq(Filters)
        OBVIOUS
      <3> QED BY <3>1, ContainsConcat
    <2> QED BY <1>1, <2>1, <2>2, <2>3, InContains DEF Gone
  <1>4. contexts \in Seq(Filters) /\ reads \in SUBSET Filters /\ writes \in SUBSET Filters
    BY DEF PipeInv, PipeTypes
  <1>5. PICK t \in Seq(Filters) : /\ t = P!Reverse(contexts)
                                  /\ \A y : Contains(t, y) <=> Contains(contexts, y)
                                  /\ IsInjective(contexts) => IsInjective(t)
    BY <1>4, ReverseContexts
  <1>6. PipeTypes'
    <2>1. P!Only(contexts, Filters \ {x}) \in Seq(Filters)
      BY <1>4, OnlyType
    <2>2. ASSUME NEW next \in [Filters -> Filters \cup {None}]
          PROVE  P!Unlink(next, x) \in [Filters -> Filters \cup {None}]
      BY DEF P!Unlink
    <2> QED BY <1>2, <1>3, <2>1, <2>2 DEF PipeInv, PipeTypes, P!DoRemove, P!roles
  <1>7. ASSUME plain' PROVE PlainInv'
    <2>1. PlainInv
      BY <1>7 DEF PipeInv, P!DoRemove
    <2>2. Gone = {x}
      BY <1>2, <2>1 DEF PlainInv, AtMostOne
    <2>3. Gone' \subseteq {x}
      BY <1>3, <2>2 DEF P!DoRemove, Gone
    <2>4. P!HasHead \in BOOLEAN /\ P!HasTail \in BOOLEAN
      BY DEF P!HasHead, P!HasTail
    <2>5. IsInjective(contexts) /\ Way(P!HasHead, head, nextRead, contexts, reads, {x})
          /\ Way(P!HasTail, tail, nextWrite, t, writes, {x}) /\ IsInjective(t)
      BY <1>5, <2>1, <2>2 DEF PlainInv
    <2>6. \A f \in Filters : f \in P!In <=> Contains(contexts, f)
      BY <1>4, InContains DEF P!In
    <2>7. \A f \in Filters : Contains(contexts, f) =>
            nextRead'[f] = IF nextRead[f] = x THEN nextRead[x] ELSE nextRead[f]
      BY <1>2, <2>6 DEF P!DoRemove, P!Unlink
    <2>8. \A f \in Filters : Contains(t, f) =>
            nextWrite'[f] = IF nextWrite[f] = x THEN nextWrite[x] ELSE nextWrite[f]
      BY <1>2, <1>5, <2>6 DEF P!DoRemove, P!Unlink
    <2>9. Way(P!HasHead, head, nextRead', P!Only(contexts, Filters \ {x}), reads, Gone')
      BY <1>4, <2>3, <2>4, <2>5, <2>7, WayGo
    <2>10. Way(P!HasTail, tail, nextWrite', P!Only(t, Filters \ {x}), writes, Gone')
      BY <1>4, <2>3, <2>4, <2>5, <2>8, WayGo
    <2>11. P!Reverse(P!Only(contexts, Filters \ {x})) = P!Only(t, Filters \ {x})
      BY <1>4, <1>5, OnlyReverse
    <2>12. IsInjective(P!Only(contexts, Filters \ {x}))
      BY <1>4, <2>5, OnlyInjective
    <2>13. /\ contexts' = P!Only(contexts, Filters \ {x})
           /\ head' = head /\ tail' = tail /\ reads' = reads /\ writes' = writes
           /\ P!HasHead' = P!HasHead /\ P!HasTail' = P!HasTail
      BY <1>2 DEF P!DoRemove, P!roles, P!HasHead, P!HasTail
    <2>14. AtMostOne(Gone')
      BY <2>3 DEF AtMostOne
    <2> QED BY <2>9, <2>10, <2>11, <2>12, <2>13, <2>14 DEF PlainInv
  <1> QED BY <1>6, <1>7 DEF PipeInv

\* The empty pipe.
LEMMA PipeInitial ==
  ASSUME P!Init
  PROVE  PipeInv
  <1>1. /\ contexts = << >> /\ deferred = << >> /\ head = None /\ tail = None
        /\ << >> \in Seq(Filters) /\ Len(<< >>) = 0 /\ 1 \notin 1 .. Len(<< >>)
    BY EmptySeq DEF P!Init
  <1>2. P!Reverse(<< >>) = << >>
    BY EmptySeq, ReverseContexts
  <1>3. Nth(<< >>, 1) = None /\ \A next : Linked(<< >>, next)
    BY <1>1 DEF Nth, Linked
  <1>4. IsInjective(contexts)
    BY <1>1, EmptySeq DEF IsInjective
  <1>5. Gone = {}
    BY <1>1 DEF Gone, P!ToSet
  <1>6. PipeTypes
    BY <1>1 DEF P!Init, PipeTypes
  <1>7. PlainInv
    BY <1>1, <1>2, <1>3, <1>4, <1>5, OnlyEmpty DEF PlainInv, Way, AtMostOne
  <1> QED BY <1>6, <1>7 DEF PipeInv

\* PipeInv is inductive.
LEMMA PipeStep ==
  ASSUME PipeAssumption, PipeInv, [P!Next]_P!vars
  PROVE  PipeInv'
  <1>1. CASE P!Next
    BY <1>1, PushBackStep, PushFrontStep, RemoveContextStep, DoRemoveStep DEF P!Next
  <1>2. CASE UNCHANGED P!vars
    BY <1>2 DEF P!vars, PipeInv, PipeTypes, PlainInv, Gone, P!HasHead, P!HasTail
  <1> QED BY <1>1, <1>2

\* A message that enters the pipe passes the takers of s that stay, in order.
Passes(has, first, next, s, takers, gone) ==
  /\ \A y : y \in P!ToSet(P!Path(first, next)) => Contains(s, y)
  /\ has => P!Only(P!Path(first, next), Filters \ gone) = P!Only(s, takers \cap (Filters \ gone))

\* Each direction of the pipe.
LEMMA MessagePasses ==
  ASSUME PipeAssumption, contexts \in Seq(Filters),
         NEW s \in Seq(Filters), IsInjective(s), Len(s) = Len(contexts),
         NEW takers \in SUBSET Filters, NEW gone \in SUBSET Filters,
         AtMostOne(gone), NEW has \in BOOLEAN,
         NEW first, NEW next, Way(has, first, next, s, takers, gone)
  PROVE  Passes(has, first, next, s, takers, gone)
  <1>1. CASE has
    <2>1. Way(TRUE, first, next, s, takers, gone)
      BY <1>1 DEF Way
    <2>2. PICK q \in Seq(Filters) : LeadsPast(q, first, next, s, takers, gone)
      BY <2>1, WayPath
    <2>3. Linked(q, next) /\ first = Nth(q, 1) /\ Len(q) <= Len(contexts)
      BY <2>2 DEF LeadsPast
    <2>4. P!Path(first, next) = q
      BY <2>3, PathFollows
    <2>5. \A y : y \in P!ToSet(q) <=> Contains(q, y)
      BY InContains
    <2> QED BY <2>2, <2>4, <2>5 DEF LeadsPast, Passes
  <1>2. CASE ~has
    <2>1. first = None
      BY <1>2 DEF Way
    <2>2. << >> \in Seq(Filters) /\ Len(<< >>) = 0 /\ Len(<< >>) <= Len(contexts)
      BY EmptySeq, LenProperties
    <2>3. Linked(<< >>, next) /\ first = Nth(<< >>, 1)
      BY <2>1, <2>2 DEF Linked, Nth
    <2>4. P!Path(first, next) = << >>
      BY <2>2, <2>3, PathFollows
    <2>5. P!ToSet(<< >>) = {}
      BY DEF P!ToSet
    <2> QED BY <1>2, <2>4, <2>5 DEF Passes
  <1> QED BY <1>1, <1>2

\* From the links to the path that a message takes along them.
LEMMA PassesFilters ==
  ASSUME PipeAssumption, PipeInv
  PROVE  P!PassesEveryFilter
  <1>1. SUFFICES ASSUME plain
                 PROVE  /\ P!ToSet(P!ReadPath) \cup P!ToSet(P!WritePath) \subseteq P!In
                        /\ P!HasHead => P!Only(P!ReadPath, Filters \ Gone)
                                          = P!Only(contexts, reads \cap (Filters \ Gone))
                        /\ P!HasTail => P!Only(P!WritePath, Filters \ Gone)
                                          = P!Only(P!Reverse(contexts), writes \cap (Filters \ Gone))
    BY DEF P!PassesEveryFilter, Gone
  <1>2. PlainInv /\ contexts \in Seq(Filters) /\ reads \in SUBSET Filters /\ writes \in SUBSET Filters
    BY <1>1 DEF PipeInv, PipeTypes
  <1>3. PICK gone \in SUBSET Filters : gone = Gone /\ AtMostOne(gone)
    <2>1. Gone \in SUBSET Filters
      BY InContains DEF PipeInv, PipeTypes, Gone
    <2>2. AtMostOne(Gone)
      BY <1>2 DEF PlainInv
    <2> QED BY <2>1, <2>2
  <1>4. P!HasHead \in BOOLEAN /\ P!HasTail \in BOOLEAN
    BY DEF P!HasHead, P!HasTail
  <1>5. PICK t \in Seq(Filters) : /\ t = P!Reverse(contexts) /\ Len(t) = Len(contexts)
                                  /\ \A y : Contains(t, y) <=> Contains(contexts, y)
                                  /\ IsInjective(contexts) => IsInjective(t)
    BY <1>2, ReverseContexts
  <1>6. IsInjective(contexts) /\ IsInjective(t)
        /\ Way(P!HasHead, head, nextRead, contexts, reads, gone)
        /\ Way(P!HasTail, tail, nextWrite, t, writes, gone)
    BY <1>2, <1>3, <1>5 DEF PlainInv
  <1>7. Passes(P!HasHead, head, nextRead, contexts, reads, gone)
    <2>1. Len(contexts) = Len(contexts) /\ AtMostOne(gone)
      BY <1>3
    <2> QED BY <1>2, <1>4, <1>6, <2>1, MessagePasses
  <1>8. Passes(P!HasTail, tail, nextWrite, t, writes, gone)
    <2>1. Len(t) = Len(contexts) /\ AtMostOne(gone)
      BY <1>3, <1>5
    <2> QED BY <1>2, <1>4, <1>6, <2>1, MessagePasses
  <1>9. \A y : Contains(contexts, y) => y \in P!In
    BY <1>2, InContains DEF P!In
  <1> QED BY <1>3, <1>5, <1>7, <1>8, <1>9 DEF P!ReadPath, P!WritePath, Passes

\* A message passes every filter of a pipe that takes it, once and in order,
\* while filters are added at the back and removed one at a time, for any
\* filters and any number of removals that are pending: add_read_if_null,
\* add_write_if_null, maybe_update_tail, maybe_change_head and the deferred
\* remove keep each link at the next filter that takes the message.
THEOREM PipesPass ==
  ASSUME PipeAssumption
  PROVE  P!Spec => []PassesEveryFilter
  <1>1. P!Init => PipeInv
    BY PipeInitial
  <1>2. PipeInv /\ [P!Next]_P!vars => PipeInv'
    BY PipeStep
  <1>3. PipeInv => PassesEveryFilter
    BY PassesFilters DEF PassesEveryFilter
  <1> QED BY <1>1, <1>2, <1>3, PTL DEF P!Spec
=============================================================================
