--------------------------- MODULE ChannelProofs ---------------------------
(***************************************************************************)
(* Theorems about Channel, for any finite set of tasks, any channels of    *)
(* any size and any values.  The type invariant and that a receiver waits  *)
(* only on an empty buffer are proved by induction together (IInv); from   *)
(* them follows where every task is registered (Synced), and from both the *)
(* balance of openings and senders and the refinement of the abstract bus. *)
(***************************************************************************)
EXTENDS Channel, QueueLemmas

OpOK == op \in [Tasks -> [kind : {"none", "put", "get"},
                          bus : Channels \cup {Nothing},
                          value : Values \cup {Nothing}, at : Points]]

\* The part of TypeOK about the deques and the counters of unblocks.
QueuesOK ==
  /\ scheduled \in [Tasks -> Nat]
  /\ senders \in [Channels -> Seq(Tasks)]
  /\ receivers \in [Channels -> Seq(Tasks)]

\* The part of TypeOK about the rings.
RingOK ==
  /\ DOMAIN slot = Channels /\ DOMAIN head = Channels /\ DOMAIN tail = Channels
  /\ \A c \in Channels :
       /\ slot[c] \in [Slots(c) -> Values \cup {Garbage}]
       /\ head[c] \in {0} \cup Slots(c)
       /\ tail[c] \in {0} \cup Slots(c)

StorageOK == storage \in [Tasks -> Values \cup {Garbage, Nothing}]

\* An index of a ring with slots moves to another of its slots (_next_idx).
LEMMA NextIdxIsSlot ==
  ASSUME NEW c \in Channels, Size[c] > 0, NEW i \in {0} \cup Slots(c)
  PROVE  NextIdx(c, i) \in Slots(c)
<1>1. Size[c] \in Nat /\ Size[c] > 0
  BY ChannelAssumption
<1>2. i + 1 \in Nat
  BY <1>1 DEF Slots
<1>3. (i + 1) % Size[c] \in 0 .. Size[c] - 1
  BY <1>1, <1>2
<1> QED BY <1>3 DEF NextIdx, Slots

\* A put carries a value, so no slot ever takes Nothing.
PutHasValue == \A t \in Tasks : op[t].kind = "put" => op[t].value \in Values

\* The inductive invariant.
IInv == OpOK /\ PutHasValue /\ StorageOK /\ QueuesOK /\ RingOK
        /\ ReceiversWaitOnEmptyBuffer

LEMMA IInvType == IInv => TypeOK
BY DEF IInv, OpOK, StorageOK, QueuesOK, RingOK, TypeOK

LEMMA InitIInv == Init => IInv
<1> SUFFICES ASSUME Init PROVE IInv
  OBVIOUS
<1>1. OpOK /\ PutHasValue
  BY DEF Init, NoOp, OpOK, PutHasValue, Points
<1>2. StorageOK
  BY DEF Init, StorageOK
<1>3. QueuesOK
  BY DEF Init, QueuesOK
<1>4. RingOK
  BY DEF Init, RingOK
<1>5. ReceiversWaitOnEmptyBuffer
  BY DEF Init, ReceiversWaitOnEmptyBuffer
<1> QED BY <1>1, <1>2, <1>3, <1>4, <1>5 DEF IInv

\* What an operation does to the record of its task: it ends, or it moves to
\* another point.
LEMMA OpMoves ==
  ASSUME OpOK, PutHasValue, NEW t \in Tasks,
         \/ op' = [op EXCEPT ![t] = NoOp]
         \/ \E p \in Points : op' = [op EXCEPT ![t].at = p]
  PROVE  OpOK' /\ PutHasValue'
<1>1. CASE op' = [op EXCEPT ![t] = NoOp]
  BY <1>1 DEF OpOK, PutHasValue, NoOp, Points
<1>2. CASE \E p \in Points : op' = [op EXCEPT ![t].at = p]
  BY <1>2 DEF OpOK, PutHasValue
<1> QED BY <1>1, <1>2

\* maybe_fill keeps the deques and the counters well formed.
LEMMA FillTypes ==
  ASSUME QueuesOK, NEW c \in Channels, MaybeFill(c)
  PROVE  scheduled' \in [Tasks -> Nat] /\ senders' \in [Channels -> Seq(Tasks)]
<1>1. CASE senders[c] = << >>
  BY <1>1 DEF MaybeFill, QueuesOK
<1>2. CASE senders[c] # << >>
  <2>1. senders[c] \in Seq(Tasks)
    BY DEF QueuesOK
  <2>2. Head(senders[c]) \in Tasks /\ Tail(senders[c]) \in Seq(Tasks)
    BY <1>2, <2>1
  <2>3. /\ scheduled' = [scheduled EXCEPT ![Head(senders[c])] = @ + 1]
        /\ senders' = [senders EXCEPT ![c] = Tail(@)]
    BY <1>2 DEF MaybeFill, Unblock
  <2> QED BY <2>2, <2>3 DEF QueuesOK
<1> QED BY <1>1, <1>2

\* A put that finds a receiver.  By the invariant the buffer is empty, so the
\* receiver is given the value and unblocked.
LEMMA PutToReceiverStep ==
  ASSUME IInv, NEW t \in Tasks, NEW c \in Channels, PutToReceiver(t, c)
  PROVE  IInv'
<1> USE DEF IInv
<1>1. /\ ~HasValue(c)
      /\ receivers[c] \in Seq(Tasks)
      /\ receivers[c] # << >>
  BY DEF PutToReceiver, ReceiversWaitOnEmptyBuffer, QueuesOK
<1>2. Head(receivers[c]) \in Tasks /\ Tail(receivers[c]) \in Seq(Tasks)
  BY <1>1
<1>3. /\ storage' = [storage EXCEPT ![Head(receivers[c])] = op[t].value]
      /\ scheduled' = [scheduled EXCEPT ![Head(receivers[c])] = @ + 1]
      /\ UNCHANGED buffer
      /\ receivers' = [receivers EXCEPT ![c] = Tail(receivers[c])]
      /\ op' = [op EXCEPT ![t] = NoOp]
      /\ UNCHANGED senders
  BY <1>1 DEF PutToReceiver, Deliver, Unblock, Released
<1>4. op[t].value \in Values
  BY DEF PutToReceiver, Enters, PutHasValue
<1>5. OpOK' /\ PutHasValue'
  BY <1>3, OpMoves
<1>6. StorageOK'
  BY <1>2, <1>3, <1>4 DEF StorageOK
<1>7. QueuesOK'
  BY <1>2, <1>3 DEF QueuesOK
<1>8. RingOK'
  BY <1>3 DEF RingOK, buffer
<1>9. ReceiversWaitOnEmptyBuffer'
  BY <1>1, <1>3 DEF ReceiversWaitOnEmptyBuffer, HasValue, buffer, QueuesOK
<1> QED BY <1>5, <1>6, <1>7, <1>8, <1>9

\* A put that finds room: nobody waits on the buffer it fills.
LEMMA PutBuffersStep ==
  ASSUME IInv, NEW t \in Tasks, NEW c \in Channels, PutBuffers(t, c)
  PROVE  IInv'
<1> USE DEF IInv
<1>1. /\ op' = [op EXCEPT ![t] = NoOp]
      /\ UNCHANGED <<storage, scheduled, senders, receivers, head>>
      /\ receivers[c] = << >>
      /\ Size[c] > 0
      /\ tail' = [tail EXCEPT ![c] = NextIdx(c, @)]
      /\ slot' = [slot EXCEPT ![c][NextIdx(c, tail[c])] = op[t].value]
  BY DEF PutBuffers, NoReceiver, HasRoom, BufferPush
<1>2. op[t].value \in Values
  BY DEF PutBuffers, Enters, PutHasValue
<1>3. NextIdx(c, tail[c]) \in Slots(c)
  BY <1>1, NextIdxIsSlot DEF RingOK
<1>4. OpOK' /\ PutHasValue'
  BY <1>1, OpMoves
<1>5. StorageOK' /\ QueuesOK'
  BY <1>1 DEF StorageOK, QueuesOK
<1>6. RingOK'
  BY <1>1, <1>2, <1>3 DEF RingOK
<1>7. ReceiversWaitOnEmptyBuffer'
  BY <1>1 DEF ReceiversWaitOnEmptyBuffer, HasValue, RingOK
<1> QED BY <1>4, <1>5, <1>6, <1>7

\* A get that finds a value: then, by the invariant, nobody waits.
LEMMA GetFromBufferStep ==
  ASSUME IInv, NEW t \in Tasks, NEW c \in Channels, GetFromBuffer(t, c)
  PROVE  IInv'
<1> USE DEF IInv
<1>1. /\ op' = [op EXCEPT ![t].at = "return"]
      /\ UNCHANGED <<receivers, slot, tail>>
      /\ HasValue(c)
      /\ Size[c] > 0
      /\ MaybeFill(c)
      /\ head' = [head EXCEPT ![c] = NextIdx(c, @)]
      /\ storage' = [storage EXCEPT ![t] = slot[c][head[c]]]
  BY DEF GetFromBuffer, HasValue, BufferPop
<1>2. receivers[c] = << >>
  BY <1>1 DEF ReceiversWaitOnEmptyBuffer
<1>3. NextIdx(c, head[c]) \in Slots(c)
  BY <1>1, NextIdxIsSlot DEF RingOK
<1>4. head[c] \in Slots(c)
  <2>1. head[c] \in {0} \cup Slots(c)
    BY DEF RingOK
  <2>2. Size[c] \in Nat
    BY ChannelAssumption
  <2>3. 0 \in Slots(c)
    BY <1>1, <2>2 DEF Slots
  <2> QED BY <2>1, <2>3
<1>5. slot[c][head[c]] \in Values \cup {Garbage}
  BY <1>4 DEF RingOK
<1>6. "return" \in Points
  BY DEF Points
<1>7. OpOK' /\ PutHasValue'
  BY <1>1, <1>6, OpMoves
<1>8. StorageOK'
  BY <1>1, <1>5 DEF StorageOK
<1>9. QueuesOK'
  BY <1>1, FillTypes DEF QueuesOK
<1>10. RingOK'
  BY <1>1, <1>3 DEF RingOK
<1>11. ReceiversWaitOnEmptyBuffer'
  BY <1>1, <1>2 DEF ReceiversWaitOnEmptyBuffer, HasValue, RingOK
<1> QED BY <1>7, <1>8, <1>9, <1>10, <1>11

\* A get that finds none waits, on an empty buffer.
LEMMA GetRegistersStep ==
  ASSUME IInv, NEW t \in Tasks, NEW c \in Channels, GetRegisters(t, c)
  PROVE  IInv'
<1> USE DEF IInv
<1>1. /\ op' = [op EXCEPT ![t].at = "registered"]
      /\ UNCHANGED <<storage, slot, head, tail>>
      /\ ~HasValue(c)
      /\ MaybeFill(c)
      /\ receivers' = [receivers EXCEPT ![c] = Append(@, t)]
  BY DEF GetRegisters, buffer
<1>2. "registered" \in Points
  BY DEF Points
<1>3. OpOK' /\ PutHasValue'
  BY <1>1, <1>2, OpMoves
<1>4. StorageOK'
  BY <1>1 DEF StorageOK
<1>5. QueuesOK'
  BY <1>1, FillTypes DEF QueuesOK
<1>6. RingOK'
  BY <1>1 DEF RingOK
<1>7. ReceiversWaitOnEmptyBuffer'
  BY <1>1 DEF ReceiversWaitOnEmptyBuffer, HasValue, QueuesOK
<1> QED BY <1>3, <1>4, <1>5, <1>6, <1>7

\* The steps that leave the receivers and the buffer alone.
LEMMA OtherSteps ==
  ASSUME IInv, NEW t \in Tasks,
         \/ Start(t)
         \/ \E c \in Channels : PutRegisters(t, c)
         \/ Block(t) \/ Resume(t) \/ Return(t)
  PROVE  IInv'
<1> USE DEF IInv
<1>1. UNCHANGED <<receivers, slot, head, tail>>
  BY DEF Start, StartGet, StartPut, PutRegisters, Block, Resume, Return, buffer
<1>2. RingOK' /\ ReceiversWaitOnEmptyBuffer'
  BY <1>1 DEF RingOK, ReceiversWaitOnEmptyBuffer, HasValue
<1>3. OpOK' /\ PutHasValue'
  <2>1. CASE Start(t)
    <3>1. CASE \E c \in Channels : StartGet(t, c)
      BY <3>1 DEF StartGet, OpOK, PutHasValue, Points
    <3>2. CASE \E c \in Channels, v \in Values : StartPut(t, c, v)
      BY <3>2 DEF StartPut, OpOK, PutHasValue, Points
    <3> QED BY <2>1, <3>1, <3>2 DEF Start
  <2>2. CASE ~Start(t)
    <3>1. \/ op' = [op EXCEPT ![t] = NoOp]
          \/ \E p \in Points : op' = [op EXCEPT ![t].at = p]
      BY <2>2 DEF PutRegisters, Block, Resume, Return, Points
    <3> QED BY <3>1, OpMoves
  <2> QED BY <2>1, <2>2
<1>4. StorageOK'
  <2>1. storage' = storage \/ storage' = [storage EXCEPT ![t] = Nothing]
    BY DEF Start, StartGet, StartPut, PutRegisters, Block, Resume, Return
  <2> QED BY <2>1 DEF StorageOK
<1>5. scheduled' \in [Tasks -> Nat]
  <2>1. \/ scheduled' = scheduled
        \/ scheduled[t] > 0 /\ scheduled' = [scheduled EXCEPT ![t] = @ - 1]
    BY DEF Start, StartGet, StartPut, PutRegisters, Block, Resume, Return
  <2>2. scheduled \in [Tasks -> Nat]
    BY DEF QueuesOK
  <2>3. scheduled[t] > 0 => scheduled[t] - 1 \in Nat
    BY <2>2
  <2> QED BY <2>1, <2>2, <2>3
<1>6. senders' \in [Channels -> Seq(Tasks)]
  <2>1. \/ senders' = senders
        \/ \E c \in Channels : senders' = [senders EXCEPT ![c] = Append(@, t)]
    BY DEF Start, StartGet, StartPut, PutRegisters, Block, Resume, Return
  <2>2. /\ senders \in [Channels -> Seq(Tasks)]
        /\ \A c \in Channels : Append(senders[c], t) \in Seq(Tasks)
    BY DEF QueuesOK
  <2> QED BY <2>1, <2>2
<1>7. QueuesOK'
  BY <1>1, <1>5, <1>6 DEF QueuesOK
<1> QED BY <1>2, <1>3, <1>4, <1>7

LEMMA NextIInv == IInv /\ [Next]_vars => IInv'
<1> SUFFICES ASSUME IInv, [Next]_vars PROVE IInv'
  OBVIOUS
<1>1. CASE UNCHANGED vars
  BY <1>1 DEF IInv, OpOK, PutHasValue, StorageOK, QueuesOK, RingOK,
              ReceiversWaitOnEmptyBuffer, HasValue, vars, buffer
<1>2. CASE Next
  <2>1. PICK t \in Tasks : Start(t) \/ Goes(t)
    BY <1>2 DEF Next
  <2>2. CASE \E c \in Channels : PutToReceiver(t, c)
    BY <2>2, PutToReceiverStep
  <2>3. CASE \E c \in Channels : PutBuffers(t, c)
    BY <2>3, PutBuffersStep
  <2>4. CASE \E c \in Channels : GetFromBuffer(t, c)
    BY <2>4, GetFromBufferStep
  <2>5. CASE \E c \in Channels : GetRegisters(t, c)
    BY <2>5, GetRegistersStep
  <2>6. CASE \/ Start(t)
             \/ \E c \in Channels : PutRegisters(t, c)
             \/ Block(t) \/ Resume(t) \/ Return(t)
    BY <2>6, OtherSteps
  <2> QED BY <2>1, <2>2, <2>3, <2>4, <2>5, <2>6 DEF Goes, Locked
<1> QED BY <1>1, <1>2

----------------------------------------------------------------------------
(***************************************************************************)
(* Who waits where.  The deques, the counters of unblocks and the storage  *)
(* of the gets all follow from where each task is in its operation.        *)
(***************************************************************************)

\* t has registered and was not yet resumed.
Waits(t) == op[t].at \in {"registered", "blocked"}

CallOK(t) ==
  /\ op[t].at = "idle" <=> op[t].kind = "none"
  /\ op[t].at = "idle" => op[t] = NoOp
  /\ op[t].at # "idle" => op[t].bus \in Channels
  /\ op[t].kind = "get" => op[t].value = Nothing
  /\ op[t].at = "return" => op[t].kind = "get"

\* Only a task that waits is scheduled, and once.
CountOK(t) == scheduled[t] = 0 \/ (scheduled[t] = 1 /\ Waits(t))

\* The storage of a get is written when its task is unblocked.
StoredOK(t) ==
  storage[t] # Nothing <=>
    op[t].kind = "get" /\ (op[t].at = "return" \/ scheduled[t] = 1)

\* The deques hold the tasks that wait and were not unblocked.
SenderOK(c, t) ==
  Contains(senders[c], t) <=>
    Waits(t) /\ scheduled[t] = 0 /\ op[t].kind = "put" /\ op[t].bus = c
ReceiverOK(c, t) ==
  Contains(receivers[c], t) <=>
    Waits(t) /\ scheduled[t] = 0 /\ op[t].kind = "get" /\ op[t].bus = c

TaskOK(t) ==
  /\ CallOK(t) /\ CountOK(t) /\ StoredOK(t)
  /\ \A c \in Channels : SenderOK(c, t) /\ ReceiverOK(c, t)

NoneTwice ==
  \A c \in Channels : IsInjective(senders[c]) /\ IsInjective(receivers[c])

Synced == NoneTwice /\ \A t \in Tasks : TaskOK(t)

LEMMA InitSynced == Init => Synced
<1> SUFFICES ASSUME Init PROVE Synced
  OBVIOUS
<1>1. \A x : ~Contains(<< >>, x)
  BY DEF Contains
<1>2. IsInjective(<< >>)
  BY DEF IsInjective
<1>3. NoneTwice
  BY <1>2 DEF Init, NoneTwice
<1>4. ASSUME NEW t \in Tasks PROVE TaskOK(t)
  BY <1>1 DEF Init, TaskOK, CallOK, CountOK, StoredOK, SenderOK, ReceiverOK,
              Waits, NoOp
<1> QED BY <1>3, <1>4 DEF Synced

\* A task that a step does not touch keeps its place.
LEMMA Untouched ==
  ASSUME NEW t \in Tasks, TaskOK(t), op'[t] = op[t],
         scheduled'[t] = scheduled[t], storage'[t] = storage[t],
         \A c \in Channels :
           /\ Contains(senders'[c], t) <=> Contains(senders[c], t)
           /\ Contains(receivers'[c], t) <=> Contains(receivers[c], t)
  PROVE  TaskOK(t)'
BY DEF TaskOK, CallOK, CountOK, StoredOK, SenderOK, ReceiverOK, Waits

\* A task is at most once in the deques of the channels.
Apart(q) ==
  /\ \A d \in Channels : IsInjective(q[d])
  /\ \A d, e \in Channels, u \in Tasks :
       Contains(q[d], u) /\ Contains(q[e], u) => d = e

LEMMA SyncedApart ==
  ASSUME Synced
  PROVE  Apart(senders) /\ Apart(receivers)
BY DEF Apart, Synced, NoneTwice, TaskOK, SenderOK, ReceiverOK

\* The deques after pop_front and after push_back.
Popped(q, c) == [q EXCEPT ![c] = Tail(q[c])]
Pushed(q, c, t) == [q EXCEPT ![c] = Append(q[c], t)]

\* The first task of a deque leaves it, and is in no other.
LEMMA FirstLeaves ==
  ASSUME NEW q \in [Channels -> Seq(Tasks)], NEW p, NEW c \in Channels,
         Apart(q), q[c] # << >>, p = Popped(q, c)
  PROVE  /\ Head(q[c]) \in Tasks
         /\ Contains(q[c], Head(q[c]))
         /\ p \in [Channels -> Seq(Tasks)]
         /\ \A d \in Channels : IsInjective(p[d])
         /\ \A d \in Channels, u \in Tasks :
              Contains(p[d], u) <=> Contains(q[d], u) /\ u # Head(q[c])
<1>1. q[c] \in Seq(Tasks) /\ IsInjective(q[c])
  BY DEF Apart
<1>2. /\ Head(q[c]) \in Tasks
      /\ Tail(q[c]) \in Seq(Tasks)
      /\ Contains(q[c], Head(q[c]))
      /\ \A x : Contains(Tail(q[c]), x) <=> (Contains(q[c], x) /\ x # Head(q[c]))
      /\ IsInjective(Tail(q[c]))
  BY <1>1, ContainsTail
<1>3. p[c] = Tail(q[c]) /\ \A d \in Channels : d # c => p[d] = q[d]
  BY DEF Popped
<1>4. p \in [Channels -> Seq(Tasks)]
  BY <1>2 DEF Popped
<1>5. ASSUME NEW d \in Channels, NEW u \in Tasks
      PROVE  Contains(p[d], u) <=> Contains(q[d], u) /\ u # Head(q[c])
  <2>1. CASE d = c
    BY <2>1, <1>2, <1>3
  <2>2. CASE d # c
    BY <2>2, <1>2, <1>3 DEF Apart
  <2> QED BY <2>1, <2>2
<1>6. \A d \in Channels : IsInjective(p[d])
  BY <1>2, <1>3 DEF Apart
<1> QED BY <1>2, <1>4, <1>5, <1>6

\* A task registers at the end of a deque.
LEMMA LastEnters ==
  ASSUME NEW q \in [Channels -> Seq(Tasks)], NEW p, NEW c \in Channels,
         NEW t \in Tasks, Apart(q), ~Contains(q[c], t),
         p = Pushed(q, c, t)
  PROVE  /\ \A d \in Channels : IsInjective(p[d])
         /\ \A d \in Channels, u \in Tasks :
              Contains(p[d], u) <=> Contains(q[d], u) \/ (d = c /\ u = t)
<1>1. q[c] \in Seq(Tasks) /\ IsInjective(q[c])
  BY DEF Apart
<1>2. /\ \A x : Contains(Append(q[c], t), x) <=> (Contains(q[c], x) \/ x = t)
      /\ IsInjective(Append(q[c], t))
  BY <1>1, ContainsAppend
<1>3. p[c] = Append(q[c], t) /\ \A d \in Channels : d # c => p[d] = q[d]
  BY DEF Pushed
<1>4. ASSUME NEW d \in Channels, NEW u \in Tasks
      PROVE  Contains(p[d], u) <=> Contains(q[d], u) \/ (d = c /\ u = t)
  <2>1. CASE d = c
    BY <2>1, <1>2, <1>3
  <2>2. CASE d # c
    BY <2>2, <1>3
  <2> QED BY <2>1, <2>2
<1>5. \A d \in Channels : IsInjective(p[d])
  BY <1>2, <1>3 DEF Apart
<1> QED BY <1>4, <1>5

\* The sender that maybe_fill unblocks, if there is one.
LEMMA Fills ==
  ASSUME IInv, Synced, NEW c \in Channels, MaybeFill(c)
  PROVE  \/ senders[c] = << >> /\ UNCHANGED <<scheduled, senders>>
         \/ \E s \in Tasks :
              /\ Contains(senders[c], s)
              /\ scheduled' = [scheduled EXCEPT ![s] = 1]
              /\ \A d \in Channels : IsInjective(senders'[d])
              /\ \A d \in Channels, u \in Tasks :
                   Contains(senders'[d], u) <=> Contains(senders[d], u) /\ u # s
<1>1. CASE senders[c] = << >>
  BY <1>1 DEF MaybeFill
<1>2. CASE senders[c] # << >>
  <2> DEFINE s == Head(senders[c])
  <2>1. /\ scheduled' = [scheduled EXCEPT ![s] = @ + 1]
        /\ senders' = Popped(senders, c)
    BY <1>2 DEF MaybeFill, Unblock, Popped
  <2>2. /\ senders \in [Channels -> Seq(Tasks)]
        /\ scheduled \in [Tasks -> Nat]
    BY DEF IInv, QueuesOK
  <2>3. Apart(senders)
    BY SyncedApart
  <2>4. /\ s \in Tasks
        /\ Contains(senders[c], s)
        /\ \A d \in Channels : IsInjective(senders'[d])
        /\ \A d \in Channels, u \in Tasks :
             Contains(senders'[d], u) <=> Contains(senders[d], u) /\ u # s
    BY <1>2, <2>1, <2>2, <2>3, FirstLeaves
  <2>5. scheduled[s] = 0
    BY <2>4 DEF Synced, TaskOK, SenderOK
  <2>6. scheduled' = [scheduled EXCEPT ![s] = 1]
    BY <2>1, <2>2, <2>4, <2>5
  <2> QED BY <2>4, <2>6
<1> QED BY <1>1, <1>2

\* The steps of a task that touch no deque and no other task.
LEMMA AloneSynced ==
  ASSUME IInv, Synced, NEW t \in Tasks,
         \/ Start(t)
         \/ \E c \in Channels : PutBuffers(t, c)
         \/ Block(t) \/ Resume(t) \/ Return(t)
  PROVE  Synced'
<1>1. /\ op \in [Tasks -> [kind : {"none", "put", "get"},
                           bus : Channels \cup {Nothing},
                           value : Values \cup {Nothing}, at : Points]]
      /\ scheduled \in [Tasks -> Nat]
      /\ storage \in [Tasks -> Values \cup {Garbage, Nothing}]
  BY DEF IInv, OpOK, QueuesOK, StorageOK
<1>2. TaskOK(t)
  BY DEF Synced
<1>3. UNCHANGED <<senders, receivers>>
  BY DEF Start, StartGet, StartPut, PutBuffers, BufferPush, Block, Resume, Return
<1>4. ASSUME NEW u \in Tasks, u # t
      PROVE  /\ op'[u] = op[u] /\ scheduled'[u] = scheduled[u]
             /\ storage'[u] = storage[u]
  BY <1>1, <1>4 DEF Start, StartGet, StartPut, PutBuffers, BufferPush, Block,
                    Resume, Return
<1>5. TaskOK(t)'
  <2>1. CASE \E c \in Channels : StartGet(t, c)
    BY <2>1, <1>1, <1>2, <1>3 DEF StartGet, TaskOK, CallOK, CountOK, StoredOK,
         SenderOK, ReceiverOK, Waits, NoOp
  <2>2. CASE \E c \in Channels, v \in Values : StartPut(t, c, v)
    BY <2>2, <1>1, <1>2, <1>3 DEF StartPut, TaskOK, CallOK, CountOK, StoredOK,
         SenderOK, ReceiverOK, Waits, NoOp
  <2>3. CASE \E c \in Channels : PutBuffers(t, c)
    BY <2>3, <1>1, <1>2, <1>3 DEF PutBuffers, Enters, TaskOK, CallOK, CountOK,
         StoredOK, SenderOK, ReceiverOK, Waits, NoOp
  <2>4. CASE Block(t)
    BY <2>4, <1>1, <1>2, <1>3 DEF Block, TaskOK, CallOK, CountOK, StoredOK,
         SenderOK, ReceiverOK, Waits
  <2>5. CASE Resume(t)
    <3>1. scheduled[t] = 1 /\ op[t].at = "blocked"
      BY <2>5, <1>1, <1>2 DEF Resume, TaskOK, CountOK
    <3>2. scheduled'[t] = 0
      BY <2>5, <3>1, <1>1 DEF Resume
    <3>3. /\ op'[t].at = IF op[t].kind = "put" THEN "enter" ELSE "return"
          /\ op'[t].kind = op[t].kind /\ op'[t].bus = op[t].bus
          /\ op'[t].value = op[t].value
      BY <2>5, <1>1 DEF Resume
    <3>4. storage'[t] = storage[t]
      BY <2>5 DEF Resume
    <3>5. op[t].kind \in {"put", "get"} /\ op[t].bus \in Channels
      BY <3>1, <1>1, <1>2 DEF TaskOK, CallOK
    <3>6. CallOK(t)'
      BY <3>1, <3>3, <3>5, <1>2 DEF CallOK, TaskOK
    <3>7. CountOK(t)' /\ StoredOK(t)'
      BY <3>1, <3>2, <3>3, <3>4, <3>5, <1>2 DEF CountOK, StoredOK, TaskOK
    <3>8. \A c \in Channels : SenderOK(c, t)' /\ ReceiverOK(c, t)'
      BY <3>1, <3>3, <3>5, <1>2, <1>3 DEF SenderOK, ReceiverOK, TaskOK, Waits
    <3> QED BY <3>6, <3>7, <3>8 DEF TaskOK
  <2>6. CASE Return(t)
    BY <2>6, <1>1, <1>2, <1>3 DEF Return, TaskOK, CallOK, CountOK, StoredOK,
         SenderOK, ReceiverOK, Waits, NoOp
  <2> QED BY <2>1, <2>2, <2>3, <2>4, <2>5, <2>6 DEF Start
<1>6. ASSUME NEW u \in Tasks PROVE TaskOK(u)'
  <2>1. CASE u = t
    BY <2>1, <1>5
  <2>2. CASE u # t
    BY <2>2, <1>3, <1>4, Untouched DEF Synced
  <2> QED BY <2>1, <2>2
<1>7. NoneTwice'
  BY <1>3 DEF Synced, NoneTwice
<1> QED BY <1>6, <1>7 DEF Synced

\* A put gives its value to the first receiver, and unblocks it.
LEMMA PutToReceiverMeets ==
  ASSUME IInv, Synced, NEW t \in Tasks, NEW c \in Channels, PutToReceiver(t, c)
  PROVE  /\ op' = [op EXCEPT ![t] = NoOp]
         /\ op[t].value \in Values
         /\ UNCHANGED <<senders, slot, head, tail>>
         /\ \E r \in Tasks :
              /\ r # t
              /\ Contains(receivers[c], r)
              /\ scheduled' = [scheduled EXCEPT ![r] = 1]
              /\ storage' = [storage EXCEPT ![r] = op[t].value]
              /\ \A d \in Channels : IsInjective(receivers'[d])
              /\ \A d \in Channels, u \in Tasks :
                   Contains(receivers'[d], u) <=> Contains(receivers[d], u) /\ u # r
              /\ receivers' = Popped(receivers, c)
<1> DEFINE r == Head(receivers[c])
<1>1. /\ receivers[c] # << >>
      /\ ~HasValue(c)
  BY DEF PutToReceiver, IInv, ReceiversWaitOnEmptyBuffer
<1>2. /\ storage' = [storage EXCEPT ![r] = op[t].value]
      /\ scheduled' = [scheduled EXCEPT ![r] = @ + 1]
      /\ UNCHANGED <<senders, slot, head, tail>>
      /\ receivers' = Popped(receivers, c)
      /\ op' = [op EXCEPT ![t] = NoOp]
  BY <1>1 DEF PutToReceiver, Deliver, Unblock, Released, Popped, buffer
<1>3. op[t].value \in Values /\ op[t].at = "enter"
  BY DEF PutToReceiver, Enters, IInv, PutHasValue
<1>4. /\ receivers \in [Channels -> Seq(Tasks)]
      /\ scheduled \in [Tasks -> Nat]
  BY DEF IInv, QueuesOK
<1>5. Apart(receivers)
  BY SyncedApart
<1>6. /\ r \in Tasks
      /\ Contains(receivers[c], r)
      /\ \A d \in Channels : IsInjective(receivers'[d])
      /\ \A d \in Channels, u \in Tasks :
           Contains(receivers'[d], u) <=> Contains(receivers[d], u) /\ u # r
  BY <1>1, <1>2, <1>4, <1>5, FirstLeaves
<1>7. Waits(r) /\ scheduled[r] = 0
  BY <1>6 DEF Synced, TaskOK, ReceiverOK
<1>8. r # t
  BY <1>3, <1>7 DEF Waits
<1>9. scheduled' = [scheduled EXCEPT ![r] = 1]
  BY <1>2, <1>4, <1>6, <1>7
<1> QED BY <1>2, <1>3, <1>6, <1>8, <1>9

LEMMA PutToReceiverSynced ==
  ASSUME IInv, Synced, NEW t \in Tasks, NEW c \in Channels, PutToReceiver(t, c)
  PROVE  Synced'
<1>1. /\ op \in [Tasks -> [kind : {"none", "put", "get"},
                           bus : Channels \cup {Nothing},
                           value : Values \cup {Nothing}, at : Points]]
      /\ scheduled \in [Tasks -> Nat]
      /\ storage \in [Tasks -> Values \cup {Garbage, Nothing}]
  BY DEF IInv, OpOK, QueuesOK, StorageOK
<1>2. /\ op' = [op EXCEPT ![t] = NoOp]
      /\ op[t].value \in Values
      /\ UNCHANGED senders
  BY PutToReceiverMeets
<1>3. PICK r \in Tasks :
        /\ r # t
        /\ Contains(receivers[c], r)
        /\ scheduled' = [scheduled EXCEPT ![r] = 1]
        /\ storage' = [storage EXCEPT ![r] = op[t].value]
        /\ \A d \in Channels : IsInjective(receivers'[d])
        /\ \A d \in Channels, u \in Tasks :
             Contains(receivers'[d], u) <=> Contains(receivers[d], u) /\ u # r
  BY PutToReceiverMeets
<1>4. TaskOK(t) /\ TaskOK(r) /\ op[t].at = "enter" /\ op[t].kind = "put"
  BY DEF Synced, PutToReceiver, Enters
<1>5. TaskOK(t)'
  <2>1. op'[t] = NoOp /\ scheduled'[t] = scheduled[t] /\ storage'[t] = storage[t]
    BY <1>1, <1>2, <1>3
  <2>2. scheduled[t] = 0 /\ storage[t] = Nothing
    BY <1>4 DEF TaskOK, CountOK, StoredOK, Waits
  <2>3. \A d \in Channels : ~Contains(senders'[d], t) /\ ~Contains(receivers'[d], t)
    BY <1>2, <1>3, <1>4 DEF TaskOK, SenderOK, ReceiverOK, Waits
  <2> QED BY <2>1, <2>2, <2>3 DEF TaskOK, CallOK, CountOK, StoredOK, SenderOK,
               ReceiverOK, Waits, NoOp
<1>6. TaskOK(r)'
  <2>1. op'[r] = op[r] /\ scheduled'[r] = 1 /\ storage'[r] = op[t].value
    BY <1>1, <1>2, <1>3
  <2>2. Waits(r) /\ op[r].kind = "get" /\ scheduled[r] = 0
    BY <1>3, <1>4 DEF TaskOK, ReceiverOK
  <2>3. op[t].value # Nothing
    BY <1>2, ChannelAssumption
  <2>4. \A d \in Channels : ~Contains(senders'[d], r) /\ ~Contains(receivers'[d], r)
    BY <1>2, <1>3, <1>4, <2>2 DEF TaskOK, SenderOK
  <2> QED BY <2>1, <2>2, <2>3, <2>4, <1>4 DEF TaskOK, CallOK, CountOK, StoredOK,
               SenderOK, ReceiverOK, Waits
<1>7. ASSUME NEW u \in Tasks PROVE TaskOK(u)'
  <2>1. CASE u # t /\ u # r
    <3>1. op'[u] = op[u] /\ scheduled'[u] = scheduled[u] /\ storage'[u] = storage[u]
      BY <2>1, <1>1, <1>2, <1>3
    <3>2. \A d \in Channels :
            /\ Contains(senders'[d], u) <=> Contains(senders[d], u)
            /\ Contains(receivers'[d], u) <=> Contains(receivers[d], u)
      BY <2>1, <1>2, <1>3
    <3> QED BY <3>1, <3>2, Untouched DEF Synced
  <2> QED BY <2>1, <1>5, <1>6
<1>8. NoneTwice'
  BY <1>2, <1>3 DEF Synced, NoneTwice
<1> QED BY <1>7, <1>8 DEF Synced

\* A put that finds neither a receiver nor room registers.
LEMMA PutRegistersSynced ==
  ASSUME IInv, Synced, NEW t \in Tasks, NEW c \in Channels, PutRegisters(t, c)
  PROVE  Synced'
<1>1. /\ op \in [Tasks -> [kind : {"none", "put", "get"},
                           bus : Channels \cup {Nothing},
                           value : Values \cup {Nothing}, at : Points]]
      /\ senders \in [Channels -> Seq(Tasks)]
  BY DEF IInv, OpOK, QueuesOK
<1>2. /\ op[t].at = "enter" /\ op[t].bus = c /\ op[t].kind = "put"
      /\ op' = [op EXCEPT ![t].at = "registered"]
      /\ UNCHANGED <<storage, scheduled, receivers>>
      /\ senders' = Pushed(senders, c, t)
  BY <1>1 DEF PutRegisters, Enters, Pushed
<1>3. TaskOK(t)
  BY DEF Synced
<1>4. ~Contains(senders[c], t) /\ Apart(senders)
  BY <1>2, <1>3, SyncedApart DEF TaskOK, SenderOK, Waits
<1>5. /\ \A d \in Channels : IsInjective(senders'[d])
      /\ \A d \in Channels, u \in Tasks :
           Contains(senders'[d], u) <=> Contains(senders[d], u) \/ (d = c /\ u = t)
  <2>1. senders \in [Channels -> Seq(Tasks)]
    BY <1>1
  <2>2. senders' = Pushed(senders, c, t)
    BY <1>2
  <2> QED BY <2>1, <2>2, <1>4, LastEnters
<1>6. TaskOK(t)'
  <2>1. /\ op'[t].at = "registered" /\ op'[t].kind = "put" /\ op'[t].bus = c
        /\ op'[t].value = op[t].value
    BY <1>1, <1>2
  <2>2. scheduled[t] = 0 /\ storage[t] = Nothing
    BY <1>2, <1>3 DEF TaskOK, CountOK, StoredOK, Waits
  <2>3. \A d \in Channels : /\ Contains(senders'[d], t) <=> d = c
                            /\ ~Contains(receivers'[d], t)
    BY <1>2, <1>3, <1>5 DEF TaskOK, SenderOK, ReceiverOK, Waits
  <2> QED BY <2>1, <2>2, <2>3, <1>2 DEF TaskOK, CallOK, CountOK, StoredOK,
               SenderOK, ReceiverOK, Waits
<1>7. ASSUME NEW u \in Tasks PROVE TaskOK(u)'
  <2>1. CASE u # t
    <3>1. op'[u] = op[u] /\ scheduled'[u] = scheduled[u] /\ storage'[u] = storage[u]
      BY <2>1, <1>1, <1>2
    <3>2. \A d \in Channels :
            /\ Contains(senders'[d], u) <=> Contains(senders[d], u)
            /\ Contains(receivers'[d], u) <=> Contains(receivers[d], u)
      BY <2>1, <1>2, <1>5
    <3> QED BY <3>1, <3>2, Untouched DEF Synced
  <2> QED BY <2>1, <1>6
<1>8. NoneTwice'
  BY <1>2, <1>5 DEF Synced, NoneTwice
<1> QED BY <1>7, <1>8 DEF Synced

\* What maybe_fill does to the tasks other than the one that calls it.
LEMMA FillSynced ==
  ASSUME IInv, Synced, NEW c \in Channels, MaybeFill(c), NEW t \in Tasks,
         op[t].at = "enter",
         \A u \in Tasks : u # t => /\ op'[u] = op[u]
                                   /\ storage'[u] = storage[u],
         \A d \in Channels, u \in Tasks :
           u # t => (Contains(receivers'[d], u) <=> Contains(receivers[d], u))
  PROVE  /\ \A u \in Tasks : u # t => TaskOK(u)'
         /\ scheduled'[t] = scheduled[t]
         /\ \A d \in Channels : /\ IsInjective(senders'[d])
                                /\ ~Contains(senders'[d], t)
<1>1. scheduled \in [Tasks -> Nat]
  BY DEF IInv, QueuesOK
<1>2. TaskOK(t) /\ \A d \in Channels : ~Contains(senders[d], t)
  BY DEF Synced, TaskOK, SenderOK, Waits
<1>3. CASE UNCHANGED <<scheduled, senders>>
  <2>1. ASSUME NEW u \in Tasks, u # t PROVE TaskOK(u)'
    BY <1>3, <2>1, Untouched DEF Synced
  <2>2. \A d \in Channels : IsInjective(senders'[d])
    BY <1>3 DEF Synced, NoneTwice
  <2> QED BY <1>2, <1>3, <2>1, <2>2
<1>4. ASSUME NEW s \in Tasks,
             Contains(senders[c], s),
             scheduled' = [scheduled EXCEPT ![s] = 1],
             \A d \in Channels : IsInjective(senders'[d]),
             \A d \in Channels, u \in Tasks :
               Contains(senders'[d], u) <=> Contains(senders[d], u) /\ u # s
      PROVE  /\ \A u \in Tasks : u # t => TaskOK(u)'
             /\ scheduled'[t] = scheduled[t]
             /\ \A d \in Channels : /\ IsInjective(senders'[d])
                                    /\ ~Contains(senders'[d], t)
  <2>1. s # t
    BY <1>2, <1>4
  <2>2. TaskOK(s) /\ Waits(s) /\ op[s].kind = "put" /\ scheduled[s] = 0
    BY <1>4 DEF Synced, TaskOK, SenderOK
  <2>3. TaskOK(s)'
    <3>1. op'[s] = op[s] /\ storage'[s] = storage[s] /\ scheduled'[s] = 1
      BY <1>1, <1>4, <2>1
    <3>2. \A d \in Channels : /\ ~Contains(senders'[d], s)
                              /\ ~Contains(receivers'[d], s)
      BY <1>4, <2>1, <2>2 DEF TaskOK, ReceiverOK
    <3> QED BY <2>2, <3>1, <3>2 DEF TaskOK, CallOK, CountOK, StoredOK, SenderOK,
                 ReceiverOK, Waits
  <2>4. ASSUME NEW u \in Tasks, u # t PROVE TaskOK(u)'
    <3>1. CASE u # s
      <4>1. scheduled'[u] = scheduled[u]
        BY <1>1, <1>4, <3>1
      <4>2. \A d \in Channels :
              /\ Contains(senders'[d], u) <=> Contains(senders[d], u)
              /\ Contains(receivers'[d], u) <=> Contains(receivers[d], u)
        BY <1>4, <2>4, <3>1
      <4> QED BY <2>4, <4>1, <4>2, Untouched DEF Synced
    <3> QED BY <3>1, <2>3
  <2> QED BY <1>1, <1>2, <1>4, <2>1, <2>4
<1> QED BY <1>3, <1>4, Fills

LEMMA GetFromBufferSynced ==
  ASSUME IInv, Synced, NEW t \in Tasks, NEW c \in Channels, GetFromBuffer(t, c)
  PROVE  Synced'
<1>1. /\ op \in [Tasks -> [kind : {"none", "put", "get"},
                           bus : Channels \cup {Nothing},
                           value : Values \cup {Nothing}, at : Points]]
      /\ storage \in [Tasks -> Values \cup {Garbage, Nothing}]
  BY DEF IInv, OpOK, StorageOK
<1>2. /\ op[t].at = "enter" /\ op[t].bus = c /\ op[t].kind = "get"
      /\ op' = [op EXCEPT ![t].at = "return"]
      /\ UNCHANGED receivers
      /\ MaybeFill(c)
      /\ storage' = [storage EXCEPT ![t] = slot[c][head[c]]]
      /\ Size[c] > 0
  BY DEF GetFromBuffer, Enters, BufferPop, HasValue
<1>3. slot[c][head[c]] # Nothing
  <2>1. head[c] \in {0} \cup Slots(c) /\ slot[c] \in [Slots(c) -> Values \cup {Garbage}]
    BY DEF IInv, RingOK
  <2>2. 0 \in Slots(c)
    BY <1>2, ChannelAssumption DEF Slots
  <2>3. slot[c][head[c]] \in Values \cup {Garbage}
    BY <2>1, <2>2
  <2> QED BY <2>3, ChannelAssumption
<1>4. TaskOK(t)
  BY DEF Synced
<1>5. /\ \A u \in Tasks : u # t => op'[u] = op[u] /\ storage'[u] = storage[u]
      /\ \A d \in Channels, u \in Tasks :
           u # t => (Contains(receivers'[d], u) <=> Contains(receivers[d], u))
  BY <1>1, <1>2
<1>6. /\ \A u \in Tasks : u # t => TaskOK(u)'
      /\ scheduled'[t] = scheduled[t]
      /\ \A d \in Channels : /\ IsInjective(senders'[d])
                             /\ ~Contains(senders'[d], t)
  BY <1>2, <1>5, FillSynced
<1>7. TaskOK(t)'
  <2>1. /\ op'[t].at = "return" /\ op'[t].kind = "get" /\ op'[t].bus = c
        /\ op'[t].value = op[t].value
        /\ storage'[t] # Nothing
    BY <1>1, <1>2, <1>3
  <2>2. scheduled'[t] = 0
    BY <1>2, <1>4, <1>6 DEF TaskOK, CountOK, Waits
  <2>3. \A d \in Channels : ~Contains(receivers'[d], t)
    BY <1>2, <1>4 DEF TaskOK, ReceiverOK, Waits
  <2> QED BY <2>1, <2>2, <2>3, <1>2, <1>4, <1>6 DEF TaskOK, CallOK, CountOK, StoredOK,
               SenderOK, ReceiverOK, Waits
<1>8. NoneTwice'
  BY <1>2, <1>6 DEF Synced, NoneTwice
<1> QED BY <1>6, <1>7, <1>8 DEF Synced

LEMMA GetRegistersSynced ==
  ASSUME IInv, Synced, NEW t \in Tasks, NEW c \in Channels, GetRegisters(t, c)
  PROVE  Synced'
<1>1. /\ op \in [Tasks -> [kind : {"none", "put", "get"},
                           bus : Channels \cup {Nothing},
                           value : Values \cup {Nothing}, at : Points]]
      /\ receivers \in [Channels -> Seq(Tasks)]
  BY DEF IInv, OpOK, QueuesOK
<1>2. /\ op[t].at = "enter" /\ op[t].bus = c /\ op[t].kind = "get"
      /\ op' = [op EXCEPT ![t].at = "registered"]
      /\ UNCHANGED storage
      /\ MaybeFill(c)
      /\ receivers' = Pushed(receivers, c, t)
  BY <1>1 DEF GetRegisters, Enters, Pushed
<1>3. TaskOK(t)
  BY DEF Synced
<1>4. ~Contains(receivers[c], t) /\ Apart(receivers)
  BY <1>2, <1>3, SyncedApart DEF TaskOK, ReceiverOK, Waits
<1>5. /\ \A d \in Channels : IsInjective(receivers'[d])
      /\ \A d \in Channels, u \in Tasks :
           Contains(receivers'[d], u) <=> Contains(receivers[d], u) \/ (d = c /\ u = t)
  <2>1. receivers \in [Channels -> Seq(Tasks)]
    BY <1>1
  <2>2. receivers' = Pushed(receivers, c, t)
    BY <1>2
  <2> QED BY <2>1, <2>2, <1>4, LastEnters
<1>6. /\ \A u \in Tasks : u # t => op'[u] = op[u] /\ storage'[u] = storage[u]
      /\ \A d \in Channels, u \in Tasks :
           u # t => (Contains(receivers'[d], u) <=> Contains(receivers[d], u))
  BY <1>1, <1>2, <1>5
<1>7. /\ \A u \in Tasks : u # t => TaskOK(u)'
      /\ scheduled'[t] = scheduled[t]
      /\ \A d \in Channels : /\ IsInjective(senders'[d])
                             /\ ~Contains(senders'[d], t)
  BY <1>2, <1>6, FillSynced
<1>8. TaskOK(t)'
  <2>1. /\ op'[t].at = "registered" /\ op'[t].kind = "get" /\ op'[t].bus = c
        /\ op'[t].value = op[t].value
    BY <1>1, <1>2
  <2>2. scheduled'[t] = 0 /\ storage'[t] = Nothing
    BY <1>2, <1>3, <1>7 DEF TaskOK, CountOK, StoredOK, Waits
  <2>3. \A d \in Channels : Contains(receivers'[d], t) <=> d = c
    BY <1>2, <1>3, <1>5 DEF TaskOK, ReceiverOK, Waits
  <2> QED BY <2>1, <2>2, <2>3, <1>2, <1>3, <1>7 DEF TaskOK, CallOK, CountOK, StoredOK,
               SenderOK, ReceiverOK, Waits
<1>9. NoneTwice'
  BY <1>5, <1>7 DEF NoneTwice
<1> QED BY <1>7, <1>8, <1>9 DEF Synced

LEMMA NextSynced == IInv /\ Synced /\ [Next]_vars => Synced'
<1> SUFFICES ASSUME IInv, Synced, [Next]_vars PROVE Synced'
  OBVIOUS
<1>1. CASE UNCHANGED vars
  <2>1. UNCHANGED <<op, storage, scheduled, senders, receivers>>
    BY <1>1 DEF vars
  <2>2. \A t \in Tasks : TaskOK(t)'
    BY <2>1, Untouched DEF Synced
  <2>3. NoneTwice'
    BY <2>1 DEF Synced, NoneTwice
  <2> QED BY <2>2, <2>3 DEF Synced
<1>2. CASE Next
  <2>1. PICK t \in Tasks : Start(t) \/ Goes(t)
    BY <1>2 DEF Next
  <2>2. CASE \E c \in Channels : PutToReceiver(t, c)
    BY <2>2, PutToReceiverSynced
  <2>3. CASE \E c \in Channels : PutRegisters(t, c)
    BY <2>3, PutRegistersSynced
  <2>4. CASE \E c \in Channels : GetFromBuffer(t, c)
    BY <2>4, GetFromBufferSynced
  <2>5. CASE \E c \in Channels : GetRegisters(t, c)
    BY <2>5, GetRegistersSynced
  <2>6. CASE \/ Start(t)
             \/ \E c \in Channels : PutBuffers(t, c)
             \/ Block(t) \/ Resume(t) \/ Return(t)
    BY <2>6, AloneSynced
  <2> QED BY <2>1, <2>2, <2>3, <2>4, <2>5, <2>6 DEF Goes, Locked
<1> QED BY <1>1, <1>2

LEMMA SpecSynced == Spec => [](IInv /\ Synced)
BY InitIInv, InitSynced, NextIInv, NextSynced, PTL DEF Spec

----------------------------------------------------------------------------
(***************************************************************************)
(* ScheduledOnce.                                                          *)
(***************************************************************************)

\* t is at a position of a deque.
SenderAt(t, x) ==
  \E c \in Channels : \E i \in DOMAIN senders[c] :
    senders[c][i] = t /\ x = <<"sender", <<c, i>>>>
ReceiverAt(t, x) ==
  \E c \in Channels : \E i \in DOMAIN receivers[c] :
    receivers[c][i] = t /\ x = <<"receiver", <<c, i>>>>

LEMMA RegistrationsAre ==
  ASSUME NEW t
  PROVE  \A x : x \in Registrations(t) <=> SenderAt(t, x) \/ ReceiverAt(t, x)
<1> DEFINE of(q, c) == {<<c, i>> : i \in {i \in DOMAIN q[c] : q[c][i] = t}}
           in(q) == UNION {of(q, c) : c \in Channels}
<1>1. ASSUME NEW q, NEW y
      PROVE  y \in in(q) <=>
               \E c \in Channels : \E i \in DOMAIN q[c] : q[c][i] = t /\ y = <<c, i>>
  <2>1. ASSUME NEW c
        PROVE  y \in of(q, c) <=> \E i \in DOMAIN q[c] : q[c][i] = t /\ y = <<c, i>>
    OBVIOUS
  <2> HIDE DEF of
  <2>2. y \in in(q) <=> \E c \in Channels : y \in of(q, c)
    OBVIOUS
  <2> QED BY <2>1, <2>2
<1>2. Registrations(t) = {<<"sender", x>> : x \in in(senders)}
                         \cup {<<"receiver", x>> : x \in in(receivers)}
  BY Zenon DEF Registrations
<1> HIDE DEF in
<1>3. ASSUME NEW x
      PROVE  x \in Registrations(t) <=> SenderAt(t, x) \/ ReceiverAt(t, x)
  <2>1. x \in Registrations(t) <=>
          \/ \E y \in in(senders) : x = <<"sender", y>>
          \/ \E y \in in(receivers) : x = <<"receiver", y>>
    BY <1>2, Zenon
  <2>2. ASSUME NEW y \in in(senders), x = <<"sender", y>> PROVE SenderAt(t, x)
    BY <1>1, <2>2 DEF SenderAt
  <2>3. ASSUME NEW y \in in(receivers), x = <<"receiver", y>> PROVE ReceiverAt(t, x)
    BY <1>1, <2>3 DEF ReceiverAt
  <2>4. ASSUME SenderAt(t, x) PROVE \E y \in in(senders) : x = <<"sender", y>>
    <3>1. PICK c \in Channels : \E i \in DOMAIN senders[c] :
            senders[c][i] = t /\ x = <<"sender", <<c, i>>>>
      BY <2>4 DEF SenderAt
    <3>2. PICK i \in DOMAIN senders[c] : senders[c][i] = t /\ x = <<"sender", <<c, i>>>>
      BY <3>1
    <3>3. <<c, i>> \in in(senders)
      BY <3>2, <1>1
    <3> QED BY <3>2, <3>3
  <2>5. ASSUME ReceiverAt(t, x) PROVE \E y \in in(receivers) : x = <<"receiver", y>>
    <3>1. PICK c \in Channels : \E i \in DOMAIN receivers[c] :
            receivers[c][i] = t /\ x = <<"receiver", <<c, i>>>>
      BY <2>5 DEF ReceiverAt
    <3>2. PICK i \in DOMAIN receivers[c] :
            receivers[c][i] = t /\ x = <<"receiver", <<c, i>>>>
      BY <3>1
    <3>3. <<c, i>> \in in(receivers)
      BY <3>2, <1>1
    <3> QED BY <3>2, <3>3
  <2> QED BY <2>1, <2>2, <2>3, <2>4, <2>5
<1> QED BY <1>3

LEMMA SyncedOnce ==
  ASSUME IInv, Synced, NEW t \in Tasks
  PROVE  scheduled[t] + Cardinality(Registrations(t)) =
           IF op[t].at \in {"registered", "blocked"} THEN 1 ELSE 0
<1>1. TaskOK(t) /\ NoneTwice
  BY DEF Synced
<1>2. \A c \in Channels : senders[c] \in Seq(Tasks) /\ receivers[c] \in Seq(Tasks)
  BY DEF IInv, QueuesOK
<1>3. \A c \in Channels : Contains(senders[c], t) <=>
                            \E i \in DOMAIN senders[c] : senders[c][i] = t
  BY <1>2, ContainsPositions
<1>4. \A c \in Channels : Contains(receivers[c], t) <=>
                            \E i \in DOMAIN receivers[c] : receivers[c][i] = t
  BY <1>2, ContainsPositions
<1>5. CASE ~Waits(t) \/ scheduled[t] = 1
  <2>1. \A c \in Channels : ~Contains(senders[c], t) /\ ~Contains(receivers[c], t)
    BY <1>1, <1>5 DEF TaskOK, SenderOK, ReceiverOK
  <2>2. \A x : ~SenderAt(t, x) /\ ~ReceiverAt(t, x)
    BY <2>1, <1>3, <1>4 DEF SenderAt, ReceiverAt
  <2>3. Registrations(t) = {}
    BY <2>2, RegistrationsAre
  <2>4. Cardinality(Registrations(t)) = 0
    BY <2>3, FS_EmptySet
  <2> QED BY <2>4, <1>1, <1>5 DEF TaskOK, CountOK, Waits
<1>6. CASE Waits(t) /\ scheduled[t] # 1
  <2>1. scheduled[t] = 0
    BY <1>1, <1>6 DEF TaskOK, CountOK
  <2>2. op[t].bus \in Channels /\ op[t].kind \in {"put", "get"}
    BY <1>1, <1>6 DEF TaskOK, CallOK, Waits, IInv, OpOK
  <2>3. \E x : Registrations(t) = {x}
    <3>1. CASE op[t].kind = "put"
      <4>1. PICK c \in Channels : c = op[t].bus
        BY <2>2
      <4>2. \A d \in Channels : /\ Contains(senders[d], t) <=> d = c
                                /\ ~Contains(receivers[d], t)
        BY <1>1, <1>6, <2>1, <3>1, <4>1 DEF TaskOK, SenderOK, ReceiverOK
      <4>3. PICK i \in DOMAIN senders[c] : senders[c][i] = t
        BY <4>2, <1>3
      <4>4. \A j \in DOMAIN senders[c] : senders[c][j] = t => j = i
        BY <4>3, <1>1 DEF NoneTwice, IsInjective
      <4>5. \A x : SenderAt(t, x) <=> x = <<"sender", <<c, i>>>>
        BY <4>2, <4>3, <4>4, <1>3, Zenon DEF SenderAt
      <4>6. \A x : ~ReceiverAt(t, x)
        BY <4>2, <1>4 DEF ReceiverAt
      <4>7. Registrations(t) = {<<"sender", <<c, i>>>>}
        BY <4>5, <4>6, RegistrationsAre
      <4> QED BY <4>7
    <3>2. CASE op[t].kind = "get"
      <4>1. PICK c \in Channels : c = op[t].bus
        BY <2>2
      <4>2. \A d \in Channels : /\ Contains(receivers[d], t) <=> d = c
                                /\ ~Contains(senders[d], t)
        BY <1>1, <1>6, <2>1, <3>2, <4>1 DEF TaskOK, SenderOK, ReceiverOK
      <4>3. PICK i \in DOMAIN receivers[c] : receivers[c][i] = t
        BY <4>2, <1>4
      <4>4. \A j \in DOMAIN receivers[c] : receivers[c][j] = t => j = i
        BY <4>3, <1>1 DEF NoneTwice, IsInjective
      <4>5. \A x : ReceiverAt(t, x) <=> x = <<"receiver", <<c, i>>>>
        BY <4>2, <4>3, <4>4, <1>4, Zenon DEF ReceiverAt
      <4>6. \A x : ~SenderAt(t, x)
        BY <4>2, <1>3 DEF SenderAt
      <4>7. Registrations(t) = {<<"receiver", <<c, i>>>>}
        BY <4>5, <4>6, RegistrationsAre
      <4> QED BY <4>7
    <3> QED BY <2>2, <3>1, <3>2
  <2>4. Cardinality(Registrations(t)) = 1
    BY <2>3, FS_Singleton
  <2> QED BY <2>1, <2>4, <1>6 DEF Waits
<1> QED BY <1>5, <1>6

----------------------------------------------------------------------------
(***************************************************************************)
(* NoSenderForgotten.  Every step that opens a slot or adds a receiver     *)
(* brings a sender with it; a sender that takes an opening was counted.    *)
(***************************************************************************)

\* NoSenderForgotten, of one channel.
Balanced(c) == senders[c] # << >> => Openings(c) <= Cardinality(Coming(c))

\* The remainders of the ring, without %.
LEMMA RingArithmetic ==
  ASSUME NEW n \in Nat, n > 0, NEW h \in 0 .. n - 1, NEW k \in 0 .. n - 1
  PROVE  /\ (h - k - 1) % n = IF h > k THEN h - k - 1 ELSE h - k - 1 + n
         /\ (k + 1) % n = IF k = n - 1 THEN 0 ELSE k + 1
<1>1. (h - k - 1) % n = IF h > k THEN h - k - 1 ELSE h - k - 1 + n
  OBVIOUS
<1>2. (k + 1) % n = IF k = n - 1 THEN 0 ELSE k + 1
  OBVIOUS
<1> QED BY <1>1, <1>2

LEMMA RingOf ==
  ASSUME RingOK, NEW c \in Channels, Size[c] > 0
  PROVE  /\ Size[c] \in Nat
         /\ head[c] \in 0 .. Size[c] - 1
         /\ tail[c] \in 0 .. Size[c] - 1
BY ChannelAssumption DEF RingOK, Slots

\* The free slots, before and after a push and a pop.
LEMMA FreeIs ==
  ASSUME RingOK, NEW c \in Channels
  PROVE  /\ FreeSlots(c) \in Nat
         /\ ~HasRoom(c) => FreeSlots(c) = 0
<1>1. CASE Size[c] = 0
  BY <1>1 DEF FreeSlots
<1>2. CASE Size[c] # 0
  <2>1. Size[c] \in Nat /\ Size[c] > 0
    BY <1>2, ChannelAssumption
  <2> DEFINE n == Size[c]
             h == head[c]
             k == tail[c]
  <2>2. n \in Nat /\ n > 0 /\ h \in 0 .. n - 1 /\ k \in 0 .. n - 1
    BY <2>1, RingOf
  <2>3. /\ FreeSlots(c) = (h - k - 1) % n
        /\ HasRoom(c) <=> (k + 1) % n # h
    BY <2>1, <1>2 DEF FreeSlots, HasRoom, NextIdx
  <2> HIDE DEF n, h, k
  <2>4. /\ (h - k - 1) % n = IF h > k THEN h - k - 1 ELSE h - k - 1 + n
        /\ (k + 1) % n = IF k = n - 1 THEN 0 ELSE k + 1
    BY <2>2, RingArithmetic
  <2> QED BY <2>2, <2>3, <2>4
<1> QED BY <1>1, <1>2

LEMMA PushTakesSlot ==
  ASSUME RingOK, NEW c \in Channels, HasRoom(c), UNCHANGED head,
         tail' = [tail EXCEPT ![c] = NextIdx(c, @)]
  PROVE  FreeSlots(c)' = FreeSlots(c) - 1
<1> DEFINE n == Size[c]
           h == head[c]
           k == tail[c]
           l == NextIdx(c, tail[c])
<1>1. n \in Nat /\ n > 0 /\ h \in 0 .. n - 1 /\ k \in 0 .. n - 1
  BY RingOf DEF HasRoom
<1>2. FreeSlots(c) = (h - k - 1) % n /\ l = (k + 1) % n /\ l # h
  BY <1>1 DEF FreeSlots, HasRoom, NextIdx
<1>3. tail'[c] = l /\ head'[c] = h
  BY DEF RingOK
<1>4. FreeSlots(c)' = (h - l - 1) % n
  BY <1>1, <1>3 DEF FreeSlots
<1> HIDE DEF n, h, k, l
<1>5. l = IF k = n - 1 THEN 0 ELSE k + 1
  BY <1>1, <1>2, RingArithmetic
<1>6. l \in 0 .. n - 1
  BY <1>1, <1>5
<1>7. /\ (h - k - 1) % n = IF h > k THEN h - k - 1 ELSE h - k - 1 + n
      /\ (h - l - 1) % n = IF h > l THEN h - l - 1 ELSE h - l - 1 + n
  BY <1>1, <1>6, RingArithmetic
<1>8. (h - l - 1) % n = ((h - k - 1) % n) - 1
  BY <1>1, <1>2, <1>5, <1>6, <1>7
<1> QED BY <1>2, <1>4, <1>8

LEMMA PopFreesSlot ==
  ASSUME RingOK, NEW c \in Channels, HasValue(c), UNCHANGED tail,
         head' = [head EXCEPT ![c] = NextIdx(c, @)]
  PROVE  FreeSlots(c)' = FreeSlots(c) + 1
<1> DEFINE n == Size[c]
           h == head[c]
           k == tail[c]
           l == NextIdx(c, head[c])
<1>1. n \in Nat /\ n > 0 /\ h \in 0 .. n - 1 /\ k \in 0 .. n - 1 /\ h # k
  BY RingOf DEF HasValue
<1>2. FreeSlots(c) = (h - k - 1) % n /\ l = (h + 1) % n
  BY <1>1 DEF FreeSlots, NextIdx
<1>3. head'[c] = l /\ tail'[c] = k
  BY DEF RingOK
<1>4. FreeSlots(c)' = (l - k - 1) % n
  BY <1>1, <1>3 DEF FreeSlots
<1> HIDE DEF n, h, k, l
<1>5. l = IF h = n - 1 THEN 0 ELSE h + 1
  BY <1>1, <1>2, RingArithmetic
<1>6. l \in 0 .. n - 1
  BY <1>1, <1>5
<1>7. /\ (h - k - 1) % n = IF h > k THEN h - k - 1 ELSE h - k - 1 + n
      /\ (l - k - 1) % n = IF l > k THEN l - k - 1 ELSE l - k - 1 + n
  BY <1>1, <1>6, RingArithmetic
<1>8. (l - k - 1) % n = ((h - k - 1) % n) + 1
  BY <1>1, <1>2, <1>5, <1>6, <1>7
<1> QED BY <1>2, <1>4, <1>8

\* The openings and the senders on their way are numbers.
LEMMA Counted ==
  ASSUME IInv, NEW c \in Channels
  PROVE  /\ Openings(c) \in Nat
         /\ IsFiniteSet(Coming(c))
         /\ Cardinality(Coming(c)) \in Nat
<1>1. FreeSlots(c) \in Nat
  BY FreeIs DEF IInv
<1>2. Len(receivers[c]) \in Nat
  BY DEF IInv, QueuesOK
<1>3. Coming(c) \subseteq Tasks
  BY DEF Coming
<1>4. IsFiniteSet(Coming(c)) /\ Cardinality(Coming(c)) \in Nat
  BY <1>3, ChannelAssumption, FS_Subset, FS_CardinalityType
<1> QED BY <1>1, <1>2, <1>4 DEF Openings

\* The senders on their way after a step: at least those of a set.
LEMMA AtLeast ==
  ASSUME NEW c \in Channels, NEW S, S \subseteq Coming(c)'
  PROVE  /\ IsFiniteSet(S)
         /\ Cardinality(S) \in Nat
         /\ Cardinality(Coming(c)') \in Nat
         /\ Cardinality(S) <= Cardinality(Coming(c)')
<1> DEFINE T == Coming(c)'
<1>1. T \subseteq Tasks
  BY DEF Coming
<1> HIDE DEF T
<1>2. IsFiniteSet(T)
  BY <1>1, ChannelAssumption, FS_Subset
<1>3. IsFiniteSet(S) /\ Cardinality(S) <= Cardinality(T)
  BY <1>2, FS_Subset DEF T
<1>4. Cardinality(S) \in Nat /\ Cardinality(T) \in Nat
  BY <1>2, <1>3, FS_CardinalityType
<1> QED BY <1>3, <1>4 DEF T

\* Nothing opens, and nobody turns away.
LEMMA BalanceKept ==
  ASSUME IInv, NEW c \in Channels, Balanced(c),
         senders'[c] # << >> => senders[c] # << >>,
         Openings(c)' = Openings(c),
         Coming(c) \subseteq Coming(c)'
  PROVE  Balanced(c)'
<1>1. /\ Cardinality(Coming(c)) <= Cardinality(Coming(c)')
      /\ Cardinality(Coming(c)') \in Nat
  BY AtLeast
<1>2. Openings(c) \in Nat /\ Cardinality(Coming(c)) \in Nat
  BY Counted
<1> QED BY <1>1, <1>2 DEF Balanced

\* An opening more, and a sender more.
LEMMA BalanceGrows ==
  ASSUME IInv, NEW c \in Channels, Balanced(c),
         senders'[c] # << >> => senders[c] # << >>,
         Openings(c)' = Openings(c) + 1,
         NEW s, s \notin Coming(c), Coming(c) \cup {s} \subseteq Coming(c)'
  PROVE  Balanced(c)'
<1>1. Cardinality(Coming(c) \cup {s}) = Cardinality(Coming(c)) + 1
  BY Counted, FS_AddElement
<1>2. /\ Cardinality(Coming(c) \cup {s}) <= Cardinality(Coming(c)')
      /\ Cardinality(Coming(c)') \in Nat
  BY AtLeast
<1>3. Openings(c) \in Nat /\ Cardinality(Coming(c)) \in Nat
  BY Counted
<1> QED BY <1>1, <1>2, <1>3 DEF Balanced

\* A sender takes an opening.
LEMMA BalanceShrinks ==
  ASSUME IInv, NEW c \in Channels, Balanced(c),
         senders'[c] # << >> => senders[c] # << >>,
         Openings(c)' = Openings(c) - 1,
         NEW t, Coming(c) \ {t} \subseteq Coming(c)'
  PROVE  Balanced(c)'
<1>1. Cardinality(Coming(c) \ {t}) >= Cardinality(Coming(c)) - 1
  <2>1. IsFiniteSet(Coming(c)) /\ Cardinality(Coming(c)) \in Nat
    BY Counted
  <2>2. Cardinality(Coming(c) \ {t}) =
          IF t \in Coming(c) THEN Cardinality(Coming(c)) - 1 ELSE Cardinality(Coming(c))
    BY <2>1, FS_RemoveElement
  <2>3. PICK k \in Nat : k = Cardinality(Coming(c))
    BY <2>1
  <2> QED BY <2>2, <2>3
<1>2. /\ Cardinality(Coming(c) \ {t}) <= Cardinality(Coming(c)')
      /\ Cardinality(Coming(c)') \in Nat
      /\ Cardinality(Coming(c) \ {t}) \in Nat
  BY AtLeast
<1>3. Openings(c) \in Nat /\ Cardinality(Coming(c)) \in Nat
  BY Counted
<1> QED BY <1>1, <1>2, <1>3 DEF Balanced

\* A channel whose deques and indices a step leaves alone: it is enough that
\* nobody on the way to it turns away.
LEMMA BalanceElsewhere ==
  ASSUME IInv, NEW d \in Channels, Balanced(d),
         senders'[d] = senders[d], receivers'[d] = receivers[d],
         head'[d] = head[d], tail'[d] = tail[d],
         \A u \in Coming(d) : /\ op'[u].kind = "put" /\ op'[u].bus = d
                              /\ op'[u].at = "enter" \/ scheduled'[u] > 0
  PROVE  Balanced(d)'
<1>1. Openings(d)' = Openings(d)
  BY DEF Openings, FreeSlots
<1>2. Coming(d) \subseteq Coming(d)'
  BY DEF Coming
<1> QED BY <1>1, <1>2, BalanceKept

LEMMA AloneBalanced ==
  ASSUME IInv, Synced, NEW t \in Tasks, NEW d \in Channels, Balanced(d),
         Start(t) \/ Block(t) \/ Resume(t) \/ Return(t)
  PROVE  Balanced(d)'
<1>1. /\ op \in [Tasks -> [kind : {"none", "put", "get"},
                           bus : Channels \cup {Nothing},
                           value : Values \cup {Nothing}, at : Points]]
      /\ scheduled \in [Tasks -> Nat]
  BY DEF IInv, OpOK, QueuesOK
<1>2. TaskOK(t)
  BY DEF Synced
<1>3. UNCHANGED <<senders, receivers, head, tail>>
  BY DEF Start, StartGet, StartPut, Block, Resume, Return, buffer
<1>4. ASSUME NEW u \in Coming(d)
      PROVE  /\ op'[u].kind = "put" /\ op'[u].bus = d
             /\ op'[u].at = "enter" \/ scheduled'[u] > 0
  <2>1. /\ u \in Tasks /\ op[u].kind = "put" /\ op[u].bus = d
        /\ op[u].at = "enter" \/ scheduled[u] > 0
    BY <1>4 DEF Coming
  <2>2. CASE u # t
    <3>1. op'[u] = op[u] /\ scheduled'[u] = scheduled[u]
      BY <2>1, <2>2, <1>1 DEF Start, StartGet, StartPut, Block, Resume, Return
    <3> QED BY <2>1, <3>1
  <2>3. CASE u = t
    <3>1. Block(t) \/ Resume(t)
      BY <2>1, <2>3, <1>2 DEF TaskOK, CallOK, Start, StartGet, StartPut, Return
    <3>2. CASE Block(t)
      BY <2>1, <2>3, <3>2, <1>1 DEF Block
    <3>3. CASE Resume(t)
      BY <2>1, <2>3, <3>3, <1>1 DEF Resume
    <3> QED BY <3>1, <3>2, <3>3
  <2> QED BY <2>2, <2>3
<1> QED BY <1>3, <1>4, BalanceElsewhere

LEMMA PutToReceiverBalanced ==
  ASSUME IInv, Synced, NEW t \in Tasks, NEW c \in Channels, PutToReceiver(t, c),
         NEW d \in Channels, Balanced(d)
  PROVE  Balanced(d)'
<1>1. /\ op \in [Tasks -> [kind : {"none", "put", "get"},
                           bus : Channels \cup {Nothing},
                           value : Values \cup {Nothing}, at : Points]]
      /\ scheduled \in [Tasks -> Nat]
      /\ receivers \in [Channels -> Seq(Tasks)]
  BY DEF IInv, OpOK, QueuesOK
<1>2. /\ op' = [op EXCEPT ![t] = NoOp]
      /\ UNCHANGED <<senders, head, tail>>
      /\ op[t].bus = c
      /\ receivers[c] # << >>
  BY PutToReceiverMeets DEF PutToReceiver, Enters
<1>3. PICK r \in Tasks :
        /\ scheduled' = [scheduled EXCEPT ![r] = 1]
        /\ receivers' = Popped(receivers, c)
        /\ Contains(receivers[c], r)
  BY PutToReceiverMeets
<1>4. scheduled[r] = 0
  BY <1>3 DEF Synced, TaskOK, ReceiverOK
<1>5. ASSUME NEW u \in Coming(d), u # t
      PROVE  /\ op'[u].kind = "put" /\ op'[u].bus = d
             /\ op'[u].at = "enter" \/ scheduled'[u] > 0
  <2>1. /\ u \in Tasks /\ op[u].kind = "put" /\ op[u].bus = d
        /\ op[u].at = "enter" \/ scheduled[u] > 0
    BY <1>5 DEF Coming
  <2>2. op'[u] = op[u]
    BY <2>1, <1>1, <1>2, <1>5
  <2>3. scheduled[u] > 0 => scheduled'[u] > 0
    BY <2>1, <1>1, <1>3, <1>4
  <2> QED BY <2>1, <2>2, <2>3
<1>6. CASE d # c
  <2>1. t \notin Coming(d)
    BY <1>2, <1>6 DEF Coming
  <2>2. receivers'[d] = receivers[d]
    BY <1>1, <1>3, <1>6 DEF Popped
  <2> QED BY <1>2, <1>5, <2>1, <2>2, BalanceElsewhere
<1>7. CASE d = c
  <2>1. receivers[c] \in Seq(Tasks) /\ receivers'[c] = Tail(receivers[c])
    BY <1>1, <1>3 DEF Popped
  <2>2. Len(receivers'[c]) = Len(receivers[c]) - 1 /\ Len(receivers[c]) \in Nat
    BY <2>1, <1>2, HeadTailProperties, LenProperties
  <2>3. FreeSlots(c)' = FreeSlots(c)
    BY <1>2 DEF FreeSlots
  <2>4. FreeSlots(c) \in Nat
    BY FreeIs DEF IInv
  <2>5. Openings(c)' = Openings(c) - 1
    BY <2>2, <2>3, <2>4 DEF Openings
  <2>6. Coming(d) \ {t} \subseteq Coming(d)'
    BY <1>5 DEF Coming
  <2> QED BY <1>2, <1>7, <2>5, <2>6, BalanceShrinks
<1> QED BY <1>6, <1>7

LEMMA PutBuffersBalanced ==
  ASSUME IInv, NEW t \in Tasks, NEW c \in Channels, PutBuffers(t, c),
         NEW d \in Channels, Balanced(d)
  PROVE  Balanced(d)'
<1>1. op \in [Tasks -> [kind : {"none", "put", "get"},
                        bus : Channels \cup {Nothing},
                        value : Values \cup {Nothing}, at : Points]]
  BY DEF IInv, OpOK
<1>2. /\ op' = [op EXCEPT ![t] = NoOp]
      /\ UNCHANGED <<scheduled, senders, receivers, head>>
      /\ op[t].bus = c
      /\ HasRoom(c)
      /\ tail' = [tail EXCEPT ![c] = NextIdx(c, @)]
  BY DEF PutBuffers, BufferPush, Enters
<1>3. ASSUME NEW u \in Coming(d), u # t
      PROVE  /\ op'[u].kind = "put" /\ op'[u].bus = d
             /\ op'[u].at = "enter" \/ scheduled'[u] > 0
  <2>1. /\ u \in Tasks /\ op[u].kind = "put" /\ op[u].bus = d
        /\ op[u].at = "enter" \/ scheduled[u] > 0
    BY <1>3 DEF Coming
  <2>2. op'[u] = op[u]
    BY <2>1, <1>1, <1>2, <1>3
  <2> QED BY <2>1, <2>2, <1>2
<1>4. CASE d # c
  <2>1. t \notin Coming(d)
    BY <1>2, <1>4 DEF Coming
  <2>2. tail'[d] = tail[d]
    BY <1>2, <1>4 DEF IInv, RingOK
  <2> QED BY <1>2, <1>3, <2>1, <2>2, BalanceElsewhere
<1>5. CASE d = c
  <2>1. FreeSlots(c)' = FreeSlots(c) - 1
    BY <1>2, PushTakesSlot DEF IInv
  <2>2. FreeSlots(c) \in Nat /\ Len(receivers[c]) \in Nat
    BY FreeIs DEF IInv, QueuesOK
  <2>3. Openings(c)' = Openings(c) - 1
    BY <1>2, <2>1, <2>2 DEF Openings
  <2>4. Coming(d) \ {t} \subseteq Coming(d)'
    BY <1>3 DEF Coming
  <2> QED BY <1>2, <1>5, <2>3, <2>4, BalanceShrinks
<1> QED BY <1>4, <1>5

\* A sender registers only when nothing is open.
LEMMA PutRegistersBalanced ==
  ASSUME IInv, NEW t \in Tasks, NEW c \in Channels, PutRegisters(t, c),
         NEW d \in Channels, Balanced(d)
  PROVE  Balanced(d)'
<1>1. /\ op \in [Tasks -> [kind : {"none", "put", "get"},
                           bus : Channels \cup {Nothing},
                           value : Values \cup {Nothing}, at : Points]]
      /\ senders \in [Channels -> Seq(Tasks)]
  BY DEF IInv, OpOK, QueuesOK
<1>2. /\ op' = [op EXCEPT ![t].at = "registered"]
      /\ UNCHANGED <<scheduled, receivers, head, tail>>
      /\ op[t].bus = c
      /\ ~HasRoom(c) /\ receivers[c] = << >>
      /\ senders' = [senders EXCEPT ![c] = Append(@, t)]
  BY DEF PutRegisters, Enters, NoReceiver, buffer
<1>3. CASE d # c
  <2>1. ASSUME NEW u \in Coming(d)
        PROVE  /\ op'[u].kind = "put" /\ op'[u].bus = d
               /\ op'[u].at = "enter" \/ scheduled'[u] > 0
    <3>1. /\ u \in Tasks /\ op[u].kind = "put" /\ op[u].bus = d
          /\ op[u].at = "enter" \/ scheduled[u] > 0
      BY <2>1 DEF Coming
    <3>2. op'[u] = op[u]
      BY <3>1, <1>1, <1>2, <1>3
    <3> QED BY <3>1, <3>2, <1>2
  <2>2. senders'[d] = senders[d]
    BY <1>1, <1>2, <1>3
  <2> QED BY <1>2, <2>1, <2>2, BalanceElsewhere
<1>4. CASE d = c
  <2>1. FreeSlots(c) = 0
    BY <1>2, FreeIs DEF IInv
  <2>2. Len(receivers[c]) = 0
    BY <1>2, EmptySeq
  <2>3. Openings(c)' = 0
    BY <1>2, <2>1, <2>2 DEF Openings, FreeSlots
  <2>4. Cardinality(Coming(c)') \in Nat
    <3>1. {} \subseteq Coming(c)'
      OBVIOUS
    <3> QED BY <3>1, AtLeast
  <2> QED BY <1>4, <2>3, <2>4 DEF Balanced
<1> QED BY <1>3, <1>4

\* maybe_fill brings a sender for what a get has opened.
LEMMA FillBalanced ==
  ASSUME IInv, Synced, NEW t \in Tasks, NEW c \in Channels, MaybeFill(c),
         op[t].kind = "get", \A u \in Tasks : u # t => op'[u] = op[u],
         Openings(c)' = Openings(c) + 1,
         \A d \in Channels : d # c => /\ receivers'[d] = receivers[d]
                                      /\ head'[d] = head[d] /\ tail'[d] = tail[d],
         NEW d \in Channels, Balanced(d)
  PROVE  Balanced(d)'
<1>1. /\ scheduled \in [Tasks -> Nat]
      /\ senders \in [Channels -> Seq(Tasks)]
  BY DEF IInv, QueuesOK
<1>2. ASSUME NEW u \in Coming(d), scheduled[u] > 0 => scheduled'[u] > 0
      PROVE  /\ op'[u].kind = "put" /\ op'[u].bus = d
             /\ op'[u].at = "enter" \/ scheduled'[u] > 0
  <2>1. /\ u \in Tasks /\ op[u].kind = "put" /\ op[u].bus = d
        /\ op[u].at = "enter" \/ scheduled[u] > 0
    BY <1>2 DEF Coming
  <2>2. op'[u] = op[u]
    BY <2>1
  <2> QED BY <2>1, <2>2, <1>2
<1>3. \A u \in Tasks : scheduled[u] > 0 => scheduled'[u] > 0
  <2>1. scheduled' = scheduled \/ \E s \in Tasks : scheduled' = [scheduled EXCEPT ![s] = 1]
    BY Fills
  <2> QED BY <1>1, <2>1
<1>4. \A e \in Channels : e # c => senders'[e] = senders[e]
  BY <1>1 DEF MaybeFill
<1>5. CASE d # c
  <2>1. \A u \in Coming(d) : /\ op'[u].kind = "put" /\ op'[u].bus = d
                             /\ op'[u].at = "enter" \/ scheduled'[u] > 0
    BY <1>2, <1>3 DEF Coming
  <2> QED BY <1>4, <1>5, <2>1, BalanceElsewhere
<1>6. CASE d = c /\ senders[c] = << >>
  <2>1. senders' = senders
    BY <1>6 DEF MaybeFill
  <2> QED BY <1>6, <2>1 DEF Balanced
<1>7. CASE d = c /\ senders[c] # << >>
  <2>1. PICK s \in Tasks :
          /\ Contains(senders[c], s)
          /\ scheduled' = [scheduled EXCEPT ![s] = 1]
    BY <1>7, Fills
  <2>2. /\ op[s].kind = "put" /\ op[s].bus = c
        /\ Waits(s) /\ scheduled[s] = 0
    BY <2>1 DEF Synced, TaskOK, SenderOK
  <2>3. s \notin Coming(c)
    BY <2>2 DEF Coming, Waits
  <2>4. s \in Coming(c)'
    BY <1>1, <2>1, <2>2 DEF Coming
  <2>5. Coming(c) \subseteq Coming(c)'
    BY <1>2, <1>3, <1>7 DEF Coming
  <2>6. Coming(c) \cup {s} \subseteq Coming(c)'
    BY <2>4, <2>5
  <2>7. Balanced(c) /\ (senders'[c] # << >> => senders[c] # << >>)
    BY <1>7
  <2>8. Balanced(c)'
    BY <2>3, <2>6, <2>7, BalanceGrows
  <2> QED BY <1>7, <2>8
<1> QED BY <1>5, <1>6, <1>7

LEMMA GetFromBufferBalanced ==
  ASSUME IInv, Synced, NEW t \in Tasks, NEW c \in Channels, GetFromBuffer(t, c),
         NEW d \in Channels, Balanced(d)
  PROVE  Balanced(d)'
<1>1. op \in [Tasks -> [kind : {"none", "put", "get"},
                        bus : Channels \cup {Nothing},
                        value : Values \cup {Nothing}, at : Points]]
  BY DEF IInv, OpOK
<1>2. /\ op' = [op EXCEPT ![t].at = "return"]
      /\ UNCHANGED <<receivers, tail>>
      /\ op[t].kind = "get"
      /\ HasValue(c)
      /\ MaybeFill(c)
      /\ head' = [head EXCEPT ![c] = NextIdx(c, @)]
  BY DEF GetFromBuffer, BufferPop, Enters
<1>3. FreeSlots(c)' = FreeSlots(c) + 1
  BY <1>2, PopFreesSlot DEF IInv
<1>4. FreeSlots(c) \in Nat /\ Len(receivers[c]) \in Nat
  BY FreeIs DEF IInv, QueuesOK
<1>5. Openings(c)' = Openings(c) + 1
  BY <1>2, <1>3, <1>4 DEF Openings
<1>6. \A u \in Tasks : u # t => op'[u] = op[u]
  BY <1>1, <1>2
<1>7. \A e \in Channels : e # c => /\ receivers'[e] = receivers[e]
                                   /\ head'[e] = head[e] /\ tail'[e] = tail[e]
  BY <1>2 DEF IInv, RingOK
<1>8. MaybeFill(c) /\ op[t].kind = "get"
  BY <1>2
<1> QED BY <1>5, <1>6, <1>7, <1>8, FillBalanced

LEMMA GetRegistersBalanced ==
  ASSUME IInv, Synced, NEW t \in Tasks, NEW c \in Channels, GetRegisters(t, c),
         NEW d \in Channels, Balanced(d)
  PROVE  Balanced(d)'
<1>1. /\ op \in [Tasks -> [kind : {"none", "put", "get"},
                           bus : Channels \cup {Nothing},
                           value : Values \cup {Nothing}, at : Points]]
      /\ receivers \in [Channels -> Seq(Tasks)]
  BY DEF IInv, OpOK, QueuesOK
<1>2. /\ op' = [op EXCEPT ![t].at = "registered"]
      /\ UNCHANGED <<head, tail>>
      /\ op[t].kind = "get"
      /\ MaybeFill(c)
      /\ receivers' = [receivers EXCEPT ![c] = Append(@, t)]
  BY DEF GetRegisters, Enters, buffer
<1>3. receivers[c] \in Seq(Tasks) /\ receivers'[c] = Append(receivers[c], t)
  BY <1>1, <1>2
<1>4. Len(receivers'[c]) = Len(receivers[c]) + 1 /\ Len(receivers[c]) \in Nat
  BY <1>3, AppendProperties, LenProperties
<1>5. FreeSlots(c)' = FreeSlots(c)
  BY <1>2 DEF FreeSlots
<1>6. FreeSlots(c) \in Nat
  BY FreeIs DEF IInv
<1>7. Openings(c)' = Openings(c) + 1
  BY <1>4, <1>5, <1>6 DEF Openings
<1>8. \A u \in Tasks : u # t => op'[u] = op[u]
  BY <1>1, <1>2
<1>9. \A e \in Channels : e # c => /\ receivers'[e] = receivers[e]
                                   /\ head'[e] = head[e] /\ tail'[e] = tail[e]
  BY <1>1, <1>2
<1>10. MaybeFill(c) /\ op[t].kind = "get"
  BY <1>2
<1> QED BY <1>7, <1>8, <1>9, <1>10, FillBalanced

LEMMA NextBalanced ==
  ASSUME IInv, Synced, [Next]_vars, NEW d \in Channels, Balanced(d)
  PROVE  Balanced(d)'
<1>1. CASE UNCHANGED vars
  BY <1>1 DEF vars, buffer, Balanced, Openings, FreeSlots, Coming
<1>2. CASE Next
  <2>1. PICK t \in Tasks : Start(t) \/ Goes(t)
    BY <1>2 DEF Next
  <2>2. CASE \E c \in Channels : PutToReceiver(t, c)
    BY <2>2, PutToReceiverBalanced
  <2>3. CASE \E c \in Channels : PutBuffers(t, c)
    BY <2>3, PutBuffersBalanced
  <2>4. CASE \E c \in Channels : PutRegisters(t, c)
    BY <2>4, PutRegistersBalanced
  <2>5. CASE \E c \in Channels : GetFromBuffer(t, c)
    BY <2>5, GetFromBufferBalanced
  <2>6. CASE \E c \in Channels : GetRegisters(t, c)
    BY <2>6, GetRegistersBalanced
  <2>7. CASE Start(t) \/ Block(t) \/ Resume(t) \/ Return(t)
    BY <2>7, AloneBalanced
  <2> QED BY <2>1, <2>2, <2>3, <2>4, <2>5, <2>6, <2>7 DEF Goes, Locked
<1> QED BY <1>1, <1>2

----------------------------------------------------------------------------
(***************************************************************************)
(* ImplementsBus: every step of the channels is a step of the abstract bus *)
(* of each unbuffered channel, or changes nothing that the bus shows.      *)
(***************************************************************************)

\* A channel without slots, or with the one that is never used, holds nothing.
LEMMA NothingHeld ==
  ASSUME NEW n \in {0, 1}, NEW h \in Int, NEW k \in Int, NEW f
  PROVE  [i \in 1 .. (IF n = 0 THEN 0 ELSE (k - h) % n) |-> f[(h + i) % n]] = << >>
<1>1. (IF n = 0 THEN 0 ELSE (k - h) % n) = 0
  OBVIOUS
<1>2. 1 .. 0 = {}
  OBVIOUS
<1>3. [i \in {} |-> f[(h + i) % n]] = << >>
  OBVIOUS
<1> QED BY <1>1, <1>2, <1>3

LEMMA InitBuses == Init => BusesInit(Unbuffered)
<1> SUFFICES ASSUME Init, NEW c \in Unbuffered PROVE Bus(c)!Init
  BY DEF BusesInit
<1>1. c \in Channels /\ Size[c] \in {0, 1}
  BY ChannelAssumption DEF Unbuffered
<1>2. Held(c) = << >>
  BY <1>1, NothingHeld DEF Init, Held
<1>3. Offer(c) = [t \in Tasks |-> Nothing]
  BY <1>1 DEF Init, Offer, NoOp
<1>4. Wants(c) = {}
  BY DEF Init, Wants, Gets, NoOp
<1>5. Storage(c) = [t \in Tasks |-> Nothing]
  BY DEF Init, Storage
<1> QED BY <1>2, <1>3, <1>4, <1>5 DEF Bus!Init

LEMMA HeldNow ==
  ASSUME IInv, NEW b \in Unbuffered
  PROVE  b \in Channels /\ b # Nothing /\ Held(b) = << >>
<1>1. b \in Channels /\ Size[b] \in {0, 1} /\ b # Nothing
  BY ChannelAssumption DEF Unbuffered
<1>2. head[b] \in Int /\ tail[b] \in Int
  BY <1>1 DEF IInv, RingOK, Slots
<1> QED BY <1>1, <1>2, NothingHeld DEF Held

LEMMA HeldNext ==
  ASSUME IInv', NEW b \in Unbuffered
  PROVE  Held(b)' = << >>
<1>1. b \in Channels /\ Size[b] \in {0, 1}
  BY ChannelAssumption DEF Unbuffered
<1>2. head'[b] \in Int /\ tail'[b] \in Int
  BY <1>1 DEF IInv, RingOK, Slots
<1> QED BY <1>1, <1>2, NothingHeld DEF Held

\* An unbuffered channel never has room, nor a value.
LEMMA NeverBuffers ==
  ASSUME IInv, NEW b \in Unbuffered
  PROVE  ~HasRoom(b) /\ ~HasValue(b)
<1>1. b \in Channels /\ Size[b] \in {0, 1}
  BY ChannelAssumption DEF Unbuffered
<1>2. CASE Size[b] = 0
  BY <1>2 DEF HasRoom, HasValue
<1>3. CASE Size[b] = 1
  <2>1. head[b] = 0 /\ tail[b] = 0
    BY <1>1, <1>3 DEF IInv, RingOK, Slots
  <2>2. (0 + 1) % 1 = 0
    OBVIOUS
  <2> QED BY <1>3, <2>1, <2>2 DEF HasRoom, HasValue, NextIdx
<1> QED BY <1>1, <1>2, <1>3

\* What the bus b shows of a task.
View(b, u) ==
  IF op[u].bus = b THEN <<op[u].kind, op[u].value, storage[u]>> ELSE << >>

LEMMA BusStays ==
  ASSUME IInv, IInv', NEW b \in Unbuffered,
         \A u \in Tasks : View(b, u)' = View(b, u)
  PROVE  UNCHANGED Bus(b)!vars
<1>1. Held(b)' = Held(b)
  BY HeldNow, HeldNext
<1>2. ASSUME NEW u \in Tasks
      PROVE  \/ /\ op'[u].bus = b /\ op[u].bus = b /\ op'[u].kind = op[u].kind
                /\ op'[u].value = op[u].value /\ storage'[u] = storage[u]
             \/ op'[u].bus # b /\ op[u].bus # b
  <2>1. View(b, u)' = View(b, u)
    OBVIOUS
  <2> QED BY <2>1 DEF View
<1>3. Offer(b)' = Offer(b)
  BY <1>2 DEF Offer
<1>4. Gets(b)' = Gets(b)
  BY <1>2 DEF Gets
<1>5. Wants(b)' = Wants(b)
  BY <1>2, <1>4 DEF Wants, Gets
<1>6. Storage(b)' = Storage(b)
  BY <1>2, <1>4 DEF Storage, Gets
<1> QED BY <1>1, <1>3, <1>5, <1>6 DEF Bus!vars

\* A put that meets a get on an unbuffered channel hands its value over.
LEMMA PutToReceiverOnBus ==
  ASSUME IInv, Synced, IInv', NEW t \in Tasks, NEW b \in Unbuffered,
         PutToReceiver(t, b)
  PROVE  Bus(b)!Next
<1>1. /\ op \in [Tasks -> [kind : {"none", "put", "get"},
                           bus : Channels \cup {Nothing},
                           value : Values \cup {Nothing}, at : Points]]
      /\ storage \in [Tasks -> Values \cup {Garbage, Nothing}]
  BY DEF IInv, OpOK, StorageOK
<1>2. b \in Channels /\ b # Nothing /\ Held(b) = << >> /\ Held(b)' = << >>
  BY HeldNow, HeldNext
<1>3. /\ op' = [op EXCEPT ![t] = NoOp]
      /\ op[t].value \in Values /\ op[t].bus = b /\ op[t].kind = "put"
  BY <1>2, PutToReceiverMeets DEF PutToReceiver, Enters
<1>4. PICK r \in Tasks :
        /\ r # t
        /\ Contains(receivers[b], r)
        /\ storage' = [storage EXCEPT ![r] = op[t].value]
  BY <1>2, PutToReceiverMeets
<1>5. /\ op[r].kind = "get" /\ op[r].bus = b /\ storage[r] = Nothing
  BY <1>2, <1>4 DEF Synced, TaskOK, ReceiverOK, StoredOK, Waits
<1>6. op[t].value # Nothing
  BY <1>3, ChannelAssumption
<1>7. /\ op'[t].bus = Nothing /\ op'[t].kind = "none"
      /\ \A u \in Tasks : u # t => op'[u] = op[u]
      /\ storage'[r] = op[t].value
      /\ \A u \in Tasks : u # r => storage'[u] = storage[u]
  BY <1>1, <1>3, <1>4 DEF NoOp
<1>8. Offer(b)[t] = op[t].value
  BY <1>3 DEF Offer
<1>9. r \in Wants(b)
  BY <1>5 DEF Wants, Gets
<1>10. Offer(b)' = [Offer(b) EXCEPT ![t] = Nothing]
  BY <1>2, <1>7 DEF Offer
<1>11. Wants(b)' = Wants(b) \ {r}
  BY <1>3, <1>4, <1>5, <1>6, <1>7 DEF Wants, Gets
<1>12. Storage(b)' = [Storage(b) EXCEPT ![r] = Offer(b)[t]]
  <2>1. ASSUME NEW u \in Tasks
        PROVE  Storage(b)'[u] = [Storage(b) EXCEPT ![r] = Offer(b)[t]][u]
    <3>1. CASE u = r
      BY <3>1, <1>4, <1>5, <1>7, <1>8 DEF Storage, Gets
    <3>2. CASE u = t
      BY <3>2, <1>3, <1>4, <1>7 DEF Storage, Gets
    <3>3. CASE u # r /\ u # t
      BY <3>3, <1>7 DEF Storage, Gets
    <3> QED BY <3>1, <3>2, <3>3
  <2>2. Storage(b)' = [u \in Tasks |-> Storage(b)'[u]]
    BY DEF Storage
  <2>3. [Storage(b) EXCEPT ![r] = Offer(b)[t]] =
          [u \in Tasks |-> [Storage(b) EXCEPT ![r] = Offer(b)[t]][u]]
    BY DEF Storage
  <2> QED BY <2>1, <2>2, <2>3
<1>13. Bus(b)!Meet(t, r)
  BY <1>2, <1>6, <1>8, <1>9, <1>10, <1>11, <1>12 DEF Bus!Meet
<1> QED BY <1>4, <1>13 DEF Bus!Next

LEMMA StartOnBus ==
  ASSUME IInv, Synced, IInv', NEW t \in Tasks, NEW b \in Unbuffered,
         StartGet(t, b) \/ \E v \in Values : StartPut(t, b, v)
  PROVE  Bus(b)!Next
<1>1. op \in [Tasks -> [kind : {"none", "put", "get"},
                        bus : Channels \cup {Nothing},
                        value : Values \cup {Nothing}, at : Points]]
  BY DEF IInv, OpOK
<1>2. b \in Channels /\ b # Nothing /\ Held(b) = << >> /\ Held(b)' = << >>
  BY HeldNow, HeldNext
<1>3. /\ op[t].bus = Nothing /\ op[t].kind = "none" /\ storage[t] = Nothing
      /\ UNCHANGED storage
  BY DEF StartGet, StartPut, Synced, TaskOK, CallOK, StoredOK, NoOp
<1>4. Bus(b)!Idle(t)
  <2>1. Offer(b)[t] = Nothing
    BY <1>2, <1>3 DEF Offer
  <2>2. t \notin Wants(b) /\ Storage(b)[t] = Nothing
    BY <1>3 DEF Wants, Gets, Storage
  <2> QED BY <2>1, <2>2 DEF Bus!Idle
<1>5. CASE StartGet(t, b)
  <2>1. /\ op'[t].bus = b /\ op'[t].kind = "get" /\ op'[t].value = Nothing
        /\ \A u \in Tasks : u # t => op'[u] = op[u]
    BY <1>1, <1>5 DEF StartGet
  <2>2. Offer(b)' = Offer(b)
    BY <1>2, <1>3, <2>1 DEF Offer
  <2>3. Wants(b)' = Wants(b) \cup {t}
    BY <1>3, <2>1 DEF Wants, Gets
  <2>4. Storage(b)' = Storage(b)
    BY <1>3, <2>1 DEF Storage, Gets
  <2>5. Bus(b)!Get(t)
    BY <1>2, <1>4, <2>2, <2>3, <2>4 DEF Bus!Get
  <2> QED BY <2>5 DEF Bus!Next
<1>6. ASSUME NEW v \in Values, StartPut(t, b, v)
      PROVE  Bus(b)!Next
  <2>1. /\ op'[t].bus = b /\ op'[t].kind = "put" /\ op'[t].value = v
        /\ \A u \in Tasks : u # t => op'[u] = op[u]
    BY <1>1, <1>6 DEF StartPut
  <2>2. Offer(b)' = [Offer(b) EXCEPT ![t] = v]
    BY <2>1 DEF Offer
  <2>3. Wants(b)' = Wants(b)
    BY <1>3, <2>1 DEF Wants, Gets
  <2>4. Storage(b)' = Storage(b)
    BY <1>3, <2>1 DEF Storage, Gets
  <2>5. Bus(b)!Put(t, v)
    BY <1>2, <1>4, <2>2, <2>3, <2>4 DEF Bus!Put
  <2> QED BY <2>5 DEF Bus!Next
<1> QED BY <1>5, <1>6

LEMMA ReturnOnBus ==
  ASSUME IInv, Synced, IInv', NEW t \in Tasks, NEW b \in Unbuffered,
         Return(t), op[t].bus = b
  PROVE  Bus(b)!Next
<1>1. /\ op \in [Tasks -> [kind : {"none", "put", "get"},
                           bus : Channels \cup {Nothing},
                           value : Values \cup {Nothing}, at : Points]]
      /\ storage \in [Tasks -> Values \cup {Garbage, Nothing}]
  BY DEF IInv, OpOK, StorageOK
<1>2. b \in Channels /\ b # Nothing /\ Held(b) = << >> /\ Held(b)' = << >>
  BY HeldNow, HeldNext
<1>3. op[t].kind = "get" /\ op[t].value = Nothing /\ storage[t] # Nothing
  BY DEF Return, Synced, TaskOK, CallOK, StoredOK
<1>4. /\ op'[t].bus = Nothing /\ op'[t].kind = "none"
      /\ \A u \in Tasks : u # t => op'[u] = op[u] /\ storage'[u] = storage[u]
      /\ storage'[t] = Nothing
  BY <1>1 DEF Return, NoOp
<1>5. Storage(b)[t] # Nothing
  BY <1>3 DEF Storage, Gets
<1>6. Storage(b)' = [Storage(b) EXCEPT ![t] = Nothing]
  BY <1>4 DEF Storage, Gets
<1>7. Offer(b)' = Offer(b)
  BY <1>2, <1>3, <1>4 DEF Offer
<1>8. Wants(b)' = Wants(b)
  BY <1>3, <1>4 DEF Wants, Gets
<1>9. Bus(b)!Return(t)
  BY <1>2, <1>5, <1>6, <1>7, <1>8 DEF Bus!Return
<1> QED BY <1>9 DEF Bus!Next

\* A step that shows on no bus, or on that of another channel.
LEMMA ElsewhereOnBus ==
  ASSUME IInv, Synced, IInv', NEW t \in Tasks, NEW b \in Unbuffered,
         \/ \E c \in Channels \ {b} :
              \/ StartGet(t, c) \/ (\E v \in Values : StartPut(t, c, v))
              \/ PutBuffers(t, c) \/ GetFromBuffer(t, c)
         \/ \E c \in Channels : PutRegisters(t, c) \/ GetRegisters(t, c)
         \/ Block(t) \/ Resume(t)
         \/ Return(t) /\ op[t].bus # b
  PROVE  UNCHANGED Bus(b)!vars
<1>1. /\ op \in [Tasks -> [kind : {"none", "put", "get"},
                           bus : Channels \cup {Nothing},
                           value : Values \cup {Nothing}, at : Points]]
      /\ storage \in [Tasks -> Values \cup {Garbage, Nothing}]
  BY DEF IInv, OpOK, StorageOK
<1>2. b # Nothing
  BY HeldNow
<1>3. TaskOK(t)
  BY DEF Synced
<1>4. \A u \in Tasks : u # t => op'[u] = op[u] /\ storage'[u] = storage[u]
  BY <1>1 DEF StartGet, StartPut, PutBuffers, BufferPush, GetFromBuffer, BufferPop,
       PutRegisters, GetRegisters, Block, Resume, Return
<1>5. \/ /\ op'[t].bus = op[t].bus /\ op'[t].kind = op[t].kind
         /\ op'[t].value = op[t].value /\ storage'[t] = storage[t]
      \/ op[t].bus # b /\ op'[t].bus # b
  <2>1. CASE \E c \in Channels \ {b} :
               StartGet(t, c) \/ \E v \in Values : StartPut(t, c, v)
    <3>1. op[t].bus = Nothing
      BY <2>1, <1>3 DEF StartGet, StartPut, TaskOK, CallOK, NoOp
    <3>2. op'[t].bus # b
      BY <2>1, <1>1 DEF StartGet, StartPut
    <3> QED BY <3>1, <3>2, <1>2
  <2>2. CASE \E c \in Channels \ {b} : PutBuffers(t, c)
    BY <2>2, <1>1, <1>2 DEF PutBuffers, Enters, NoOp
  <2>3. CASE \E c \in Channels \ {b} : GetFromBuffer(t, c)
    BY <2>3, <1>1 DEF GetFromBuffer, Enters
  <2>4. CASE \E c \in Channels : PutRegisters(t, c) \/ GetRegisters(t, c)
    BY <2>4, <1>1 DEF PutRegisters, GetRegisters
  <2>5. CASE Block(t)
    BY <2>5, <1>1 DEF Block
  <2>6. CASE Resume(t)
    BY <2>6, <1>1 DEF Resume
  <2>7. CASE Return(t) /\ op[t].bus # b
    BY <2>7, <1>1, <1>2 DEF Return, NoOp
  <2> QED BY <2>1, <2>2, <2>3, <2>4, <2>5, <2>6, <2>7
<1>6. \A u \in Tasks : View(b, u)' = View(b, u)
  BY <1>4, <1>5 DEF View
<1> QED BY <1>6, BusStays

\* A put that meets a get on another channel.
LEMMA PutToReceiverElsewhere ==
  ASSUME IInv, Synced, IInv', NEW t \in Tasks, NEW b \in Unbuffered,
         NEW c \in Channels, c # b, PutToReceiver(t, c)
  PROVE  UNCHANGED Bus(b)!vars
<1>1. /\ op \in [Tasks -> [kind : {"none", "put", "get"},
                           bus : Channels \cup {Nothing},
                           value : Values \cup {Nothing}, at : Points]]
      /\ storage \in [Tasks -> Values \cup {Garbage, Nothing}]
  BY DEF IInv, OpOK, StorageOK
<1>2. b # Nothing
  BY HeldNow
<1>3. op' = [op EXCEPT ![t] = NoOp] /\ op[t].bus = c
  BY PutToReceiverMeets DEF PutToReceiver, Enters
<1>4. PICK r \in Tasks :
        /\ r # t
        /\ Contains(receivers[c], r)
        /\ storage' = [storage EXCEPT ![r] = op[t].value]
  BY PutToReceiverMeets
<1>5. op[r].bus = c
  BY <1>4 DEF Synced, TaskOK, ReceiverOK
<1>6. ASSUME NEW u \in Tasks PROVE View(b, u)' = View(b, u)
  <2>1. CASE u = t
    BY <2>1, <1>1, <1>2, <1>3 DEF View, NoOp
  <2>2. CASE u = r
    BY <2>2, <1>1, <1>3, <1>4, <1>5 DEF View
  <2>3. CASE u # t /\ u # r
    BY <2>3, <1>1, <1>3, <1>4 DEF View
  <2> QED BY <2>1, <2>2, <2>3
<1> QED BY <1>6, BusStays

LEMMA NextOnBus ==
  ASSUME IInv, Synced, IInv', [Next]_vars
  PROVE  [BusesStep(Unbuffered)]_vars
<1>1. CASE UNCHANGED vars
  BY <1>1
<1>2. CASE Next
  <2>1. PICK t \in Tasks : Start(t) \/ Goes(t)
    BY <1>2 DEF Next
  <2>2. ASSUME NEW b \in Unbuffered
        PROVE  Bus(b)!Next \/ UNCHANGED Bus(b)!vars
    <3>1. ~HasRoom(b) /\ ~HasValue(b) /\ b \in Channels
      BY NeverBuffers, HeldNow
    <3>2. CASE Start(t)
      <4>1. PICK c \in Channels : StartGet(t, c) \/ \E v \in Values : StartPut(t, c, v)
        BY <3>2 DEF Start
      <4>2. CASE c = b
        BY <4>1, <4>2, StartOnBus
      <4>3. CASE c # b
        BY <4>1, <4>3, ElsewhereOnBus
      <4> QED BY <4>2, <4>3
    <3>3. ASSUME NEW c \in Channels, PutToReceiver(t, c)
          PROVE  Bus(b)!Next \/ UNCHANGED Bus(b)!vars
      <4>1. CASE c = b
        BY <3>3, <4>1, PutToReceiverOnBus
      <4>2. CASE c # b
        BY <3>3, <4>2, PutToReceiverElsewhere
      <4> QED BY <4>1, <4>2
    <3>4. ASSUME NEW c \in Channels, PutBuffers(t, c) \/ GetFromBuffer(t, c)
          PROVE  Bus(b)!Next \/ UNCHANGED Bus(b)!vars
      <4>1. c # b
        BY <3>1, <3>4 DEF PutBuffers, GetFromBuffer
      <4> QED BY <3>4, <4>1, ElsewhereOnBus
    <3>5. ASSUME NEW c \in Channels, PutRegisters(t, c) \/ GetRegisters(t, c)
          PROVE  Bus(b)!Next \/ UNCHANGED Bus(b)!vars
      BY <3>5, ElsewhereOnBus
    <3>6. CASE Block(t) \/ Resume(t)
      BY <3>6, ElsewhereOnBus
    <3>7. CASE Return(t)
      <4>1. CASE op[t].bus = b
        BY <3>7, <4>1, ReturnOnBus
      <4>2. CASE op[t].bus # b
        BY <3>7, <4>2, ElsewhereOnBus
      <4> QED BY <4>1, <4>2
    <3> QED BY <2>1, <3>2, <3>3, <3>4, <3>5, <3>6, <3>7 DEF Goes, Locked
  <2> QED BY <2>2 DEF BusesStep
<1> QED BY <1>1, <1>2

----------------------------------------------------------------------------
(***************************************************************************)
(* The theorems.                                                           *)
(***************************************************************************)

\* Every variable of the channels keeps its type: in particular the indices
\* of a ring stay within its slots.
THEOREM TypeCorrect == Spec => []TypeOK
<1>1. Spec => []IInv
  BY InitIInv, NextIInv, PTL DEF Spec
<1> QED BY <1>1, IInvType, PTL

\* A receiver waits only while the buffer of its channel is empty, for any
\* size: maybe_deliver never drops a receiver without unblocking it.
THEOREM ReceiversWait == Spec => []ReceiversWaitOnEmptyBuffer
<1>1. Spec => []IInv
  BY InitIInv, NextIInv, PTL DEF Spec
<1>2. IInv => ReceiversWaitOnEmptyBuffer
  BY DEF IInv
<1> QED BY <1>1, <1>2, PTL

\* A task that has registered is in one deque, once, until it is scheduled,
\* exactly once; unblock never reaches a task that is not blocking.
THEOREM WokenOnce == Spec => []ScheduledOnce
<1>1. IInv /\ Synced => ScheduledOnce
  BY SyncedOnce DEF ScheduledOnce
<1> QED BY <1>1, SpecSynced, PTL

\* While a sender is blocked, every free slot and every waiting receiver has a
\* sender on its way to it, for rings of any size: maybe_fill wakes enough.
THEOREM SendersComeBack == Spec => []NoSenderForgotten
<1>1. Init => NoSenderForgotten
  BY DEF Init, NoSenderForgotten
<1>2. IInv /\ Synced /\ NoSenderForgotten /\ [Next]_vars => NoSenderForgotten'
  <2> SUFFICES ASSUME IInv, Synced, NoSenderForgotten, [Next]_vars,
                      NEW c \in Channels
               PROVE  Balanced(c)'
    BY DEF NoSenderForgotten, Balanced
  <2>1. Balanced(c)
    BY DEF NoSenderForgotten, Balanced
  <2> QED BY <2>1, NextBalanced
<1> QED BY <1>1, <1>2, SpecSynced, PTL DEF Spec

\* A channel without a usable buffer implements the abstract message bus:
\* every value that is put reaches one get, once, and get returns nothing else.
THEOREM RefinesBus == Spec => ImplementsBus
<1>1. IInv /\ Synced /\ IInv' /\ [Next]_vars => [BusesStep(Unbuffered)]_vars
  BY NextOnBus
<1> QED BY <1>1, InitBuses, SpecSynced, PTL DEF Spec, ImplementsBus
============================================================================
