------------------------------ MODULE Channel ------------------------------
(***************************************************************************)
(* The channels of xi/core/channel.h: a message_bus with a spin lock, a    *)
(* deque of blocked senders, a deque of blocked receivers and a ring of    *)
(* Size slots.                                                             *)
(*                                                                         *)
(* put and get hold the lock from their first look at the bus to their     *)
(* return or to the registration of the caller, so each is one step.  The  *)
(* caller blocks after it has unlocked: it may be unblocked before it has  *)
(* yielded, and then comes back as soon as it has (WorkerIsolation shows   *)
(* that unblocking delivers exactly that).                                 *)
(***************************************************************************)
EXTENDS Integers, Sequences, FiniteSets

CONSTANTS
  Tasks,     \* resumables that use the channels
  Channels,  \* message buses
  Size,      \* per channel: the template parameter Size
  Values,    \* the values sent
  Garbage,   \* the content of a slot that was never written
  Nothing    \* no value, no channel

ASSUME ChannelAssumption ==
  /\ Size \in [Channels -> Nat]
  /\ Garbage \notin Values
  /\ Nothing \notin Values \cup Channels \cup {Garbage}
  /\ IsFiniteSet(Tasks)

VARIABLES
  op,         \* per task: the put or get it is in, and where
  storage,    \* per task: what the storage of its get holds
  scheduled,  \* per task: how often unblock has scheduled it
  senders,    \* _blocked_senders
  receivers,  \* _blocked_receivers
  slot,       \* buffer::_queue
  head,       \* buffer::_head
  tail        \* buffer::_tail

buffer == <<slot, head, tail>>
vars == <<op, storage, scheduled, senders, receivers, buffer>>

\* A task is between two operations, about to lock the bus, registered but
\* not yet yielded, blocked, or about to return from get.
Points == {"idle", "enter", "registered", "blocked", "return"}

NoOp == [kind |-> "none", bus |-> Nothing, value |-> Nothing, at |-> "idle"]

Slots(c) == 0 .. Size[c] - 1

Init ==
  /\ op = [t \in Tasks |-> NoOp]
  /\ storage = [t \in Tasks |-> Nothing]
  /\ scheduled = [t \in Tasks |-> 0]
  /\ senders = [c \in Channels |-> << >>]
  /\ receivers = [c \in Channels |-> << >>]
  /\ slot = [c \in Channels |-> [i \in Slots(c) |-> Garbage]]
  /\ head = [c \in Channels |-> 0]
  /\ tail = [c \in Channels |-> 0]

----------------------------------------------------------------------------
(***************************************************************************)
(* buffer<T, Size>.  It is only used under the lock of the bus, so its     *)
(* compare-and-swap loops succeed the first time.                          *)
(***************************************************************************)

\* Mutant: the index does not wrap.
NextIdxUnwrapped(c, i) == i + 1

\* _next_idx.
NextIdx(c, i) == (i + 1) % Size[c]

\* push finds room.
HasRoom(c) == Size[c] > 0 /\ NextIdx(c, tail[c]) # head[c]

\* pop finds a value.
HasValue(c) == Size[c] > 0 /\ tail[c] # head[c]

\* push: _push_at(next_tail).
BufferPush(c, v) ==
  /\ tail' = [tail EXCEPT ![c] = NextIdx(c, @)]
  /\ slot' = [slot EXCEPT ![c][NextIdx(c, tail[c])] = v]
  /\ UNCHANGED head

\* pop: _pop_at(head), into the storage of r.
BufferPop(c, r) ==
  /\ head' = [head EXCEPT ![c] = NextIdx(c, @)]
  /\ storage' = [storage EXCEPT ![r] = slot[c][head[c]]]
  /\ UNCHANGED <<slot, tail>>

----------------------------------------------------------------------------
(***************************************************************************)
(* put and get.                                                            *)
(***************************************************************************)

\* send calls put.
StartPut(t, c, v) ==
  /\ op[t].at = "idle"
  /\ op' = [op EXCEPT ![t] =
              [kind |-> "put", bus |-> c, value |-> v, at |-> "enter"]]
  /\ UNCHANGED <<storage, scheduled, senders, receivers, buffer>>

\* recv calls get.
StartGet(t, c) ==
  /\ op[t].at = "idle"
  /\ op' = [op EXCEPT ![t] =
              [kind |-> "get", bus |-> c, value |-> Nothing, at |-> "enter"]]
  /\ UNCHANGED <<storage, scheduled, senders, receivers, buffer>>

\* t is about to lock the bus c for an operation of this kind.
Enters(t, c, kind) ==
  op[t].at = "enter" /\ op[t].bus = c /\ op[t].kind = kind

Unblock(t) == scheduled' = [scheduled EXCEPT ![t] = @ + 1]

\* Mutant: a delivery leaves the receiver in the deque.
NotReleased(c) == receivers[c]

\* The receivers left by the XI_SCOPE(exit) of maybe_deliver.
Released(c) == Tail(receivers[c])

\* maybe_deliver gives the value to the first receiver.
Deliver(r, v) ==
  /\ storage' = [storage EXCEPT ![r] = v]
  /\ Unblock(r)
  /\ UNCHANGED buffer

\* maybe_deliver gives the first receiver the value of a slot, and does not
\* unblock it; the slot this frees takes the value of the caller.
DeliverFromBuffer(c, r, v) ==
  /\ storage' = [storage EXCEPT ![r] = slot[c][head[c]]]
  /\ head' = [head EXCEPT ![c] = NextIdx(c, @)]
  /\ tail' = [tail EXCEPT ![c] = NextIdx(c, @)]
  /\ slot' = [slot EXCEPT ![c][NextIdx(c, tail[c])] = v]
  /\ UNCHANGED scheduled

PutToReceiver(t, c) ==
  /\ Enters(t, c, "put")
  /\ receivers[c] # << >>
  /\ IF HasValue(c)
     THEN DeliverFromBuffer(c, Head(receivers[c]), op[t].value)
     ELSE Deliver(Head(receivers[c]), op[t].value)
  /\ receivers' = [receivers EXCEPT ![c] = Released(c)]
  /\ op' = [op EXCEPT ![t] = NoOp]
  /\ UNCHANGED senders

\* Mutant: the buffer is tried although receivers wait.
Unclaimed(c) == TRUE

\* maybe_deliver finds no receiver.
NoReceiver(c) == receivers[c] = << >>

PutBuffers(t, c) ==
  /\ Enters(t, c, "put")
  /\ NoReceiver(c)
  /\ HasRoom(c)
  /\ BufferPush(c, op[t].value)
  /\ op' = [op EXCEPT ![t] = NoOp]
  /\ UNCHANGED <<storage, scheduled, senders, receivers>>

PutRegisters(t, c) ==
  /\ Enters(t, c, "put")
  /\ NoReceiver(c)
  /\ ~HasRoom(c)
  /\ senders' = [senders EXCEPT ![c] = Append(@, t)]
  /\ op' = [op EXCEPT ![t].at = "registered"]
  /\ UNCHANGED <<storage, scheduled, receivers, buffer>>

\* Mutant: nobody is woken.
FillsNothing(c) == UNCHANGED <<scheduled, senders>>

\* maybe_fill: the first blocked sender tries again.
MaybeFill(c) ==
  IF senders[c] = << >>
  THEN UNCHANGED <<scheduled, senders>>
  ELSE /\ Unblock(Head(senders[c]))
       /\ senders' = [senders EXCEPT ![c] = Tail(@)]

GetFromBuffer(t, c) ==
  /\ Enters(t, c, "get")
  /\ HasValue(c)
  /\ BufferPop(c, t)
  /\ MaybeFill(c)
  /\ op' = [op EXCEPT ![t].at = "return"]
  /\ UNCHANGED receivers

GetRegisters(t, c) ==
  /\ Enters(t, c, "get")
  /\ ~HasValue(c)
  /\ receivers' = [receivers EXCEPT ![c] = Append(@, t)]
  /\ MaybeFill(c)
  /\ op' = [op EXCEPT ![t].at = "registered"]
  /\ UNCHANGED <<storage, buffer>>

\* self->block().
Block(t) ==
  /\ op[t].at = "registered"
  /\ op' = [op EXCEPT ![t].at = "blocked"]
  /\ UNCHANGED <<storage, scheduled, senders, receivers, buffer>>

\* The worker resumes t: put goes round its loop, get is about to return.
Resume(t) ==
  /\ op[t].at = "blocked"
  /\ scheduled[t] > 0
  /\ scheduled' = [scheduled EXCEPT ![t] = @ - 1]
  /\ op' = [op EXCEPT ![t].at = IF op[t].kind = "put" THEN "enter"
                                                      ELSE "return"]
  /\ UNCHANGED <<storage, senders, receivers, buffer>>

\* get returns, and the caller uses what it received.
Return(t) ==
  /\ op[t].at = "return"
  /\ op' = [op EXCEPT ![t] = NoOp]
  /\ storage' = [storage EXCEPT ![t] = Nothing]
  /\ UNCHANGED <<scheduled, senders, receivers, buffer>>

Locked(t) ==
  \E c \in Channels :
    \/ PutToReceiver(t, c) \/ PutBuffers(t, c) \/ PutRegisters(t, c)
    \/ GetFromBuffer(t, c) \/ GetRegisters(t, c)

Start(t) ==
  \E c \in Channels : StartGet(t, c) \/ \E v \in Values : StartPut(t, c, v)

Goes(t) == Locked(t) \/ Block(t) \/ Resume(t) \/ Return(t)

Next == \E t \in Tasks : Start(t) \/ Goes(t)

Spec == Init /\ [][Next]_vars

----------------------------------------------------------------------------
(***************************************************************************)
(* Properties.                                                             *)
(***************************************************************************)

\* The type invariant.
TypeOK ==
  /\ op \in [Tasks -> [kind : {"none", "put", "get"},
                       bus : Channels \cup {Nothing},
                       value : Values \cup {Nothing}, at : Points]]
  /\ storage \in [Tasks -> Values \cup {Garbage, Nothing}]
  /\ scheduled \in [Tasks -> Nat]
  /\ senders \in [Channels -> Seq(Tasks)]
  /\ receivers \in [Channels -> Seq(Tasks)]
  /\ DOMAIN slot = Channels /\ DOMAIN head = Channels /\ DOMAIN tail = Channels
  /\ \A c \in Channels :
       /\ slot[c] \in [Slots(c) -> Values \cup {Garbage}]
       /\ head[c] \in {0} \cup Slots(c)
       /\ tail[c] \in {0} \cup Slots(c)

\* A receiver waits only while the buffer is empty.  The branch of
\* maybe_deliver that serves a receiver from the buffer would otherwise drop
\* it from the deque without unblocking it, and its get would never return.
ReceiversWaitOnEmptyBuffer ==
  \A c \in Channels : receivers[c] # << >> => ~HasValue(c)

\* The positions at which t is in a deque of blocked tasks.
Registrations(t) ==
  LET in(q) == UNION {{<<c, i>> : i \in {i \in DOMAIN q[c] : q[c][i] = t}} :
                      c \in Channels}
  IN  {<<"sender", x>> : x \in in(senders)}
      \cup {<<"receiver", x>> : x \in in(receivers)}

\* A task that has registered is in one deque, once, until it is scheduled,
\* exactly once, and any other task is in none: nobody is forgotten, unblock
\* never reaches a task that is not blocking, and so a get never returns
\* before its storage was written.
ScheduledOnce ==
  \A t \in Tasks :
    scheduled[t] + Cardinality(Registrations(t)) =
      IF op[t].at \in {"registered", "blocked"} THEN 1 ELSE 0

\* The values the buffer of c may still take, and the receivers that wait.
FreeSlots(c) ==
  IF Size[c] = 0 THEN 0 ELSE (head[c] - tail[c] - 1) % Size[c]
Openings(c) == FreeSlots(c) + Len(receivers[c])

\* The senders that will still look at c: new ones, and those woken.
Coming(c) ==
  {t \in Tasks : /\ op[t].kind = "put"
                 /\ op[t].bus = c
                 /\ op[t].at = "enter" \/ scheduled[t] > 0}

\* While a sender is blocked, every free slot and every waiting receiver has
\* a sender on its way to it: maybe_fill wakes one sender per get, and a woken
\* sender finds the opening or somebody has taken it.  A sender and a receiver
\* never wait for each other.
NoSenderForgotten ==
  \A c \in Channels :
    senders[c] # << >> => Openings(c) <= Cardinality(Coming(c))

\* The values that were pushed and not yet popped, in order.
Held(c) ==
  [i \in 1 .. (IF Size[c] = 0 THEN 0 ELSE (tail[c] - head[c]) % Size[c])
     |-> slot[c][(head[c] + i) % Size[c]]]

\* The put and get of t on c, as the abstract bus sees them.
Offer(c) == [t \in Tasks |-> IF op[t].bus = c THEN op[t].value ELSE Nothing]
Gets(c) == {t \in Tasks : op[t].kind = "get" /\ op[t].bus = c}
Wants(c) == {t \in Gets(c) : storage[t] = Nothing}
Storage(c) == [t \in Tasks |-> IF t \in Gets(c) THEN storage[t] ELSE Nothing]

Bus(c) ==
  INSTANCE MessageBus
  WITH Capacity <- Size[c], offer <- Offer(c), wants <- Wants(c),
       held <- Held(c), storage <- Storage(c)

\* Bus(c)!Spec for every channel of C, in two parts: the initial states, and
\* the steps of all the channels at once.
BusesInit(C) == \A c \in C : Bus(c)!Init
BusesStep(C) == \A c \in C : UNCHANGED Bus(c)!vars \/ Bus(c)!Next

Unbuffered == {c \in Channels : Size[c] < 2}

\* An unbuffered channel (and one with a single slot, which is never used)
\* implements the abstract bus: every value put reaches one get, once.
ImplementsBus == BusesInit(Unbuffered) /\ [][BusesStep(Unbuffered)]_vars

\* "waiting for receiver" (channel.h:105) and "received from buffer"
\* (channel.h:120): a buffered channel implements the abstract bus too.
BufferedImplementsBus == BusesInit(Channels) /\ [][BusesStep(Channels)]_vars

\* A get is served as long as somebody wants to put: a receiver is not left
\* waiting next to a sender, whichever way the two arrive.
ReceiverServed ==
  \A c \in Channels, r \in Tasks :
    r \in Wants(c) /\ (\E s \in Tasks : Offer(c)[s] # Nothing)
      ~> r \notin Wants(c) \/ \A s \in Tasks : Offer(c)[s] = Nothing
============================================================================
