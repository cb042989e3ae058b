-------------------------- MODULE SchedulerProofs --------------------------
(***************************************************************************)
(* Proofs about Scheduler, for any number of workers, client threads,      *)
(* resumables and file descriptors.                                        *)
(***************************************************************************)
EXTENDS Scheduler, QueueLemmas

\* count_trailing_zeroes of a non-empty set of worker bits is one of them.
LEMMA FirstBitInSet ==
  ASSUME NEW S \in SUBSET Workers, S # {}
  PROVE  FirstBit(S) \in S
  <1>1. S \subseteq Int /\ \A i \in S : 0 <= i
    BY WorkersAssumption DEF Workers
  <1>2. \E i \in S : \A j \in S : i <= j
    <2>1. 0 \in Int
      OBVIOUS
    <2> QED BY ONLY <1>1, <2>1, S # {}, LeastElement
  <1> QED BY <1>2 DEF FirstBit
----------------------------------------------------------------------------
(***************************************************************************)
(* Type correctness.                                                       *)
(***************************************************************************)

\* A call of central_enqueue owns its job until the push, and claims only a
\* set of parked workers that has a bit.
CallOK ==
  \A t \in Threads :
    /\ call[t].at \in {"load", "claim", "push"} <=> call[t].job # None
    /\ call[t].at = "claim" => call[t].seen # {}

\* A worker has a current task exactly while it runs one.
CurrentOK == \A w \in Workers : pc[w] = "task" <=> current[w] # None

\* No sleeper is later than MaxLag.
LagOK == \A w \in Workers : \A r \in sleepq[w] : -MaxLag <= wakeup[r]

\* TypeOK is not inductive: that a queue receives resumables only depends on
\* who owns a resumable at which point of the code.
TypeInv == TypeOK /\ CallOK /\ CurrentOK /\ LagOK

LEMMA InitTypeInv == Init => TypeInv
  <1> SUFFICES ASSUME Init PROVE TypeInv
    OBVIOUS
  <1> USE WorkersAssumption, ResumablesAssumption, ConfigAssumption,
          TimeAssumption DEF Init, NoCall
  <1>1. 0 \in Workers
    BY DEF Workers
  <1>2. TypeOK
    <2>1. call \in [Threads -> Calls]
      BY <1>1 DEF CallPoints, Calls
    <2>2. spins \in [Workers -> 0 .. SpinsBeforeIdle]
      OBVIOUS
    <2>3. /\ input \in [Workers -> Seq(Resumables)]
          /\ ready \in [Workers -> Seq(Resumables)]
          /\ port \in [Workers -> Seq(Resumables)]
      OBVIOUS
    <2>4. /\ sleepq \in [Workers -> SUBSET Resumables]
          /\ wakeup \in [Resumables -> Int]
          /\ next_item \in [Workers -> Int]
          /\ epoll \in [Workers -> [Fds -> Resumables \cup {None}]]
          /\ current \in [Workers -> Resumables \cup {None}]
      OBVIOUS
    <2>5. /\ rr \in [Threads -> Workers]
          /\ state \in [Workers -> {"RUNNING", "PARKED_NETPOLL"}]
          /\ wake \in [Workers -> BOOLEAN]
          /\ pc \in [Workers -> PCs]
          /\ polled \in [Workers -> BOOLEAN]
      BY <1>1 DEF PCs
    <2>6. /\ fresh \in SUBSET Resumables /\ parked \in SUBSET Workers
          /\ done \in SUBSET Resumables /\ leaked \in SUBSET Resumables
      OBVIOUS
    <2> QED BY <2>1, <2>2, <2>3, <2>4, <2>5, <2>6 DEF TypeOK
  <1>3. CallOK /\ CurrentOK /\ LagOK
    BY DEF CallOK, CurrentOK, LagOK, Threads
  <1> QED BY <1>2, <1>3 DEF TypeInv

\* Spawning and enqueueing, by any thread: the call record.
LEMMA EnqueueCall ==
  ASSUME TypeInv, NEW t \in Threads,
         Enqueue(t) \/ \E r \in Resumables : Spawn(t, r)
  PROVE  call' \in [Threads -> Calls] /\ CallOK'
  <1>1. /\ call \in [Threads -> Calls]
        /\ rr \in [Threads -> Workers]
        /\ parked \in SUBSET Workers
        /\ CallOK
    BY DEF TypeInv, TypeOK
  <1>2. NoCall \in Calls /\ NoCall.at = "idle" /\ NoCall.job = None
    BY WorkersAssumption DEF NoCall, Workers, Calls, CallPoints
  <1> USE ResumablesAssumption, <1>1 DEF Calls, CallPoints, CallOK
  <1>3. ASSUME NEW r \in Resumables, Spawn(t, r)
        PROVE  call' \in [Threads -> Calls] /\ CallOK'
    <2>1. 0 \in Workers
      BY WorkersAssumption DEF Workers
    <2> QED BY <1>3, <2>1 DEF Spawn, NoCall
  <1>4. CASE SeeParked(t)
    BY <1>4, ZenonT(60) DEF SeeParked
  <1>5. CASE SeeNoneParked(t)
    BY <1>5, ZenonT(60) DEF SeeNoneParked
  <1>6. CASE ClaimParked(t)
    <2>1. FirstBit(call[t].seen) \in Workers
      BY <1>6, FirstBitInSet DEF ClaimParked
    <2>2. CASE parked = call[t].seen
      BY <1>6, <2>1, <2>2 DEF ClaimParked
    <2>3. CASE parked # call[t].seen
      BY <1>6, <2>3 DEF ClaimParked
    <2> QED BY <2>2, <2>3
  <1>7. CASE PushInput(t)
    BY <1>7 DEF PushInput
  <1>8. CASE CheckState(t)
    <2>1. CASE state[call[t].target] = "PARKED_NETPOLL"
      BY <1>8, <2>1 DEF CheckState
    <2>2. CASE state[call[t].target] # "PARKED_NETPOLL"
      BY <1>2, <1>8, <2>2 DEF CheckState
    <2> QED BY <2>1, <2>2
  <1>9. CASE UnblockOne(t)
    BY <1>2, <1>9 DEF UnblockOne
  <1> QED BY <1>3, <1>4, <1>5, <1>6, <1>7, <1>8, <1>9 DEF Enqueue

\* Spawning and enqueueing, by any thread: all of the state.
LEMMA EnqueueTypeInv ==
  ASSUME TypeInv, NEW t \in Threads,
         Enqueue(t) \/ \E r \in Resumables : Spawn(t, r)
  PROVE  TypeInv'
  <1>1. call' \in [Threads -> Calls] /\ CallOK'
    BY EnqueueCall, SMTT(30)
  <1>2. UNCHANGED <<workVars, sleepVars, ready, port, epoll, endVars>>
    BY DEF Enqueue, Spawn, SeeParked, SeeNoneParked, ClaimParked, PushInput,
           CheckState, UnblockOne, queueVars
  <1>3. CurrentOK' /\ LagOK'
    BY <1>2 DEF TypeInv, CurrentOK, LagOK, workVars, sleepVars
  <1>4. rr' \in [Threads -> Workers] /\ fresh' \in SUBSET Resumables
    <2>1. \A i \in Workers : NextRoundRobin(i) \in Workers
      BY WorkersAssumption DEF NextRoundRobin, Workers
    <2>2. rr \in [Threads -> Workers] /\ fresh \in SUBSET Resumables
      BY SMTT(30) DEF TypeInv, TypeOK
    <2>3. /\ rr' = rr \/ rr' = [rr EXCEPT ![t] = NextRoundRobin(@)]
          /\ fresh' \subseteq fresh
      BY DEF Enqueue, Spawn, SeeParked, SeeNoneParked, ClaimParked, PushInput,
             CheckState, UnblockOne
    <2>4. CASE rr' = rr
      BY <2>2, <2>3, <2>4
    <2>5. CASE rr' = [rr EXCEPT ![t] = NextRoundRobin(@)]
      BY <2>1, <2>2, <2>3, <2>5
    <2> QED BY <2>3, <2>4, <2>5
  <1>5. parked' \in SUBSET Workers
    BY DEF TypeInv, TypeOK, Enqueue, Spawn, SeeParked, SeeNoneParked,
           ClaimParked, PushInput, CheckState, UnblockOne, parkVars
  <1>6. /\ state' \in [Workers -> {"RUNNING", "PARKED_NETPOLL"}]
        /\ wake' \in [Workers -> BOOLEAN]
    BY DEF TypeInv, TypeOK, Enqueue, Spawn, SeeParked, SeeNoneParked,
           ClaimParked, PushInput, CheckState, UnblockOne, parkVars
  <1>7. input' \in [Workers -> Seq(Resumables)]
    <2>1. CASE PushInput(t)
      <3>1. call[t].job \in Resumables /\ call[t].target \in Workers
        BY <2>1 DEF TypeInv, TypeOK, CallOK, Calls, PushInput
      <3>2. input \in [Workers -> Seq(Resumables)]
        BY DEF TypeInv, TypeOK
      <3>3. Append(input[call[t].target], call[t].job) \in Seq(Resumables)
        BY <3>1, <3>2, AppendProperties
      <3> QED BY <2>1, <3>2, <3>3 DEF PushInput
    <2>2. CASE ~PushInput(t)
      BY <2>2 DEF TypeInv, TypeOK, Enqueue, Spawn, SeeParked, SeeNoneParked,
                  ClaimParked, CheckState, UnblockOne, queueVars
    <2> QED BY <2>1, <2>2
  <1>8. TypeOK'
    BY <1>1, <1>2, <1>4, <1>5, <1>6, <1>7
       DEF TypeInv, TypeOK, workVars, sleepVars, endVars
  <1> QED BY <1>1, <1>3, <1>8 DEF TypeInv

\* Parking and unparking.
LEMMA ParkTypeInv ==
  ASSUME TypeInv, NEW w \in Workers,
         Park(w) \/ BlockingPollInterrupted(w)
           \/ \E f \in Fds : BlockingPollEvent(w, f)
  PROVE  TypeInv'
  <1> USE DEF Park, ParkBit, ParkState, BlockingPollWakeup, UnparkState,
              UnparkBit, BlockingPollInterrupted, BlockingPollEvent
  <1>1. UNCHANGED <<spawnVars, spins, polled, current, sleepVars, input, ready,
                    endVars>>
    BY DEF queueVars
  <1>2. \E from, to \in PCs \ {"task"} : Goto(w, from, to)
    BY DEF PCs
  <1>3. pc' \in [Workers -> PCs] /\ CurrentOK'
    <2>1. pc \in [Workers -> PCs] /\ CurrentOK
      BY DEF TypeInv, TypeOK
    <2> QED BY <1>1, <1>2, <2>1 DEF Goto, CurrentOK
  <1>4. CallOK' /\ LagOK'
    BY <1>1 DEF TypeInv, CallOK, LagOK, spawnVars, sleepVars
  <1>5. /\ parked' \in SUBSET Workers
        /\ state' \in [Workers -> {"RUNNING", "PARKED_NETPOLL"}]
        /\ wake' \in [Workers -> BOOLEAN]
    <2>1. /\ parked \in SUBSET Workers
          /\ state \in [Workers -> {"RUNNING", "PARKED_NETPOLL"}]
          /\ wake \in [Workers -> BOOLEAN]
      BY DEF TypeInv, TypeOK
    <2> QED BY <2>1 DEF parkVars
  <1>6. /\ port' \in [Workers -> Seq(Resumables)]
        /\ epoll' \in [Workers -> [Fds -> Resumables \cup {None}]]
    <2>1. /\ port \in [Workers -> Seq(Resumables)]
          /\ epoll \in [Workers -> [Fds -> Resumables \cup {None}]]
      BY DEF TypeInv, TypeOK
    <2>2. ASSUME NEW f \in Fds, BlockingPollEvent(w, f)
          PROVE  /\ port' \in [Workers -> Seq(Resumables)]
                 /\ epoll' \in [Workers -> [Fds -> Resumables \cup {None}]]
      <3>1. epoll[w][f] \in Resumables
        BY <2>1, <2>2
      <3>2. Append(port[w], epoll[w][f]) \in Seq(Resumables)
        BY <2>1, <3>1, AppendProperties
      <3>3. Disarmed(epoll[w], {f}) \in [Fds -> Resumables \cup {None}]
        BY <2>1 DEF Disarmed
      <3> QED BY <2>1, <2>2, <3>2, <3>3
    <2>3. CASE \A f \in Fds : ~BlockingPollEvent(w, f)
      BY <2>1, <2>3 DEF queueVars
    <2> QED BY <2>2, <2>3
  <1>7. TypeOK'
    BY <1>1, <1>3, <1>5, <1>6
       DEF TypeInv, TypeOK, spawnVars, sleepVars, endVars
  <1> QED BY <1>3, <1>4, <1>7 DEF TypeInv

\* The clock.
LEMMA TickTypeInv ==
  ASSUME TypeInv, Tick
  PROVE  TypeInv'
  <1>1. /\ wakeup' \in [Resumables -> Int]
        /\ next_item' \in [Workers -> Int]
    <2>1. wakeup \in [Resumables -> Int] /\ next_item \in [Workers -> Int]
      BY DEF TypeInv, TypeOK
    <2> QED BY <2>1, TimeAssumption DEF Tick
  <1>2. UNCHANGED <<spawnVars, parkVars, workVars, sleepq, queueVars, endVars>>
    BY DEF Tick
  <1>3. TypeOK' /\ CallOK' /\ CurrentOK'
    BY <1>1, <1>2 DEF TypeInv, TypeOK, CallOK, CurrentOK, spawnVars, parkVars,
                      workVars, queueVars, endVars
  <1>4. LagOK'
    <2>1. SUFFICES ASSUME NEW w \in Workers, NEW r \in sleepq[w]
                   PROVE  -MaxLag <= wakeup'[r]
      BY <1>2 DEF LagOK
    <2>2. r \in Resumables /\ wakeup[r] \in Int
      BY DEF TypeInv, TypeOK
    <2>3. wakeup[r] > -MaxLag /\ wakeup'[r] = wakeup[r] - 1
      BY <2>2 DEF Tick
    <2> QED BY <2>2, <2>3, ConfigAssumption
  <1> QED BY <1>3, <1>4 DEF TypeInv

\* What dequeue_into takes is a part of the queue.
LEMMA DequeueCountType ==
  ASSUME TypeInv, NEW w \in Workers
  PROVE  DequeueCount(w) \in 0 .. Len(input[w])
  <1>1. Len(input[w]) \in Nat
    BY LenProperties DEF TypeInv, TypeOK
  <1> QED BY <1>1, ConfigAssumption DEF DequeueCount

\* The steps of worker::run that touch no queue but input and ready.
LEMMA ScheduleTypeInv ==
  ASSUME TypeInv, NEW w \in Workers,
         CentralSchedule(w) \/ IsolationSpent(w) \/ Drained(w)
           \/ BudgetLeft(w) \/ BudgetSpent(w)
  PROVE  TypeInv'
  <1> USE DEF CentralSchedule, IsolationSpent, Drained, BudgetLeft, BudgetSpent
  <1>1. UNCHANGED <<spawnVars, parkVars, current, sleepVars, port, epoll, endVars>>
    BY DEF queueVars
  <1>2. pc' \in [Workers -> PCs] /\ CurrentOK'
    <2>1. pc \in [Workers -> PCs] /\ CurrentOK
      BY DEF TypeInv, TypeOK
    <2>2. \E to \in PCs \ {"task"} : pc' = [pc EXCEPT ![w] = to]
      BY DEF Goto, PCs
    <2>3. pc[w] # "task"
      BY DEF Goto
    <2> QED BY <1>1, <2>1, <2>2, <2>3 DEF CurrentOK
  <1>3. CallOK' /\ LagOK'
    BY <1>1 DEF TypeInv, CallOK, LagOK, spawnVars, sleepVars
  <1>4. spins' \in [Workers -> 0 .. SpinsBeforeIdle]
    <2>1. spins \in [Workers -> 0 .. SpinsBeforeIdle]
      BY DEF TypeInv, TypeOK
    <2>2. \/ spins' = spins
          \/ spins' = [spins EXCEPT ![w] = 0]
          \/ /\ spins' = [spins EXCEPT ![w] = spins[w] + 1]
             /\ ~(spins[w] + 1 > SpinsBeforeIdle)
      BY <2>1
    <2> QED BY <2>1, <2>2, ConfigAssumption
  <1>5. polled' \in [Workers -> BOOLEAN]
    <2>1. polled \in [Workers -> BOOLEAN]
      BY DEF TypeInv, TypeOK
    <2> QED BY <2>1
  <1>6. /\ input' \in [Workers -> Seq(Resumables)]
        /\ ready' \in [Workers -> Seq(Resumables)]
    <2>1. /\ input \in [Workers -> Seq(Resumables)]
          /\ ready \in [Workers -> Seq(Resumables)]
      BY DEF TypeInv, TypeOK
    <2>2. CASE CentralSchedule(w)
      <3> DEFINE k == DequeueCount(w)
                 a == SubSeq(input[w], 1, k)
                 b == SubSeq(input[w], k + 1, Len(input[w]))
      <3>1. a \in Seq(Resumables) /\ b \in Seq(Resumables)
        BY <2>1, DequeueCountType, ContainsSplit
      <3>2. ready[w] \o a \in Seq(Resumables)
        BY <2>1, <3>1, ConcatProperties
      <3> QED BY <2>1, <2>2, <3>1, <3>2
    <2>3. CASE ~CentralSchedule(w)
      BY <2>1, <2>3 DEF queueVars
    <2> QED BY <2>2, <2>3
  <1>7. TypeOK'
    BY <1>1, <1>2, <1>4, <1>5, <1>6
       DEF TypeInv, TypeOK, spawnVars, parkVars, sleepVars, endVars
  <1> QED BY <1>2, <1>3, <1>7 DEF TypeInv

\* Taking a task off a queue.
LEMMA RunTaskTypeInv ==
  ASSUME TypeInv, NEW w \in Workers, RunPort(w) \/ RunReady(w)
  PROVE  TypeInv'
  <1> USE DEF RunPort, RunReady
  <1>1. UNCHANGED <<spawnVars, parkVars, polled, sleepVars, input, epoll, endVars>>
    OBVIOUS
  <1>2. /\ port' \in [Workers -> Seq(Resumables)]
        /\ ready' \in [Workers -> Seq(Resumables)]
        /\ \E r \in Resumables : current' = [current EXCEPT ![w] = r]
    <2>1. /\ port \in [Workers -> Seq(Resumables)]
          /\ ready \in [Workers -> Seq(Resumables)]
      BY DEF TypeInv, TypeOK
    <2>2. CASE RunPort(w)
      <3>1. Head(port[w]) \in Resumables /\ Tail(port[w]) \in Seq(Resumables)
        BY <2>1, <2>2, HeadTailProperties
      <3> QED BY <2>1, <2>2, <3>1 DEF Popped
    <2>3. CASE RunReady(w)
      <3>1. Head(ready[w]) \in Resumables /\ Tail(ready[w]) \in Seq(Resumables)
        BY <2>1, <2>3, HeadTailProperties
      <3> QED BY <2>1, <2>3, <3>1 DEF Popped
    <2> QED BY <2>2, <2>3
  <1>3. /\ pc' \in [Workers -> PCs]
        /\ current' \in [Workers -> Resumables \cup {None}]
        /\ CurrentOK'
    <2>1. /\ pc \in [Workers -> PCs] /\ CurrentOK
          /\ current \in [Workers -> Resumables \cup {None}]
      BY DEF TypeInv, TypeOK
    <2> QED BY <1>2, <2>1, ResumablesAssumption DEF Goto, PCs, CurrentOK
  <1>4. spins' \in [Workers -> 0 .. SpinsBeforeIdle]
    <2>1. spins \in [Workers -> 0 .. SpinsBeforeIdle]
      BY DEF TypeInv, TypeOK
    <2> QED BY <2>1, ConfigAssumption
  <1>5. CallOK' /\ LagOK'
    BY <1>1 DEF TypeInv, CallOK, LagOK, spawnVars, sleepVars
  <1>6. TypeOK'
    BY <1>1, <1>2, <1>3, <1>4
       DEF TypeInv, TypeOK, spawnVars, parkVars, sleepVars, endVars
  <1> QED BY <1>3, <1>5, <1>6 DEF TypeInv

\* A task yields or returns.
LEMMA YieldTypeInv ==
  ASSUME TypeInv, NEW w \in Workers, TaskYield(w)
  PROVE  TypeInv'
  <1> USE DEF TaskYield, TaskDone, TaskReschedule, TaskShortSleep, TaskSleep,
              TaskAwaitPort
  <1>1. Yields(w) /\ UNCHANGED <<spawnVars, parkVars, spins, polled, input, port>>
    BY DEF queueVars
  <1>2. current[w] \in Resumables
    BY <1>1 DEF TypeInv, TypeOK, CurrentOK, Yields, Goto
  <1>3. /\ pc' \in [Workers -> PCs]
        /\ current' \in [Workers -> Resumables \cup {None}]
        /\ CurrentOK'
    <2>1. /\ pc \in [Workers -> PCs] /\ CurrentOK
          /\ current \in [Workers -> Resumables \cup {None}]
      BY DEF TypeInv, TypeOK
    <2> QED BY <1>1, <2>1 DEF Yields, Goto, PCs, CurrentOK
  <1>4. /\ done' \in SUBSET Resumables /\ leaked' \in SUBSET Resumables
    <2>1. /\ done \in SUBSET Resumables /\ leaked \in SUBSET Resumables
          /\ epoll \in [Workers -> [Fds -> Resumables \cup {None}]]
      BY DEF TypeInv, TypeOK
    <2> QED BY <1>2, <2>1 DEF endVars
  <1>5. ready' \in [Workers -> Seq(Resumables)]
    <2>1. ready \in [Workers -> Seq(Resumables)]
      BY DEF TypeInv, TypeOK
    <2>2. Append(ready[w], current[w]) \in Seq(Resumables)
      BY <1>2, <2>1, AppendProperties
    <2>3. ready' = ready \/ ready' = [ready EXCEPT ![w] = Append(@, current[w])]
      BY DEF queueVars
    <2> QED BY <2>1, <2>2, <2>3
  <1>6. epoll' \in [Workers -> [Fds -> Resumables \cup {None}]]
    <2>1. epoll \in [Workers -> [Fds -> Resumables \cup {None}]]
      BY DEF TypeInv, TypeOK
    <2>2. \/ epoll' = epoll
          \/ \E f \in Fds : epoll' = [epoll EXCEPT ![w][f] = current[w]]
      BY DEF queueVars
    <2> QED BY <1>2, <2>1, <2>2
  <1>7. /\ sleepq' \in [Workers -> SUBSET Resumables]
        /\ wakeup' \in [Resumables -> Int]
        /\ next_item' \in [Workers -> Int]
        /\ LagOK'
    <2>1. /\ sleepq \in [Workers -> SUBSET Resumables]
          /\ wakeup \in [Resumables -> Int]
          /\ next_item \in [Workers -> Int]
          /\ LagOK
      BY DEF TypeInv, TypeOK
    <2>2. CASE UNCHANGED sleepVars
      BY <2>1, <2>2 DEF LagOK, sleepVars
    <2>3. ASSUME NEW d \in Durations, TaskSleep(w, d)
          PROVE  /\ sleepq' \in [Workers -> SUBSET Resumables]
                 /\ wakeup' \in [Resumables -> Int]
                 /\ next_item' \in [Workers -> Int]
                 /\ LagOK'
      <3>1. d \in Nat /\ -MaxLag <= d
        BY TimeAssumption, ConfigAssumption
      <3>2. sleepq' = sleepq \/ sleepq' = [sleepq EXCEPT ![w] = @ \cup {current[w]}]
        BY <2>3
      <3>3. wakeup' = [wakeup EXCEPT ![current[w]] = d]
        BY <2>3
      <3>4. next_item' \in [Workers -> Int]
        BY <2>1, <2>3, <3>1
      <3>5. LagOK'
        BY <1>2, <2>1, <3>1, <3>2, <3>3 DEF LagOK
      <3>6. sleepq' \in [Workers -> SUBSET Resumables]
        BY <1>2, <2>1, <3>2
      <3>7. wakeup' \in [Resumables -> Int]
        <4>1. d \in Int
          BY <3>1
        <4> QED BY ONLY <2>1, <4>1, <3>3
      <3> QED BY <3>4, <3>5, <3>6, <3>7
    <2> QED BY <2>2, <2>3
  <1>8. CallOK'
    BY <1>1 DEF TypeInv, CallOK, spawnVars
  <1>9. TypeOK'
    BY <1>1, <1>3, <1>4, <1>5, <1>6, <1>7 DEF TypeInv, TypeOK, spawnVars, parkVars
  <1> QED BY <1>3, <1>7, <1>8, <1>9 DEF TypeInv

\* The deadline _next_item is brought up to is one of those left, if any.
LEMMA NextItemType ==
  ASSUME TypeInv, NEW w \in Workers, NEW left \in SUBSET sleepq[w]
  PROVE  /\ NextItem(w, left) \in Int
         /\ ~(next_item[w] > 0) /\ left # {} =>
              /\ \E r \in left : NextItem(w, left) = wakeup[r]
              /\ \A r \in left : NextItem(w, left) <= wakeup[r]
  <1> DEFINE T == {wakeup[r] : r \in left}
  <1>1. /\ next_item[w] \in Int /\ Never \in Int
        /\ \A r \in left : wakeup[r] \in Int /\ -MaxLag <= wakeup[r]
    BY TimeAssumption DEF TypeInv, TypeOK, LagOK
  <1>2. ASSUME left # {}
        PROVE  \E t \in T : \A r \in left : t <= wakeup[r]
    <2>1. T # {} /\ T \subseteq Int /\ \A t \in T : -MaxLag <= t
      BY <1>1, <1>2
    <2>2. -MaxLag \in Int
      BY ConfigAssumption
    <2>3. \E m \in T : \A t \in T : m <= t
      <3> HIDE DEF T
      <3> QED BY ONLY <2>1, <2>2, LeastElement
    <2> QED BY <2>3
  <1>3. ASSUME left # {}, ~(next_item[w] > 0)
        PROVE  /\ NextItem(w, left) \in T
               /\ \A r \in left : NextItem(w, left) <= wakeup[r]
    BY <1>2, <1>3 DEF NextItem
  <1>4. NextItem(w, left) \in Int
    BY <1>1, <1>3 DEF NextItem
  <1> QED BY <1>3, <1>4

\* A turn of the poll loop.
LEMMA PollTypeInv ==
  ASSUME TypeInv, NEW w \in Workers, Poll(w)
  PROVE  TypeInv'
  <1>1. UNCHANGED <<spawnVars, parked, state, current, input, endVars>>
    BY DEF Poll
  <1>2. IsFiniteSet(Due(w)) /\ Due(w) \subseteq sleepq[w] /\ Due(w) \subseteq Resumables
    <2>1. Due(w) \subseteq sleepq[w] /\ Due(w) \subseteq Resumables
      BY DEF Due, TypeInv, TypeOK
    <2> QED BY <2>1, ResumablesAssumption, FS_Subset
  <1>3. pc' \in [Workers -> PCs] /\ CurrentOK'
    <2>1. pc \in [Workers -> PCs] /\ CurrentOK
      BY DEF TypeInv, TypeOK
    <2> QED BY <1>1, <2>1 DEF Poll, Goto, PCs, CurrentOK
  <1>4. /\ port' \in [Workers -> Seq(Resumables)]
        /\ epoll' \in [Workers -> [Fds -> Resumables \cup {None}]]
    <2>1. /\ port \in [Workers -> Seq(Resumables)]
          /\ epoll \in [Workers -> [Fds -> Resumables \cup {None}]]
      BY DEF TypeInv, TypeOK
    <2>2. PICK fired \in SUBSET {f \in Fds : epoll[w][f] # None} :
            \E events \in SetToSeqs({epoll[w][f] : f \in fired}) :
              /\ port' = [port EXCEPT ![w] = @ \o events]
              /\ epoll' = [epoll EXCEPT ![w] = Disarmed(@, fired)]
      BY DEF Poll
    <2>3. PICK events \in SetToSeqs({epoll[w][f] : f \in fired}) :
              port' = [port EXCEPT ![w] = @ \o events]
      BY <2>2
    <2>4. {epoll[w][f] : f \in fired} \subseteq Resumables
      BY <2>1
    <2>5. events \in Seq(Resumables)
      <3>1. IsFiniteSet({epoll[w][f] : f \in fired})
        BY <2>4, ResumablesAssumption, FS_Subset
      <3>2. events \in Seq({epoll[w][f] : f \in fired})
        BY <3>1, SetToSeqsContains
      <3> QED BY <3>2, <2>4
    <2>6. port[w] \o events \in Seq(Resumables)
      BY <2>1, <2>5, ConcatProperties
    <2>7. Disarmed(epoll[w], fired) \in [Fds -> Resumables \cup {None}]
      BY <2>1 DEF Disarmed
    <2> QED BY <2>1, <2>2, <2>3, <2>6, <2>7
  <1>5. ready' \in [Workers -> Seq(Resumables)]
    <2>1. ready \in [Workers -> Seq(Resumables)]
      BY DEF TypeInv, TypeOK
    <2>2. PICK s \in SetToSeqs(Due(w)) : ready' = [ready EXCEPT ![w] = @ \o s]
      BY DEF Poll
    <2>3. s \in Seq(Resumables)
      <3>1. s \in Seq(Due(w))
        BY <1>2, SetToSeqsContains
      <3> QED BY <1>2, <3>1
    <2>4. ready[w] \o s \in Seq(Resumables)
      BY <2>1, <2>3, ConcatProperties
    <2> QED BY <2>1, <2>2, <2>4
  <1>6. /\ sleepq' \in [Workers -> SUBSET Resumables]
        /\ wakeup' \in [Resumables -> Int]
        /\ LagOK'
    <2>1. /\ sleepq \in [Workers -> SUBSET Resumables]
          /\ wakeup \in [Resumables -> Int]
          /\ LagOK
      BY DEF TypeInv, TypeOK
    <2>2. /\ sleepq' = [sleepq EXCEPT ![w] = @ \ Due(w)]
          /\ wakeup' = [r \in Resumables |->
                          IF r \in Due(w) THEN Never ELSE wakeup[r]]
      BY DEF Poll
    <2>3. Never \in Int /\ -MaxLag <= Never
      BY TimeAssumption, ConfigAssumption
    <2> QED BY <2>1, <2>2, <2>3 DEF LagOK
  <1>7. next_item' \in [Workers -> Int]
    <2>1. next_item' = [next_item EXCEPT ![w] = NextItem(w, sleepq[w] \ Due(w))]
      BY DEF Poll
    <2>2. NextItem(w, sleepq[w] \ Due(w)) \in Int
      BY NextItemType
    <2>3. next_item \in [Workers -> Int]
      BY DEF TypeInv, TypeOK
    <2> QED BY <2>1, <2>2, <2>3
  <1>8. /\ spins' \in [Workers -> 0 .. SpinsBeforeIdle]
        /\ polled' \in [Workers -> BOOLEAN]
        /\ wake' \in [Workers -> BOOLEAN]
    <2>1. /\ spins \in [Workers -> 0 .. SpinsBeforeIdle]
          /\ polled \in [Workers -> BOOLEAN]
          /\ wake \in [Workers -> BOOLEAN]
      BY DEF TypeInv, TypeOK
    <2>2. SpinsAfterPoll(port'[w], ready'[w], spins[w]) \in 0 .. SpinsBeforeIdle
      BY <2>1, ConfigAssumption DEF SpinsAfterPoll
    <2> QED BY <2>1, <2>2 DEF Poll
  <1>9. CallOK'
    BY <1>1 DEF TypeInv, CallOK, spawnVars
  <1>10. TypeOK'
    BY <1>1, <1>3, <1>4, <1>5, <1>6, <1>7, <1>8
       DEF TypeInv, TypeOK, spawnVars, endVars
  <1> QED BY <1>3, <1>6, <1>9, <1>10 DEF TypeInv

\* Every step keeps the strengthened type invariant.
LEMMA NextTypeInv ==
  ASSUME TypeInv, [Next]_vars
  PROVE  TypeInv'
  <1>1. CASE UNCHANGED vars
    BY <1>1 DEF vars, spawnVars, parkVars, workVars, sleepVars, queueVars,
                endVars, TypeInv, TypeOK, CallOK, CurrentOK, LagOK
  <1>2. CASE Next
    BY <1>2, EnqueueTypeInv, ParkTypeInv, TickTypeInv, ScheduleTypeInv,
       RunTaskTypeInv, YieldTypeInv, PollTypeInv DEF Next, Run
  <1> QED BY <1>1, <1>2

\* The scheduler keeps every variable within its type: a queue only ever holds
\* resumables, whatever the interleaving of workers and spawning threads.
THEOREM TypeCorrect == Spec => []TypeOK
  <1>1. Spec => []TypeInv
    BY InitTypeInv, NextTypeInv, PTL DEF Spec
  <1>2. TypeInv => TypeOK
    BY DEF TypeInv
  <1> QED BY <1>1, <1>2, PTL

----------------------------------------------------------------------------
(***************************************************************************)
(* Ownership.                                                              *)
(***************************************************************************)

\* r is held by owner q and by nobody else, spelled out per kind of owner.
At(r, q) ==
  /\ \A t \in Threads : call[t].job = r <=> q = <<"job", t>>
  /\ \A w \in Workers : Contains(input[w], r) <=> q = <<"input", w>>
  /\ \A w \in Workers : Contains(ready[w], r) <=> q = <<"ready", w>>
  /\ \A w \in Workers : Contains(port[w], r) <=> q = <<"port", w>>
  /\ \A w \in Workers : r \in sleepq[w] <=> q = <<"sleep", w>>
  /\ \A w \in Workers : (\E f \in Fds : epoll[w][f] = r) <=> q = <<"epoll", w>>
  /\ \A w \in Workers : current[w] = r <=> q = <<"current", w>>
  /\ r \in fresh <=> q = <<"fresh", None>>
  /\ r \in done <=> q = <<"done", None>>
  /\ r \in leaked <=> q = <<"leaked", None>>

\* The kinds of owner there are.
LEMMA OwnerKinds ==
  ASSUME NEW q
  PROVE  q \in Owners <=>
         \/ \E t \in Threads : q = <<"job", t>>
         \/ \E w \in Workers : q = <<"input", w>>
         \/ \E w \in Workers : q = <<"ready", w>>
         \/ \E w \in Workers : q = <<"port", w>>
         \/ \E w \in Workers : q = <<"sleep", w>>
         \/ \E w \in Workers : q = <<"epoll", w>>
         \/ \E w \in Workers : q = <<"current", w>>
         \/ q = <<"fresh", None>> \/ q = <<"done", None>> \/ q = <<"leaked", None>>
  BY DEF Owners

\* What it means for each kind of owner to hold a resumable.
LEMMA HoldsKinds ==
  ASSUME NEW r, NEW a
  PROVE  /\ Holds(<<"job", a>>, r)     <=> call[a].job = r
         /\ Holds(<<"input", a>>, r)   <=> Contains(input[a], r)
         /\ Holds(<<"ready", a>>, r)   <=> Contains(ready[a], r)
         /\ Holds(<<"port", a>>, r)    <=> Contains(port[a], r)
         /\ Holds(<<"sleep", a>>, r)   <=> r \in sleepq[a]
         /\ Holds(<<"epoll", a>>, r)   <=> \E f \in Fds : epoll[a][f] = r
         /\ Holds(<<"current", a>>, r) <=> current[a] = r
         /\ Holds(<<"fresh", a>>, r)   <=> r \in fresh
         /\ Holds(<<"done", a>>, r)    <=> r \in done
         /\ Holds(<<"leaked", a>>, r)  <=> r \in leaked
  BY DEF Holds

\* At says of every owner whether it holds r.
LEMMA AtHolds ==
  ASSUME NEW r, NEW q
  PROVE  At(r, q) <=> \A p \in Owners : Holds(p, r) <=> p = q
  <1> DEFINE H(p) == Holds(p, r) <=> p = q
  <1>1. /\ \A t \in Threads : <<"job", t>> \in Owners
        /\ \A w \in Workers : <<"input", w>> \in Owners
        /\ \A w \in Workers : <<"ready", w>> \in Owners
        /\ \A w \in Workers : <<"port", w>> \in Owners
        /\ \A w \in Workers : <<"sleep", w>> \in Owners
        /\ \A w \in Workers : <<"epoll", w>> \in Owners
        /\ \A w \in Workers : <<"current", w>> \in Owners
        /\ <<"fresh", None>> \in Owners
        /\ <<"done", None>> \in Owners
        /\ <<"leaked", None>> \in Owners
    BY OwnerKinds
  <1>2. At(r, q) <=> /\ \A t \in Threads : H(<<"job", t>>)
                     /\ \A w \in Workers : H(<<"input", w>>)
                     /\ \A w \in Workers : H(<<"ready", w>>)
                     /\ \A w \in Workers : H(<<"port", w>>)
                     /\ \A w \in Workers : H(<<"sleep", w>>)
                     /\ \A w \in Workers : H(<<"epoll", w>>)
                     /\ \A w \in Workers : H(<<"current", w>>)
                     /\ H(<<"fresh", None>>)
                     /\ H(<<"done", None>>)
                     /\ H(<<"leaked", None>>)
    <2>1. /\ \A t : H(<<"job", t>>) <=> (call[t].job = r <=> q = <<"job", t>>)
          /\ \A w : H(<<"input", w>>) <=> (Contains(input[w], r) <=> q = <<"input", w>>)
          /\ \A w : H(<<"ready", w>>) <=> (Contains(ready[w], r) <=> q = <<"ready", w>>)
          /\ \A w : H(<<"port", w>>) <=> (Contains(port[w], r) <=> q = <<"port", w>>)
          /\ \A w : H(<<"sleep", w>>) <=> (r \in sleepq[w] <=> q = <<"sleep", w>>)
          /\ \A w : H(<<"epoll", w>>) <=>
                      ((\E f \in Fds : epoll[w][f] = r) <=> q = <<"epoll", w>>)
          /\ \A w : H(<<"current", w>>) <=> (current[w] = r <=> q = <<"current", w>>)
          /\ H(<<"fresh", None>>) <=> (r \in fresh <=> q = <<"fresh", None>>)
          /\ H(<<"done", None>>) <=> (r \in done <=> q = <<"done", None>>)
          /\ H(<<"leaked", None>>) <=> (r \in leaked <=> q = <<"leaked", None>>)
      BY HoldsKinds
    <2> HIDE DEF H
    <2> QED BY <2>1, Zenon DEF At
  <1> HIDE DEF H
  <1>3. (\A p \in Owners : H(p)) <=>
                     /\ \A t \in Threads : H(<<"job", t>>)
                     /\ \A w \in Workers : H(<<"input", w>>)
                     /\ \A w \in Workers : H(<<"ready", w>>)
                     /\ \A w \in Workers : H(<<"port", w>>)
                     /\ \A w \in Workers : H(<<"sleep", w>>)
                     /\ \A w \in Workers : H(<<"epoll", w>>)
                     /\ \A w \in Workers : H(<<"current", w>>)
                     /\ H(<<"fresh", None>>)
                     /\ H(<<"done", None>>)
                     /\ H(<<"leaked", None>>)
    BY <1>1, OwnerKinds, Zenon
  <1>4. At(r, q) <=> \A p \in Owners : H(p)
    BY <1>2, <1>3
  <1> QED BY <1>4 DEF H

\* Every resumable has its owner.
Located == \A r \in Resumables : \E q \in Owners : At(r, q)

LEMMA LocatedOneOwner == Located <=> OneOwner
  BY AtHolds DEF Located, OneOwner

\* What an owner's resumable is to the life cycle.
OwnerStage(q) ==
  CASE q[1] = "job" -> "spawning"
    [] q[1] \in {"input", "ready", "port"} -> "queued"
    [] q[1] \in {"sleep", "epoll"} -> "blocked"
    [] q[1] = "current" -> "running"
    [] q[1] = "fresh" -> "new"
    [] q[1] = "done" -> "done"
    [] q[1] = "leaked" -> "lost"

\* A step may pass a resumable from q to p.
Legal(q, p) ==
  \/ OwnerStage(q) = OwnerStage(p)
  \/ <<OwnerStage(q), OwnerStage(p)>> \in LC!Moves

\* Each resumable stays with its owner or is passed on along the life cycle.
Moved ==
  \A r \in Resumables : \E q, p \in Owners : At(r, q) /\ At(r, p)' /\ Legal(q, p)

\* The stages of the owners.
LEMMA Stages ==
  /\ \A t : OwnerStage(<<"job", t>>) = "spawning"
  /\ \A w : OwnerStage(<<"input", w>>) = "queued"
  /\ \A w : OwnerStage(<<"ready", w>>) = "queued"
  /\ \A w : OwnerStage(<<"port", w>>) = "queued"
  /\ \A w : OwnerStage(<<"sleep", w>>) = "blocked"
  /\ \A w : OwnerStage(<<"epoll", w>>) = "blocked"
  /\ \A w : OwnerStage(<<"current", w>>) = "running"
  /\ \A w : OwnerStage(<<"fresh", w>>) = "new"
  /\ \A w : OwnerStage(<<"done", w>>) = "done"
  /\ \A w : OwnerStage(<<"leaked", w>>) = "lost"
  BY DEF OwnerStage

\* The moves the scheduler makes.
LEMMA LegalMoves ==
  /\ \A q : Legal(q, q)
  /\ \A a, t : Legal(<<"fresh", a>>, <<"job", t>>)
  /\ \A t, w : Legal(<<"job", t>>, <<"input", w>>)
  /\ \A v, w : Legal(<<"input", v>>, <<"ready", w>>)
  /\ \A v, w : Legal(<<"epoll", v>>, <<"port", w>>)
  /\ \A v, w : Legal(<<"epoll", v>>, <<"leaked", w>>)
  /\ \A v, w : Legal(<<"sleep", v>>, <<"ready", w>>)
  /\ \A v, w : Legal(<<"port", v>>, <<"current", w>>)
  /\ \A v, w : Legal(<<"ready", v>>, <<"current", w>>)
  /\ \A v, w : Legal(<<"current", v>>, <<"done", w>>)
  /\ \A v, w : Legal(<<"current", v>>, <<"ready", w>>)
  /\ \A v, w : Legal(<<"current", v>>, <<"sleep", w>>)
  /\ \A v, w : Legal(<<"current", v>>, <<"epoll", w>>)
  /\ \A v, w : Legal(<<"current", v>>, <<"leaked", w>>)
  BY Stages DEF Legal, LC!Moves

\* One resumable is passed on, the others stay.
LEMMA OneMoves ==
  ASSUME Located, NEW r \in Resumables, NEW q \in Owners, NEW p \in Owners,
         At(r, q), At(r, p)', Legal(q, p),
         \A x \in Resumables \ {r} : \A o \in Owners : At(x, o) => At(x, o)'
  PROVE  Moved
  <1> SUFFICES ASSUME NEW x \in Resumables
               PROVE  \E a, b \in Owners : At(x, a) /\ At(x, b)' /\ Legal(a, b)
    BY DEF Moved
  <1>1. CASE x = r
    BY <1>1
  <1>2. CASE x # r
    <2>1. PICK a \in Owners : At(x, a)
      BY DEF Located
    <2>2. At(x, a)' /\ Legal(a, a)
      BY <1>2, <2>1, LegalMoves
    <2> QED BY <2>1, <2>2
  <1> QED BY <1>1, <1>2

\* A step that moves no resumable.
LEMMA NothingMoves ==
  ASSUME Located, HeldOnce,
         \A t \in Threads : call'[t].job = call[t].job,
         UNCHANGED <<fresh, queueVars, sleepq, current, endVars>>
  PROVE  Moved /\ HeldOnce'
  <1>1. ASSUME NEW x \in Resumables, NEW q \in Owners, At(x, q)
        PROVE  At(x, q)'
    BY <1>1 DEF At, queueVars, endVars
  <1>2. Moved
    BY <1>1, LegalMoves DEF Located, Moved
  <1> QED BY <1>2 DEF HeldOnce, queueVars, endVars

\* spawn takes a builder out of its caller's hands.
LEMMA SpawnMoves ==
  ASSUME TypeInv, Located, HeldOnce,
         NEW t \in Threads, NEW r \in Resumables, Spawn(t, r)
  PROVE  Moved /\ HeldOnce'
  <1>1. /\ r \in fresh /\ call[t].job = None
        /\ \A a \in Threads : call'[a].job = IF a = t THEN r ELSE call[a].job
        /\ fresh' = fresh \ {r}
        /\ UNCHANGED <<queueVars, sleepq, current, endVars>>
    BY ResumablesAssumption
       DEF Spawn, MaySpawn, NoCall, TypeInv, TypeOK, CallOK, Calls, workVars, sleepVars
  <1>2. At(r, <<"fresh", None>>)
    BY <1>1 DEF Located, At
  <1>3. At(r, <<"job", t>>)'
    BY <1>1, <1>2 DEF At, queueVars, endVars
  <1>4. ASSUME NEW x \in Resumables \ {r}, NEW q \in Owners, At(x, q)
        PROVE  At(x, q)'
    BY <1>1, <1>4, ResumablesAssumption DEF At, queueVars, endVars
  <1>5. /\ <<"fresh", None>> \in Owners /\ <<"job", t>> \in Owners
        /\ Legal(<<"fresh", None>>, <<"job", t>>)
    BY OwnerKinds, LegalMoves
  <1>6. Moved
    BY <1>2, <1>3, <1>4, <1>5, OneMoves
  <1> QED BY <1>1, <1>6 DEF HeldOnce, queueVars

\* central_enqueue passes the builder to the input queue.
LEMMA PushMoves ==
  ASSUME TypeInv, Located, HeldOnce, NEW t \in Threads, PushInput(t)
  PROVE  Moved /\ HeldOnce'
  <1>1. PICK r \in Resumables, v \in Workers : r = call[t].job /\ v = call[t].target
    BY DEF TypeInv, TypeOK, CallOK, Calls, PushInput
  <1>2. /\ \A a \in Threads : call'[a].job = IF a = t THEN None ELSE call[a].job
        /\ UNCHANGED <<fresh, ready, port, epoll, sleepq, current, endVars>>
    BY DEF PushInput, TypeInv, TypeOK, Calls, workVars, sleepVars
  <1>3. /\ input \in [Workers -> Seq(Resumables)]
        /\ input' = [input EXCEPT ![v] = Append(@, r)]
    BY <1>1 DEF PushInput, TypeInv, TypeOK
  <1>4. At(r, <<"job", t>>)
    BY <1>1 DEF Located, At
  <1>5. ~Contains(input[v], r)
    BY <1>1, <1>4 DEF At
  <1>6. /\ \A x : Contains(input'[v], x) <=> (Contains(input[v], x) \/ x = r)
        /\ \A w \in Workers \ {v} : input'[w] = input[w]
        /\ IsInjective(input[v]) => IsInjective(input'[v])
    <2>1. input[v] \in Seq(Resumables) /\ input'[v] = Append(input[v], r)
      BY <1>1, <1>3
    <2> QED BY <1>1, <1>3, <1>5, <2>1, ContainsAppend
  <1>7. At(r, <<"input", v>>)'
    BY <1>1, <1>2, <1>4, <1>6, ResumablesAssumption DEF At, endVars
  <1>8. ASSUME NEW x \in Resumables \ {r}, NEW q \in Owners, At(x, q)
        PROVE  At(x, q)'
    <2>1. \A a \in Threads : call'[a].job = x <=> call[a].job = x
      BY <1>1, <1>2, ResumablesAssumption
    <2>2. \A w \in Workers : Contains(input'[w], x) <=> Contains(input[w], x)
      BY <1>6
    <2> QED BY <1>2, <1>8, <2>1, <2>2 DEF At, endVars
  <1>9. /\ <<"job", t>> \in Owners /\ <<"input", v>> \in Owners
        /\ Legal(<<"job", t>>, <<"input", v>>)
    BY <1>1, OwnerKinds, LegalMoves
  <1>10. HeldOnce'
    BY <1>2, <1>6 DEF HeldOnce
  <1> QED BY <1>1, <1>4, <1>7, <1>8, <1>9, <1>10, OneMoves

\* An event that fires while the worker is parked.
LEMMA EventMoves ==
  ASSUME TypeInv, Located, HeldOnce,
         NEW w \in Workers, NEW f \in Fds, BlockingPollEvent(w, f)
  PROVE  Moved /\ HeldOnce'
  <1>0. PICK r \in Resumables : r = epoll[w][f]
    BY DEF TypeInv, TypeOK, BlockingPollEvent
  <1>1. /\ port \in [Workers -> Seq(Resumables)]
        /\ epoll \in [Workers -> [Fds -> Resumables \cup {None}]]
    BY DEF TypeInv, TypeOK
  <1>2. /\ port' = [port EXCEPT ![w] = Append(@, r)]
        /\ epoll' = [epoll EXCEPT ![w] = Disarmed(@, {f})]
        /\ UNCHANGED <<fresh, call, input, ready, sleepq, current, endVars>>
    BY <1>0 DEF BlockingPollEvent, spawnVars, sleepVars
  <1>3. At(r, <<"epoll", w>>)
    BY <1>0 DEF Located, At
  <1>4. ~Contains(port[w], r)
    BY <1>3 DEF At
  <1>5. /\ \A g \in Fds : epoll'[w][g] = IF g = f THEN None ELSE epoll[w][g]
        /\ \A v \in Workers \ {w} : epoll'[v] = epoll[v]
    BY <1>1, <1>2 DEF Disarmed
  <1>6. \A g \in Fds : epoll[w][g] = r => g = f
    BY <1>0, ResumablesAssumption DEF HeldOnce
  <1>7. /\ \A x : Contains(port'[w], x) <=> (Contains(port[w], x) \/ x = r)
        /\ \A v \in Workers \ {w} : port'[v] = port[v]
        /\ IsInjective(port[w]) => IsInjective(port'[w])
    <2>1. port[w] \in Seq(Resumables) /\ port'[w] = Append(port[w], r)
      BY <1>1, <1>2
    <2> QED BY <1>1, <1>2, <1>4, <2>1, ContainsAppend
  <1>8. At(r, <<"port", w>>)'
    <2>2. \A g \in Fds : epoll'[w][g] # r
      BY <1>5, <1>6, ResumablesAssumption
    <2>3. \A v \in Workers \ {w} : ~\E g \in Fds : epoll[v][g] = r
      BY <1>3 DEF At
    <2>1. \A v \in Workers : ~\E g \in Fds : epoll'[v][g] = r
      BY <1>5, <2>2, <2>3
    <2> QED BY <1>2, <1>3, <1>7, <2>1 DEF At, endVars
  <1>9. ASSUME NEW x \in Resumables \ {r}, NEW q \in Owners, At(x, q)
        PROVE  At(x, q)'
    <2>1. \A v \in Workers : (\E g \in Fds : epoll'[v][g] = x)
                               <=> (\E g \in Fds : epoll[v][g] = x)
      BY <1>0, <1>5, ResumablesAssumption
    <2>2. \A v \in Workers : Contains(port'[v], x) <=> Contains(port[v], x)
      BY <1>7
    <2> QED BY <1>2, <1>9, <2>1, <2>2 DEF At, endVars
  <1>10. /\ <<"epoll", w>> \in Owners /\ <<"port", w>> \in Owners
         /\ Legal(<<"epoll", w>>, <<"port", w>>)
    BY OwnerKinds, LegalMoves
  <1>11. HeldOnce'
    <2>1. \A v \in Workers : IsInjective(input'[v]) /\ IsInjective(ready'[v]) /\ IsInjective(port'[v])
      BY <1>2, <1>7 DEF HeldOnce
    <2>2. \A v \in Workers : \A g, h \in Fds :
            epoll'[v][g] = epoll'[v][h] => g = h \/ epoll'[v][g] = None
      BY <1>5 DEF HeldOnce
    <2> QED BY <2>1, <2>2 DEF HeldOnce
  <1> QED BY <1>0, <1>3, <1>8, <1>9, <1>10, <1>11, OneMoves

\* _run_task_from_queue takes the front of the port queue.
LEMMA RunPortMoves ==
  ASSUME TypeInv, Located, HeldOnce, NEW w \in Workers, RunPort(w)
  PROVE  Moved /\ HeldOnce'
  <1>1. /\ port \in [Workers -> Seq(Resumables)]
        /\ current \in [Workers -> Resumables \cup {None}]
        /\ current[w] = None
    BY DEF TypeInv, TypeOK, CurrentOK, RunPort, Goto
  <1>2. port[w] # << >> /\ IsInjective(port[w])
    BY DEF RunPort, HeldOnce
  <1>3. PICK r \in Resumables : r = Head(port[w])
    BY <1>1, <1>2, ContainsTail
  <1>4. /\ Contains(port[w], r)
        /\ \A x : Contains(port'[w], x) <=> (Contains(port[w], x) /\ x # r)
        /\ \A v \in Workers \ {w} : port'[v] = port[v]
        /\ IsInjective(port'[w])
    <2>1. port[w] \in Seq(Resumables) /\ port'[w] = Tail(port[w])
          /\ \A v \in Workers \ {w} : port'[v] = port[v]
      BY <1>1 DEF RunPort, Popped
    <2> QED BY <1>2, <1>3, <2>1, ContainsTail
  <1>5. /\ \A v \in Workers : current'[v] = IF v = w THEN r ELSE current[v]
        /\ UNCHANGED <<fresh, call, input, ready, epoll, sleepq, endVars>>
    BY <1>1, <1>3 DEF RunPort, spawnVars, sleepVars
  <1>6. At(r, <<"port", w>>)
    BY <1>4 DEF Located, At
  <1>7. At(r, <<"current", w>>)'
    BY <1>4, <1>5, <1>6 DEF At, endVars
  <1>8. ASSUME NEW x \in Resumables \ {r}, NEW q \in Owners, At(x, q)
        PROVE  At(x, q)'
    <2>1. \A v \in Workers : Contains(port'[v], x) <=> Contains(port[v], x)
      BY <1>4
    <2>2. \A v \in Workers : current'[v] = x <=> current[v] = x
      BY <1>1, <1>5, ResumablesAssumption
    <2> QED BY <1>5, <1>8, <2>1, <2>2 DEF At, endVars
  <1>9. /\ <<"port", w>> \in Owners /\ <<"current", w>> \in Owners
        /\ Legal(<<"port", w>>, <<"current", w>>)
    BY OwnerKinds, LegalMoves
  <1>10. HeldOnce'
    BY <1>4, <1>5 DEF HeldOnce
  <1> QED BY <1>3, <1>6, <1>7, <1>8, <1>9, <1>10, OneMoves

\* _run_task_from_queue takes the front of the ready queue.
LEMMA RunReadyMoves ==
  ASSUME TypeInv, Located, HeldOnce, NEW w \in Workers, RunReady(w)
  PROVE  Moved /\ HeldOnce'
  <1>1. /\ ready \in [Workers -> Seq(Resumables)]
        /\ current \in [Workers -> Resumables \cup {None}]
        /\ current[w] = None
    BY DEF TypeInv, TypeOK, CurrentOK, RunReady, Goto
  <1>2. ready[w] # << >> /\ IsInjective(ready[w])
    BY DEF RunReady, HeldOnce
  <1>3. PICK r \in Resumables : r = Head(ready[w])
    BY <1>1, <1>2, ContainsTail
  <1>4. /\ Contains(ready[w], r)
        /\ \A x : Contains(ready'[w], x) <=> (Contains(ready[w], x) /\ x # r)
        /\ \A v \in Workers \ {w} : ready'[v] = ready[v]
        /\ IsInjective(ready'[w])
    <2>1. ready[w] \in Seq(Resumables) /\ ready'[w] = Tail(ready[w])
          /\ \A v \in Workers \ {w} : ready'[v] = ready[v]
      BY <1>1 DEF RunReady, Popped
    <2> QED BY <1>2, <1>3, <2>1, ContainsTail
  <1>5. /\ \A v \in Workers : current'[v] = IF v = w THEN r ELSE current[v]
        /\ UNCHANGED <<fresh, call, input, port, epoll, sleepq, endVars>>
    BY <1>1, <1>3 DEF RunReady, spawnVars, sleepVars
  <1>6. At(r, <<"ready", w>>)
    BY <1>4 DEF Located, At
  <1>7. At(r, <<"current", w>>)'
    BY <1>4, <1>5, <1>6 DEF At, endVars
  <1>8. ASSUME NEW x \in Resumables \ {r}, NEW q \in Owners, At(x, q)
        PROVE  At(x, q)'
    <2>1. \A v \in Workers : Contains(ready'[v], x) <=> Contains(ready[v], x)
      BY <1>4
    <2>2. \A v \in Workers : current'[v] = x <=> current[v] = x
      BY <1>1, <1>5, ResumablesAssumption
    <2> QED BY <1>5, <1>8, <2>1, <2>2 DEF At, endVars
  <1>9. /\ <<"ready", w>> \in Owners /\ <<"current", w>> \in Owners
        /\ Legal(<<"ready", w>>, <<"current", w>>)
    BY OwnerKinds, LegalMoves
  <1>10. HeldOnce'
    BY <1>4, <1>5 DEF HeldOnce
  <1> QED BY <1>3, <1>6, <1>7, <1>8, <1>9, <1>10, OneMoves

\* A task is finished with: resume has returned, current is reset and the
\* resumable is about to be handed on.
LEMMA YieldedOwner ==
  ASSUME TypeInv, Located, NEW w \in Workers, Yields(w)
  PROVE  /\ current[w] \in Resumables
         /\ At(current[w], <<"current", w>>)
         /\ \A v \in Workers : current'[v] = IF v = w THEN None ELSE current[v]
  <1>1. /\ current[w] \in Resumables
        /\ \A v \in Workers : current'[v] = IF v = w THEN None ELSE current[v]
    BY DEF TypeInv, TypeOK, CurrentOK, Yields, Goto
  <1> QED BY <1>1 DEF Located, At

LEMMA DoneMoves ==
  ASSUME TypeInv, Located, HeldOnce, NEW w \in Workers, TaskDone(w)
  PROVE  Moved /\ HeldOnce'
  <1>1. PICK r \in Resumables : r = current[w]
    BY YieldedOwner DEF TaskDone
  <1>2. /\ At(r, <<"current", w>>)
        /\ \A v \in Workers : current'[v] = IF v = w THEN None ELSE current[v]
    BY <1>1, YieldedOwner DEF TaskDone
  <1>3. /\ done' = done \cup {r}
        /\ UNCHANGED <<fresh, call, queueVars, sleepq, leaked>>
    BY <1>1 DEF TaskDone, spawnVars, sleepVars
  <1>4. At(r, <<"done", None>>)'
    BY <1>2, <1>3, ResumablesAssumption DEF At, queueVars
  <1>5. ASSUME NEW x \in Resumables \ {r}, NEW q \in Owners, At(x, q)
        PROVE  At(x, q)'
    <2>1. \A v \in Workers : current'[v] = x <=> current[v] = x
      BY <1>1, <1>2, ResumablesAssumption
    <2> QED BY <1>3, <1>5, <2>1 DEF At, queueVars
  <1>6. /\ <<"current", w>> \in Owners /\ <<"done", None>> \in Owners
        /\ Legal(<<"current", w>>, <<"done", None>>)
    BY OwnerKinds, LegalMoves
  <1>7. Moved
    BY <1>1, <1>2, <1>4, <1>5, <1>6, OneMoves
  <1> QED BY <1>3, <1>7 DEF HeldOnce, queueVars

LEMMA RescheduleMoves ==
  ASSUME TypeInv, Located, HeldOnce, NEW w \in Workers, TaskReschedule(w)
  PROVE  Moved /\ HeldOnce'
  <1>1. PICK r \in Resumables : r = current[w]
    BY YieldedOwner DEF TaskReschedule
  <1>2. /\ At(r, <<"current", w>>)
        /\ \A v \in Workers : current'[v] = IF v = w THEN None ELSE current[v]
    BY <1>1, YieldedOwner DEF TaskReschedule
  <1>3. UNCHANGED <<fresh, call, input, port, epoll, sleepq, endVars>>
    BY DEF TaskReschedule, spawnVars, sleepVars
  <1>4. /\ \A x : Contains(ready'[w], x) <=> (Contains(ready[w], x) \/ x = r)
        /\ \A v \in Workers \ {w} : ready'[v] = ready[v]
        /\ IsInjective(ready[w]) => IsInjective(ready'[w])
    <2>1. ready \in [Workers -> Seq(Resumables)]
      BY DEF TypeInv, TypeOK
    <2>2. ready' = [ready EXCEPT ![w] = Append(@, r)]
      BY <1>1 DEF TaskReschedule
    <2>3. ready[w] \in Seq(Resumables) /\ ready'[w] = Append(ready[w], r)
      BY <2>1, <2>2
    <2>4. ~Contains(ready[w], r)
      BY <1>2 DEF At
    <2> QED BY <2>1, <2>2, <2>3, <2>4, ContainsAppend
  <1>5. At(r, <<"ready", w>>)'
    BY <1>2, <1>3, <1>4, ResumablesAssumption DEF At, endVars
  <1>6. ASSUME NEW x \in Resumables \ {r}, NEW q \in Owners, At(x, q)
        PROVE  At(x, q)'
    <2>1. \A v \in Workers : current'[v] = x <=> current[v] = x
      BY <1>1, <1>2, ResumablesAssumption
    <2>2. \A v \in Workers : Contains(ready'[v], x) <=> Contains(ready[v], x)
      BY <1>4
    <2> QED BY <1>3, <1>6, <2>1, <2>2 DEF At, endVars
  <1>7. /\ <<"current", w>> \in Owners /\ <<"ready", w>> \in Owners
        /\ Legal(<<"current", w>>, <<"ready", w>>)
    BY OwnerKinds, LegalMoves
  <1>8. HeldOnce'
    BY <1>3, <1>4 DEF HeldOnce
  <1> QED BY <1>1, <1>2, <1>5, <1>6, <1>7, <1>8, OneMoves

LEMMA SleepMoves ==
  ASSUME TypeInv, Located, HeldOnce,
         NEW w \in Workers, NEW d \in Durations, TaskSleep(w, d)
  PROVE  Moved /\ HeldOnce'
  <1>1. PICK r \in Resumables : r = current[w]
    BY YieldedOwner DEF TaskSleep
  <1>2. /\ At(r, <<"current", w>>)
        /\ \A v \in Workers : current'[v] = IF v = w THEN None ELSE current[v]
    BY <1>1, YieldedOwner DEF TaskSleep
  <1>3. UNCHANGED <<fresh, call, queueVars, done>>
    BY DEF TaskSleep, spawnVars
  <1>4. \A x \in Resumables \ {r} : \A v \in Workers : current'[v] = x <=> current[v] = x
    BY <1>1, <1>2, ResumablesAssumption
  <1>5. sleepq \in [Workers -> SUBSET Resumables]
    BY DEF TypeInv, TypeOK
  <1>6. CASE \E q \in sleepq[w] : wakeup[q] = d
    <2>1. leaked' = leaked \cup {r} /\ UNCHANGED sleepq
      BY <1>1, <1>6 DEF TaskSleep
    <2>2. At(r, <<"leaked", None>>)'
      BY <1>2, <1>3, <2>1, ResumablesAssumption DEF At, queueVars
    <2>3. ASSUME NEW x \in Resumables \ {r}, NEW q \in Owners, At(x, q)
          PROVE  At(x, q)'
      BY <1>3, <1>4, <2>1, <2>3 DEF At, queueVars
    <2>4. /\ <<"current", w>> \in Owners /\ <<"leaked", None>> \in Owners
          /\ Legal(<<"current", w>>, <<"leaked", None>>)
      BY OwnerKinds, LegalMoves
    <2>5. Moved
      BY <1>1, <1>2, <2>2, <2>3, <2>4, OneMoves
    <2> QED BY <1>3, <2>5 DEF HeldOnce, queueVars
  <1>7. CASE ~\E q \in sleepq[w] : wakeup[q] = d
    <2>1. /\ \A v \in Workers : sleepq'[v] = IF v = w THEN sleepq[v] \cup {r}
                                             ELSE sleepq[v]
          /\ UNCHANGED leaked
      BY <1>1, <1>5, <1>7 DEF TaskSleep
    <2>2. At(r, <<"sleep", w>>)'
      BY <1>2, <1>3, <2>1, ResumablesAssumption DEF At, queueVars
    <2>3. ASSUME NEW x \in Resumables \ {r}, NEW q \in Owners, At(x, q)
          PROVE  At(x, q)'
      <3>1. \A v \in Workers : x \in sleepq'[v] <=> x \in sleepq[v]
        BY <2>1
      <3> QED BY <1>3, <1>4, <2>1, <2>3, <3>1 DEF At, queueVars
    <2>4. /\ <<"current", w>> \in Owners /\ <<"sleep", w>> \in Owners
          /\ Legal(<<"current", w>>, <<"sleep", w>>)
      BY OwnerKinds, LegalMoves
    <2>5. Moved
      BY <1>1, <1>2, <2>2, <2>3, <2>4, OneMoves
    <2> QED BY <1>3, <2>5 DEF HeldOnce, queueVars
  <1> QED BY <1>6, <1>7

\* A registration takes the place of the one the poller had for the fd.
LEMMA AwaitMoves ==
  ASSUME TypeInv, Located, HeldOnce,
         NEW w \in Workers, NEW f \in Fds, TaskAwaitPort(w, f)
  PROVE  Moved /\ HeldOnce'
  <1>1. PICK r \in Resumables : r = current[w]
    BY YieldedOwner DEF TaskAwaitPort
  <1>2. /\ At(r, <<"current", w>>)
        /\ \A v \in Workers : current'[v] = IF v = w THEN None ELSE current[v]
    BY <1>1, YieldedOwner DEF TaskAwaitPort
  <1>3. UNCHANGED <<fresh, call, input, ready, port, sleepq, done>>
    BY DEF TaskAwaitPort, spawnVars, sleepVars
  <1>4. \A x \in Resumables \ {r} : \A v \in Workers : current'[v] = x <=> current[v] = x
    BY <1>1, <1>2, ResumablesAssumption
  <1>5. epoll \in [Workers -> [Fds -> Resumables \cup {None}]]
    BY DEF TypeInv, TypeOK
  <1>6. CASE f \in ClosedFds
    <2>1. leaked' = leaked \cup {r} /\ UNCHANGED epoll
      BY <1>1, <1>6 DEF TaskAwaitPort
    <2>2. At(r, <<"leaked", None>>)'
      BY <1>2, <1>3, <2>1, ResumablesAssumption DEF At
    <2>3. ASSUME NEW x \in Resumables \ {r}, NEW q \in Owners, At(x, q)
          PROVE  At(x, q)'
      BY <1>3, <1>4, <2>1, <2>3 DEF At
    <2>4. /\ <<"current", w>> \in Owners /\ <<"leaked", None>> \in Owners
          /\ Legal(<<"current", w>>, <<"leaked", None>>)
      BY OwnerKinds, LegalMoves
    <2>5. Moved
      BY <1>1, <1>2, <2>2, <2>3, <2>4, OneMoves
    <2> QED BY <1>3, <2>1, <2>5 DEF HeldOnce
  <1>7. CASE f \notin ClosedFds
    <2>1. PICK o \in Resumables \cup {None} : o = epoll[w][f]
      BY <1>5
    <2>2. /\ \A g \in Fds : epoll'[w][g] = IF g = f THEN r ELSE epoll[w][g]
          /\ \A v \in Workers \ {w} : epoll'[v] = epoll[v]
          /\ leaked' = leaked \cup ({o} \ {None})
      BY <1>1, <1>5, <1>7, <2>1 DEF TaskAwaitPort
    <2>3. \A v \in Workers : \A g \in Fds : epoll[v][g] # r
      BY <1>2 DEF At
    <2>4. o # r
      BY <2>1, <2>3
    <2>5. At(r, <<"epoll", w>>)'
      <3>1. \A v \in Workers : (\E g \in Fds : epoll'[v][g] = r) <=> v = w
        BY <2>2, <2>3
      <3>2. r \notin leaked'
        BY <1>2, <2>2, <2>4 DEF At
      <3>3. \A v \in Workers : current'[v] # r
        BY <1>2, ResumablesAssumption DEF At
      <3> QED BY <1>2, <1>3, <3>1, <3>2, <3>3 DEF At
    <2>6. ASSUME o # None
          PROVE  At(o, <<"epoll", w>>) /\ At(o, <<"leaked", None>>)'
      <3>1. At(o, <<"epoll", w>>)
        BY <2>1, <2>6 DEF Located, At
      <3>2. \A g \in Fds : epoll[w][g] = o => g = f
        BY <2>1, <2>6 DEF HeldOnce
      <3>3. \A g \in Fds : epoll'[w][g] # o
        BY <2>2, <2>4, <3>2
      <3>4. \A v \in Workers \ {w} : ~\E g \in Fds : epoll[v][g] = o
        BY <3>1 DEF At
      <3>5. \A v \in Workers : ~\E g \in Fds : epoll'[v][g] = o
        BY <2>2, <3>3, <3>4
      <3>6. \A v \in Workers : current'[v] # o
        BY <1>4, <2>4, <2>6, <3>1 DEF At
      <3> QED BY <1>3, <2>2, <2>6, <3>1, <3>5, <3>6 DEF At
    <2>7. ASSUME NEW x \in Resumables \ {r}, x # o, NEW q \in Owners, At(x, q)
          PROVE  At(x, q)'
      <3>1. \A v \in Workers : (\E g \in Fds : epoll'[v][g] = x)
                                 <=> (\E g \in Fds : epoll[v][g] = x)
        BY <2>1, <2>2, <2>7
      <3>2. x \in leaked' <=> x \in leaked
        BY <2>2, <2>7
      <3> QED BY <1>3, <1>4, <2>7, <3>1, <3>2 DEF At
    <2>8. /\ <<"leaked", None>> \in Owners /\ <<"epoll", w>> \in Owners
          /\ <<"current", w>> \in Owners
          /\ Legal(<<"current", w>>, <<"epoll", w>>)
          /\ Legal(<<"epoll", w>>, <<"leaked", None>>)
      BY OwnerKinds, LegalMoves
    <2>9. Moved
      <3> SUFFICES ASSUME NEW x \in Resumables
                   PROVE  \E q, p \in Owners : At(x, q) /\ At(x, p)' /\ Legal(q, p)
        BY DEF Moved
      <3>1. CASE x = r
        BY <1>2, <2>5, <2>8, <3>1
      <3>2. CASE x = o
        BY <2>6, <2>8, <3>2, ResumablesAssumption
      <3>3. CASE x # r /\ x # o
        BY <2>7, <3>3, LegalMoves DEF Located
      <3> QED BY <3>1, <3>2, <3>3
    <2>10. HeldOnce'
      <3>1. ASSUME NEW v \in Workers, NEW g \in Fds, NEW h \in Fds,
                   epoll'[v][g] = epoll'[v][h], epoll'[v][g] # None
            PROVE  g = h
        <4>1. CASE v = w
          BY <2>2, <2>3, <3>1, <4>1 DEF HeldOnce
        <4>2. CASE v # w
          BY <2>2, <3>1, <4>2 DEF HeldOnce
        <4> QED BY <4>1, <4>2
      <3> QED BY <1>3, <3>1 DEF HeldOnce
    <2> QED BY <2>9, <2>10
  <1> QED BY <1>6, <1>7

\* central_schedule takes a batch off the input queue.
LEMMA CentralMoves ==
  ASSUME TypeInv, Located, HeldOnce, NEW w \in Workers, CentralSchedule(w)
  PROVE  Moved /\ HeldOnce'
  <1> DEFINE k == DequeueCount(w)
             a == SubSeq(input[w], 1, k)
             b == SubSeq(input[w], k + 1, Len(input[w]))
  <1>1. /\ input \in [Workers -> Seq(Resumables)]
        /\ ready \in [Workers -> Seq(Resumables)]
    BY DEF TypeInv, TypeOK
  <1>2. /\ \A v \in Workers : input'[v] = IF v = w THEN b ELSE input[v]
        /\ \A v \in Workers : ready'[v] = IF v = w THEN ready[w] \o a ELSE ready[v]
        /\ UNCHANGED <<fresh, call, port, epoll, sleepq, current, endVars>>
    BY <1>1 DEF CentralSchedule, spawnVars, sleepVars
  <1>3. /\ a \in Seq(Resumables) /\ b \in Seq(Resumables)
        /\ \A x : Contains(input[w], x) <=> (Contains(a, x) \/ Contains(b, x))
        /\ IsInjective(input[w]) => /\ IsInjective(a) /\ IsInjective(b)
                                 /\ \A x : ~(Contains(a, x) /\ Contains(b, x))
    BY <1>1, DequeueCountType, ContainsSplit
  <1>4. IsInjective(input[w]) /\ IsInjective(ready[w])
    BY DEF HeldOnce
  <1>5. PICK A \in Seq(Resumables) : A = a
    BY <1>3
  <1>6. /\ \A x : Contains(input'[w], x) <=> (Contains(input[w], x) /\ ~Contains(A, x))
        /\ \A x : Contains(A, x) => Contains(input[w], x)
        /\ IsInjective(input'[w]) /\ IsInjective(A)
        /\ \A v \in Workers \ {w} : input'[v] = input[v]
    BY <1>2, <1>3, <1>4, <1>5
  <1>7. \A v \in Workers : ready'[v] = IF v = w THEN ready[w] \o A ELSE ready[v]
    BY <1>2, <1>5
  <1> HIDE DEF k, a, b
  <1>8. ASSUME NEW x \in Resumables, Contains(A, x)
        PROVE  At(x, <<"input", w>>)
    BY <1>6, <1>8 DEF Located, At
  <1>9. ASSUME NEW x, Contains(ready[w], x), Contains(A, x)
        PROVE  FALSE
    <2>1. x \in Resumables
      BY <1>5, <1>9, LenProperties, ElementOfSeq DEF Contains
    <2> QED BY <1>8, <1>9, <2>1 DEF At
  <1>10. /\ \A x : Contains(ready'[w], x) <=> (Contains(ready[w], x) \/ Contains(A, x))
         /\ IsInjective(ready'[w])
         /\ \A v \in Workers \ {w} : ready'[v] = ready[v]
    <2>1. ready[w] \in Seq(Resumables)
      BY <1>1
    <2> QED BY <1>4, <1>5, <1>6, <1>7, <1>9, <2>1, ContainsConcat
  <1>11. ASSUME NEW x \in Resumables, Contains(A, x)
         PROVE  At(x, <<"ready", w>>)'
    <2>1. At(x, <<"input", w>>)
      BY <1>8, <1>11
    <2> QED BY <1>2, <1>6, <1>10, <1>11, <2>1 DEF At, endVars
  <1>12. ASSUME NEW x \in Resumables, ~Contains(A, x), NEW q \in Owners, At(x, q)
         PROVE  At(x, q)'
    <2>1. \A v \in Workers : /\ Contains(input'[v], x) <=> Contains(input[v], x)
                             /\ Contains(ready'[v], x) <=> Contains(ready[v], x)
      BY <1>6, <1>10, <1>12
    <2> QED BY <1>2, <1>12, <2>1 DEF At, endVars
  <1>13. /\ <<"input", w>> \in Owners /\ <<"ready", w>> \in Owners
         /\ Legal(<<"input", w>>, <<"ready", w>>)
    BY OwnerKinds, LegalMoves
  <1>14. HeldOnce'
    BY <1>2, <1>6, <1>10 DEF HeldOnce
  <1>15. Moved
    <2> SUFFICES ASSUME NEW x \in Resumables
                 PROVE  \E q, p \in Owners : At(x, q) /\ At(x, p)' /\ Legal(q, p)
      BY DEF Moved
    <2>1. CASE Contains(A, x)
      BY <1>8, <1>11, <1>13, <2>1
    <2>2. CASE ~Contains(A, x)
      BY <1>12, <2>2, LegalMoves DEF Located
    <2> QED BY <2>1, <2>2
  <1> QED BY <1>14, <1>15

\* poll_into and dequeue_into move those whose event fired to the port queue
\* and the sleepers that are due to the ready queue.
LEMMA PollMoves ==
  ASSUME TypeInv, Located, HeldOnce, NEW w \in Workers, Poll(w)
  PROVE  Moved /\ HeldOnce'
  <1>1. /\ port \in [Workers -> Seq(Resumables)]
        /\ ready \in [Workers -> Seq(Resumables)]
        /\ sleepq \in [Workers -> SUBSET Resumables]
        /\ epoll \in [Workers -> [Fds -> Resumables \cup {None}]]
    BY DEF TypeInv, TypeOK
  <1>2. PICK D \in SUBSET Resumables : D = Due(w) /\ D \subseteq sleepq[w]
    <2>1. Due(w) \subseteq sleepq[w]
      BY DEF Due
    <2>2. Due(w) \in SUBSET Resumables
      BY <1>1, <2>1
    <2> QED BY <2>1, <2>2
  <1>3. PICK fired \in SUBSET {f \in Fds : epoll[w][f] # None} :
          \E events \in SetToSeqs({epoll[w][f] : f \in fired}) :
            /\ port' = [port EXCEPT ![w] = @ \o events]
            /\ epoll' = [epoll EXCEPT ![w] = Disarmed(@, fired)]
    BY DEF Poll
  <1>4. PICK E \in SUBSET Resumables : E = {epoll[w][f] : f \in fired}
    BY <1>1
  <1>5. PICK events \in SetToSeqs(E) : port' = [port EXCEPT ![w] = @ \o events]
    BY <1>3, <1>4
  <1>6. PICK s \in SetToSeqs(D) : ready' = [ready EXCEPT ![w] = @ \o s]
    BY <1>2 DEF Poll
  <1>7. /\ events \in Seq(Resumables) /\ IsInjective(events)
        /\ \A x : Contains(events, x) <=> x \in E
    <2>1. IsFiniteSet(E)
      BY ResumablesAssumption, FS_Subset
    <2>2. /\ events \in Seq(E) /\ IsInjective(events)
          /\ \A x : Contains(events, x) <=> x \in E
      BY <2>1, SetToSeqsContains
    <2> QED BY <2>2
  <1>8. /\ s \in Seq(Resumables) /\ IsInjective(s)
        /\ \A x : Contains(s, x) <=> x \in D
    <2>1. IsFiniteSet(D)
      BY ResumablesAssumption, FS_Subset
    <2>2. /\ s \in Seq(D) /\ IsInjective(s)
          /\ \A x : Contains(s, x) <=> x \in D
      BY <2>1, SetToSeqsContains
    <2> QED BY <2>2
  <1>9. /\ \A v \in Workers : sleepq'[v] = IF v = w THEN sleepq[v] \ D ELSE sleepq[v]
        /\ UNCHANGED <<fresh, call, input, current, endVars>>
    BY <1>1, <1>2 DEF Poll, spawnVars
  <1>10. /\ \A g \in Fds : epoll'[w][g] = IF g \in fired THEN None ELSE epoll[w][g]
         /\ \A v \in Workers \ {w} : epoll'[v] = epoll[v]
    BY <1>1, <1>3 DEF Disarmed
  <1>11. ASSUME NEW x \in E PROVE At(x, <<"epoll", w>>)
    <2>1. \E f \in Fds : epoll[w][f] = x
      BY <1>4, <1>11
    <2>2. x \in Resumables
      BY <1>4
    <2> QED BY <2>1, <2>2 DEF Located, At
  <1>12. ASSUME NEW x \in D PROVE At(x, <<"sleep", w>>)
    <2>1. x \in Resumables /\ x \in sleepq[w]
      BY <1>2
    <2> QED BY <2>1 DEF Located, At
  <1>13. /\ \A x : Contains(port'[w], x) <=> (Contains(port[w], x) \/ x \in E)
         /\ IsInjective(port'[w])
         /\ \A v \in Workers \ {w} : port'[v] = port[v]
    <2>1. /\ port[w] \in Seq(Resumables) /\ port'[w] = port[w] \o events
          /\ \A v \in Workers \ {w} : port'[v] = port[v]
      BY <1>1, <1>5
    <2>2. IsInjective(port[w])
      BY DEF HeldOnce
    <2>3. \A x : ~(Contains(port[w], x) /\ Contains(events, x))
      BY <1>7, <1>11 DEF At
    <2> QED BY <1>7, <2>1, <2>2, <2>3, ContainsConcat
  <1>14. /\ \A x : Contains(ready'[w], x) <=> (Contains(ready[w], x) \/ x \in D)
         /\ IsInjective(ready'[w])
         /\ \A v \in Workers \ {w} : ready'[v] = ready[v]
    <2>1. /\ ready[w] \in Seq(Resumables) /\ ready'[w] = ready[w] \o s
          /\ \A v \in Workers \ {w} : ready'[v] = ready[v]
      BY <1>1, <1>6
    <2>2. IsInjective(ready[w])
      BY DEF HeldOnce
    <2>3. \A x : ~(Contains(ready[w], x) /\ Contains(s, x))
      BY <1>8, <1>12 DEF At
    <2> QED BY <1>8, <2>1, <2>2, <2>3, ContainsConcat
  <1>15. ASSUME NEW x \in E PROVE At(x, <<"port", w>>)'
    <2>1. At(x, <<"epoll", w>>)
      BY <1>11
    <2>2. x \notin D
      BY <2>1, <1>12 DEF At
    <2>3. \A g \in Fds : epoll'[w][g] # x
      <3>1. PICK f \in fired : epoll[w][f] = x
        BY <1>4, <1>15
      <3>2. x # None
        BY ResumablesAssumption
      <3>3. \A g \in Fds : epoll[w][g] = x => g = f
        BY <3>1, <3>2 DEF HeldOnce
      <3> QED BY <1>10, <3>1, <3>2, <3>3
    <2>4. \A v \in Workers : ~\E g \in Fds : epoll'[v][g] = x
      <3>1. \A v \in Workers \ {w} : ~\E g \in Fds : epoll[v][g] = x
        BY <2>1 DEF At
      <3> QED BY <1>10, <2>3, <3>1
    <2>5. \A v \in Workers : ~Contains(ready'[v], x) /\ x \notin sleepq'[v]
      BY <1>9, <1>14, <2>1, <2>2 DEF At
    <2>6. \A v \in Workers : Contains(port'[v], x) <=> v = w
      BY <1>13, <2>1 DEF At
    <2> QED BY <1>9, <2>1, <2>4, <2>5, <2>6 DEF At, endVars
  <1>16. ASSUME NEW x \in D PROVE At(x, <<"ready", w>>)'
    <2>1. At(x, <<"sleep", w>>)
      BY <1>12
    <2>2. x \notin E
      BY <2>1, <1>11 DEF At
    <2>3. \A v \in Workers : ~\E g \in Fds : epoll'[v][g] = x
      <3>1. \A v \in Workers : ~\E g \in Fds : epoll[v][g] = x
        BY <2>1 DEF At
      <3> QED BY <1>10, <3>1, ResumablesAssumption
    <2>4. \A v \in Workers : ~Contains(port'[v], x) /\ x \notin sleepq'[v]
      BY <1>9, <1>13, <2>1, <2>2 DEF At
    <2>5. \A v \in Workers : Contains(ready'[v], x) <=> v = w
      BY <1>14, <2>1 DEF At
    <2> QED BY <1>9, <2>1, <2>3, <2>4, <2>5 DEF At, endVars
  <1>17. ASSUME NEW x \in Resumables, x \notin E, x \notin D, NEW q \in Owners, At(x, q)
         PROVE  At(x, q)'
    <2>1. \A v \in Workers : /\ Contains(port'[v], x) <=> Contains(port[v], x)
                             /\ Contains(ready'[v], x) <=> Contains(ready[v], x)
                             /\ x \in sleepq'[v] <=> x \in sleepq[v]
      BY <1>9, <1>13, <1>14, <1>17
    <2>2. \A g \in Fds : epoll'[w][g] = x <=> epoll[w][g] = x
      BY <1>4, <1>10, <1>17, ResumablesAssumption
    <2>3. \A v \in Workers : (\E g \in Fds : epoll'[v][g] = x)
                               <=> (\E g \in Fds : epoll[v][g] = x)
      BY <1>10, <2>2
    <2> QED BY <1>9, <1>17, <2>1, <2>3 DEF At, endVars
  <1>18. /\ <<"port", w>> \in Owners /\ <<"ready", w>> \in Owners
         /\ <<"epoll", w>> \in Owners /\ <<"sleep", w>> \in Owners
         /\ Legal(<<"epoll", w>>, <<"port", w>>)
         /\ Legal(<<"sleep", w>>, <<"ready", w>>)
    BY OwnerKinds, LegalMoves
  <1>19. HeldOnce'
    <2>1. \A v \in Workers : IsInjective(input'[v]) /\ IsInjective(ready'[v]) /\ IsInjective(port'[v])
      BY <1>9, <1>13, <1>14 DEF HeldOnce
    <2>2. \A v \in Workers : \A g, h \in Fds :
            epoll'[v][g] = epoll'[v][h] => g = h \/ epoll'[v][g] = None
      BY <1>10 DEF HeldOnce
    <2> QED BY <2>1, <2>2 DEF HeldOnce
  <1>20. Moved
    <2> SUFFICES ASSUME NEW x \in Resumables
                 PROVE  \E q, p \in Owners : At(x, q) /\ At(x, p)' /\ Legal(q, p)
      BY DEF Moved
    <2>1. CASE x \in E
      BY <1>11, <1>15, <1>18, <2>1
    <2>2. CASE x \in D
      BY <1>12, <1>16, <1>18, <2>2
    <2>3. CASE x \notin E /\ x \notin D
      BY <1>17, <2>3, LegalMoves DEF Located
    <2> QED BY <2>1, <2>2, <2>3
  <1> QED BY <1>19, <1>20

\* At first every builder is in its caller's hands.
LEMMA InitLocated == Init => Located /\ HeldOnce
  <1> SUFFICES ASSUME Init PROVE Located /\ HeldOnce
    OBVIOUS
  <1>1. \A x : ~Contains(<< >>, x)
    BY DEF Contains
  <1>2. HeldOnce
    BY DEF Init, HeldOnce, IsInjective
  <1>3. ASSUME NEW r \in Resumables PROVE At(r, <<"fresh", None>>)
    BY <1>1, ResumablesAssumption DEF Init, NoCall, At
  <1>4. <<"fresh", None>> \in Owners
    BY OwnerKinds
  <1> QED BY <1>2, <1>3, <1>4 DEF Located

\* Every step moves resumables from one owner to one other.
LEMMA NextMoves ==
  ASSUME TypeInv, Located, HeldOnce, [Next]_vars
  PROVE  Moved /\ HeldOnce'
  <1> USE DEF queueVars
  <1>1. CASE UNCHANGED vars
    BY <1>1, NothingMoves DEF vars, spawnVars, sleepVars, workVars
  <1>2. CASE Tick
    BY <1>2, NothingMoves DEF Tick, spawnVars, workVars
  <1>3. ASSUME NEW t \in Threads, Enqueue(t)
        PROVE  Moved /\ HeldOnce'
    <2>1. CASE PushInput(t)
      BY <2>1, PushMoves
    <2>2. CASE ~PushInput(t)
      <3>0. call \in [Threads -> Calls] /\ CallOK
        BY DEF TypeInv, TypeOK
      <3>1. \A a \in Threads : call'[a].job = call[a].job
        <4>1. CASE SeeParked(t) \/ SeeNoneParked(t) \/ ClaimParked(t)
          BY <3>0, <4>1 DEF SeeParked, SeeNoneParked, ClaimParked, Calls
        <4>2. CASE CheckState(t) \/ UnblockOne(t)
          BY <3>0, <4>2 DEF CheckState, UnblockOne, Calls, CallOK, NoCall
        <4> QED BY <1>3, <2>2, <4>1, <4>2 DEF Enqueue
      <3>2. UNCHANGED <<fresh, queueVars, sleepq, current, endVars>>
        BY <1>3, <2>2 DEF Enqueue, SeeParked, SeeNoneParked, ClaimParked,
                  CheckState, UnblockOne, sleepVars, workVars
      <3> QED BY <3>1, <3>2, NothingMoves
    <2> QED BY <2>1, <2>2
  <1>4. ASSUME NEW w \in Workers, Park(w) \/ BlockingPollInterrupted(w)
        PROVE  Moved /\ HeldOnce'
    <2>1. UNCHANGED <<call, fresh, queueVars, sleepq, current, endVars>>
      BY <1>4 DEF Park, ParkBit, ParkState, BlockingPollWakeup, UnparkState,
                  UnparkBit, BlockingPollInterrupted, spawnVars, sleepVars
    <2> QED BY <2>1, NothingMoves
  <1>5. ASSUME NEW w \in Workers,
               IsolationSpent(w) \/ Drained(w) \/ BudgetLeft(w) \/ BudgetSpent(w)
        PROVE  Moved /\ HeldOnce'
    <2>1. UNCHANGED <<call, fresh, queueVars, sleepq, current, endVars>>
      BY <1>5 DEF IsolationSpent, Drained, BudgetLeft, BudgetSpent, spawnVars,
                  sleepVars
    <2> QED BY <2>1, NothingMoves
  <1>6. ASSUME NEW w \in Workers, TaskYield(w)
        PROVE  Moved /\ HeldOnce'
    BY <1>6, DoneMoves, RescheduleMoves, SleepMoves, AwaitMoves
       DEF TaskYield, TaskShortSleep
  <1>7. CASE Next
    BY <1>2, <1>3, <1>4, <1>5, <1>6, <1>7, SpawnMoves, EventMoves, CentralMoves,
       PollMoves, RunPortMoves, RunReadyMoves DEF Next, Run
  <1> QED BY <1>1, <1>7

LEMMA NextLocated ==
  ASSUME TypeInv, Located, HeldOnce, [Next]_vars
  PROVE  Located' /\ HeldOnce'
  BY NextMoves DEF Moved, Located

\* Nothing that workers, pollers and spawning threads do to each other loses a
\* resumable without a trace or leaves it in two places: exactly one owner
\* holds it at each moment, and holds it once.  The argument is that each step
\* moves resumables from one owner to one other, which needs the call records
\* and the current tasks to be typed as TypeInv says.
THEOREM Ownership == Spec => [](OneOwner /\ HeldOnce)
  <1>1. Init => TypeInv /\ Located /\ HeldOnce
    BY InitTypeInv, InitLocated
  <1>2. (TypeInv /\ Located /\ HeldOnce) /\ [Next]_vars
          => (TypeInv /\ Located /\ HeldOnce)'
    BY NextTypeInv, NextLocated
  <1>3. TypeInv /\ Located /\ HeldOnce => OneOwner /\ HeldOnce
    BY LocatedOneOwner
  <1> QED BY <1>1, <1>2, <1>3, PTL DEF Spec

----------------------------------------------------------------------------
(***************************************************************************)
(* The scheduler implements the life cycle of a resumable.                 *)
(***************************************************************************)

\* The stage of a resumable is that of its owner.
StageAgrees ==
  \A r \in Resumables : \A q \in Owners : At(r, q) => Stage(r) = OwnerStage(q)

LEMMA StageByOwner == StageAgrees
  <1> SUFFICES ASSUME NEW r \in Resumables, NEW q \in Owners, At(r, q)
               PROVE  Stage(r) = OwnerStage(q)
    BY DEF StageAgrees
  <1> DEFINE D == q = <<"done", None>>
             L == q = <<"leaked", None>>
             F == q = <<"fresh", None>>
             S == \E t \in Threads : q = <<"job", t>>
             R == \E w \in Workers : q = <<"current", w>>
             B == \E w \in Workers : q = <<"sleep", w>> \/ q = <<"epoll", w>>
             Q == \E w \in Workers : \/ q = <<"input", w>> \/ q = <<"ready", w>>
                                     \/ q = <<"port", w>>
  <1>1. /\ r \in done <=> D
        /\ r \in leaked <=> L
        /\ r \in fresh <=> F
        /\ (\E t \in Threads : Holds(<<"job", t>>, r)) <=> S
        /\ (\E w \in Workers : Holds(<<"current", w>>, r)) <=> R
        /\ (\E w \in Workers : Holds(<<"sleep", w>>, r) \/ Holds(<<"epoll", w>>, r)) <=> B
        /\ (\E w \in Workers : \/ Holds(<<"input", w>>, r) \/ Holds(<<"ready", w>>, r)
                                \/ Holds(<<"port", w>>, r)) <=> Q
    <2>1. /\ \A t : Holds(<<"job", t>>, r) <=> call[t].job = r
          /\ \A w : /\ Holds(<<"input", w>>, r) <=> Contains(input[w], r)
                    /\ Holds(<<"ready", w>>, r) <=> Contains(ready[w], r)
                    /\ Holds(<<"port", w>>, r) <=> Contains(port[w], r)
                    /\ Holds(<<"sleep", w>>, r) <=> r \in sleepq[w]
                    /\ Holds(<<"epoll", w>>, r) <=> \E f \in Fds : epoll[w][f] = r
                    /\ Holds(<<"current", w>>, r) <=> current[w] = r
      BY HoldsKinds
    <2>2. /\ r \in done <=> D
          /\ r \in leaked <=> L
          /\ r \in fresh <=> F
      BY DEF At
    <2>3. (\E t \in Threads : Holds(<<"job", t>>, r)) <=> S
      BY <2>1, Zenon DEF At
    <2>4. (\E w \in Workers : Holds(<<"current", w>>, r)) <=> R
      BY <2>1, Zenon DEF At
    <2>5. \A w \in Workers : /\ Holds(<<"input", w>>, r) <=> q = <<"input", w>>
                             /\ Holds(<<"ready", w>>, r) <=> q = <<"ready", w>>
                             /\ Holds(<<"port", w>>, r) <=> q = <<"port", w>>
                             /\ Holds(<<"sleep", w>>, r) <=> q = <<"sleep", w>>
                             /\ Holds(<<"epoll", w>>, r) <=> q = <<"epoll", w>>
      BY <2>1, Zenon DEF At
    <2>6. (\E w \in Workers : Holds(<<"sleep", w>>, r) \/ Holds(<<"epoll", w>>, r)) <=> B
      BY <2>5
    <2>7. (\E w \in Workers : \/ Holds(<<"input", w>>, r) \/ Holds(<<"ready", w>>, r)
                              \/ Holds(<<"port", w>>, r)) <=> Q
      BY <2>5
    <2> QED BY <2>2, <2>3, <2>4, <2>6, <2>7
  <1>3. \/ D /\ ~L /\ ~F /\ ~S /\ ~R /\ ~B /\ ~Q /\ OwnerStage(q) = "done"
        \/ ~D /\ L /\ ~F /\ ~S /\ ~R /\ ~B /\ ~Q /\ OwnerStage(q) = "lost"
        \/ ~D /\ ~L /\ F /\ ~S /\ ~R /\ ~B /\ ~Q /\ OwnerStage(q) = "new"
        \/ ~D /\ ~L /\ ~F /\ S /\ ~R /\ ~B /\ ~Q /\ OwnerStage(q) = "spawning"
        \/ ~D /\ ~L /\ ~F /\ ~S /\ R /\ ~B /\ ~Q /\ OwnerStage(q) = "running"
        \/ ~D /\ ~L /\ ~F /\ ~S /\ ~R /\ B /\ ~Q /\ OwnerStage(q) = "blocked"
        \/ ~D /\ ~L /\ ~F /\ ~S /\ ~R /\ ~B /\ Q /\ OwnerStage(q) = "queued"
    BY OwnerKinds, Stages
  <1> HIDE DEF D, L, F, S, R, B, Q
  <1> QED BY <1>1, <1>3 DEF Stage

\* Through the queues, pollers and hands that a resumable passes, it is spawned
\* once, runs only after it was queued, is queued again before a blocked one
\* runs, and never comes back when it is done or lost.
THEOREM RefinesLifecycle == Spec => ImplementsLifecycle
  <1>1. Init => LC!Init
    <2> SUFFICES ASSUME Init PROVE \A r \in Resumables : Stage(r) = "new"
      BY DEF LC!Init
    <2> TAKE r \in Resumables
    <2>1. PICK q \in Owners : At(r, q)
      BY InitLocated DEF Located
    <2>2. q = <<"fresh", None>>
      BY <2>1 DEF Init, At
    <2> QED BY <2>1, <2>2, StageByOwner, Stages DEF StageAgrees
  <1>2. Init => TypeInv /\ Located /\ HeldOnce
    BY InitTypeInv, InitLocated
  <1>3. (TypeInv /\ Located /\ HeldOnce) /\ [Next]_vars
          => (TypeInv /\ Located /\ HeldOnce)'
    BY NextTypeInv, NextLocated
  <1>4. (TypeInv /\ Located /\ HeldOnce) /\ StageAgrees /\ StageAgrees' /\ [Next]_vars
          => [LC!Next]_([r \in Resumables |-> Stage(r)])
    <2> SUFFICES ASSUME TypeInv, Located, HeldOnce, StageAgrees, StageAgrees', [Next]_vars,
                        NEW r \in Resumables
                 PROVE  /\ Stage(r)' \in LC!Stages
                        /\ Stage(r)' # Stage(r) => <<Stage(r), Stage(r)'>> \in LC!Moves
      BY DEF LC!Next
    <2>1. PICK q \in Owners, p \in Owners : At(r, q) /\ At(r, p)' /\ Legal(q, p)
      BY NextMoves DEF Moved
    <2>2. Stage(r) = OwnerStage(q) /\ Stage(r)' = OwnerStage(p)
      BY <2>1 DEF StageAgrees
    <2>3. OwnerStage(p) \in LC!Stages
      BY OwnerKinds, Stages DEF LC!Stages
    <2> QED BY <2>1, <2>2, <2>3 DEF Legal
  <1> QED BY <1>1, <1>2, <1>3, <1>4, StageByOwner, PTL DEF Spec, ImplementsLifecycle, LC!Spec

----------------------------------------------------------------------------
(***************************************************************************)
(* Sleepers.                                                               *)
(***************************************************************************)

\* A worker parks from central_schedule only, which saw an empty sleep queue,
\* and nothing that a parking worker does lets a task sleep.
LEMMA ParkingStep ==
  ASSUME TypeInv, ParksWithoutSleepers, [Next]_vars
  PROVE  ParksWithoutSleepers'
  <1>0. pc \in [Workers -> PCs] /\ sleepq \in [Workers -> SUBSET Resumables]
    BY DEF TypeInv, TypeOK
  <1>1. CASE UNCHANGED <<pc, sleepq>>
    BY <1>1 DEF ParksWithoutSleepers
  <1>2. ASSUME NEW w \in Workers, UNCHANGED sleepq,
               \E from \in PCs, to \in PCs :
                 Goto(w, from, to) /\ (to \in Parking => from \in Parking)
        PROVE  ParksWithoutSleepers'
    <2>1. \A v \in Workers : v # w => pc'[v] = pc[v]
      BY <1>0, <1>2 DEF Goto
    <2>2. pc'[w] \in Parking => pc[w] \in Parking
      BY <1>0, <1>2 DEF Goto
    <2> QED BY <1>2, <2>1, <2>2 DEF ParksWithoutSleepers
  <1>3. ASSUME NEW w \in Workers, pc[w] \notin Parking, pc'[w] \notin Parking,
               \A v \in Workers : v # w => pc'[v] = pc[v] /\ sleepq'[v] = sleepq[v]
        PROVE  ParksWithoutSleepers'
    BY <1>3 DEF ParksWithoutSleepers
  <1>4. ASSUME NEW w \in Workers, CentralSchedule(w)
        PROVE  ParksWithoutSleepers'
    <2>1. /\ \A v \in Workers : v # w => pc'[v] = pc[v]
          /\ UNCHANGED sleepq
          /\ pc'[w] \in Parking => Idle(w)
      BY <1>0, <1>4 DEF CentralSchedule, sleepVars, Parking
    <2> QED BY <2>1 DEF ParksWithoutSleepers, Idle
  <1>5. ASSUME NEW w \in Workers, Park(w) \/ BlockingPollInterrupted(w)
        PROVE  ParksWithoutSleepers'
    <2>1. UNCHANGED sleepq
      BY <1>5 DEF Park, ParkBit, ParkState, BlockingPollWakeup, UnparkState,
                  UnparkBit, BlockingPollInterrupted, sleepVars
    <2>2. \E from \in PCs, to \in PCs :
            Goto(w, from, to) /\ (to \in Parking => from \in Parking)
      BY <1>5 DEF Park, ParkBit, ParkState, BlockingPollWakeup, UnparkState,
                  UnparkBit, BlockingPollInterrupted, PCs, Parking
    <2> QED BY <1>2, <2>1, <2>2
  <1>6. ASSUME NEW w \in Workers, NEW f \in Fds, BlockingPollEvent(w, f)
        PROVE  ParksWithoutSleepers'
    <2>1. UNCHANGED sleepq
      BY <1>6 DEF BlockingPollEvent, sleepVars
    <2>2. \E from \in PCs, to \in PCs :
            Goto(w, from, to) /\ (to \in Parking => from \in Parking)
      BY <1>6 DEF BlockingPollEvent, PCs, Parking
    <2> QED BY <1>2, <2>1, <2>2
  <1>7. ASSUME NEW w \in Workers,
               \/ IsolationSpent(w) \/ RunPort(w) \/ RunReady(w) \/ Drained(w)
               \/ BudgetLeft(w) \/ BudgetSpent(w)
        PROVE  ParksWithoutSleepers'
    <2>1. UNCHANGED sleepq
      BY <1>7 DEF IsolationSpent, RunPort, RunReady, Drained, BudgetLeft, BudgetSpent,
                  sleepVars
    <2>2. \E from \in PCs, to \in PCs :
            Goto(w, from, to) /\ (to \in Parking => from \in Parking)
      BY <1>7 DEF IsolationSpent, RunPort, RunReady, Drained, BudgetLeft, BudgetSpent,
                  PCs, Parking
    <2> QED BY <1>2, <2>1, <2>2
  <1>8. ASSUME NEW w \in Workers, Poll(w)
        PROVE  ParksWithoutSleepers'
    <2>1. \A v \in Workers : v # w => pc'[v] = pc[v] /\ sleepq'[v] = sleepq[v]
      BY <1>0, <1>8 DEF Poll, Goto
    <2>2. pc[w] = "poll" /\ pc'[w] = "run"
      BY <1>0, <1>8 DEF Poll, Goto
    <2> QED BY <1>3, <2>1, <2>2 DEF Parking
  <1>9. ASSUME NEW w \in Workers, TaskYield(w)
        PROVE  ParksWithoutSleepers'
    <2>1. Yields(w)
      BY <1>9 DEF TaskYield, TaskDone, TaskReschedule, TaskShortSleep, TaskSleep,
                  TaskAwaitPort
    <2>2. pc[w] = "task" /\ pc'[w] = "budget" /\ \A v \in Workers : v # w => pc'[v] = pc[v]
      BY <1>0, <2>1 DEF Yields, Goto
    <2>3. \A v \in Workers : v # w => sleepq'[v] = sleepq[v]
      BY <1>0, <1>9 DEF TaskYield, TaskDone, TaskReschedule, TaskShortSleep, TaskSleep,
                        TaskAwaitPort, sleepVars
    <2> QED BY <1>3, <2>2, <2>3 DEF Parking
  <1>10. ASSUME NEW t \in Threads, Enqueue(t) \/ \E r \in Resumables : Spawn(t, r)
         PROVE  ParksWithoutSleepers'
    <2>1. UNCHANGED <<pc, sleepq>>
      BY <1>10 DEF Enqueue, SeeParked, SeeNoneParked, ClaimParked, PushInput, CheckState,
                   UnblockOne, Spawn, workVars, sleepVars
    <2> QED BY <1>1, <2>1, SMTT(30)
  <1>11. CASE Next
    BY <1>1, <1>4, <1>5, <1>6, <1>7, <1>8, <1>9, <1>10, <1>11 DEF Next, Run, Tick, workVars
  <1> QED BY <1>1, <1>11 DEF vars, workVars, sleepVars

\* A worker never blocks in epoll_wait, which has no timeout, while one of its
\* tasks sleeps.
THEOREM NoSleeperLeftBehind == Spec => []ParksWithoutSleepers
  <1>1. Init => TypeInv /\ ParksWithoutSleepers
    BY InitTypeInv DEF Init, ParksWithoutSleepers
  <1>2. (TypeInv /\ ParksWithoutSleepers) /\ [Next]_vars
          => (TypeInv /\ ParksWithoutSleepers)'
    BY NextTypeInv, ParkingStep
  <1> QED BY <1>1, <1>2, PTL DEF Spec

\* The deadline of a sleeper is a point of time: _next_item is max exactly if
\* nobody sleeps.
Deadlines ==
  /\ NextItemIsEarliest
  /\ \A w \in Workers : \A r \in sleepq[w] : wakeup[r] < Never

\* A resumable is in one sleep queue at most, and not the current task.
LEMMA OneSleepQueue ==
  ASSUME Located, NEW v \in Workers, NEW w \in Workers, NEW r \in Resumables, r \in sleepq[w]
  PROVE  /\ r \in sleepq[v] => v = w
         /\ current[v] # r
  BY DEF Located, At

\* The sleep queues and the clock stand still.
LEMMA SameDeadlines ==
  ASSUME Deadlines, UNCHANGED sleepVars
  PROVE  Deadlines'
  BY DEF Deadlines, NextItemIsEarliest, sleepVars

\* local_sleep_queue::enqueue.
LEMMA SleepDeadlines ==
  ASSUME TypeInv, Located, Deadlines, NEW w \in Workers, NEW d \in Durations, TaskSleep(w, d)
  PROVE  Deadlines'
  <1>1. /\ sleepq \in [Workers -> SUBSET Resumables] /\ wakeup \in [Resumables -> Int]
        /\ next_item \in [Workers -> Int] /\ d \in Int /\ Never \in Int /\ d < Never
    BY TimeAssumption DEF TypeInv, TypeOK
  <1>2. PICK c \in Resumables : c = current[w]
    BY YieldedOwner DEF TaskSleep
  <1>3. \A v \in Workers : c \notin sleepq[v]
    BY <1>2, OneSleepQueue
  <1>4. /\ next_item' = [next_item EXCEPT ![w] = IF @ > d THEN d ELSE @]
        /\ wakeup' = [wakeup EXCEPT ![c] = d]
        /\ \/ sleepq' = [sleepq EXCEPT ![w] = @ \cup {c}]
           \/ sleepq' = sleepq /\ \E q \in sleepq[w] : wakeup[q] = d
    BY <1>2 DEF TaskSleep
  <1>5. /\ \A v \in Workers : v # w => next_item'[v] = next_item[v] /\ sleepq'[v] = sleepq[v]
        /\ next_item'[w] = IF next_item[w] > d THEN d ELSE next_item[w]
        /\ wakeup'[c] = d /\ \A r \in Resumables : r # c => wakeup'[r] = wakeup[r]
        /\ \/ sleepq'[w] = sleepq[w] \cup {c}
           \/ sleepq'[w] = sleepq[w] /\ \E q \in sleepq[w] : wakeup[q] = d
    BY <1>1, <1>4
  <1>6. \A v \in Workers : \A r \in sleepq[v] : wakeup'[r] = wakeup[r] /\ r \in Resumables
    BY <1>1, <1>3, <1>5
  <1>7. \A v \in Workers : v # w =>
          /\ \A r \in sleepq'[v] : next_item'[v] <= wakeup'[r] /\ wakeup'[r] < Never
          /\ sleepq'[v] = {} => next_item'[v] = Never
          /\ sleepq'[v] # {} => \E r \in sleepq'[v] : next_item'[v] = wakeup'[r]
    BY <1>5, <1>6 DEF Deadlines, NextItemIsEarliest
  <1>8. /\ \A r \in sleepq[w] : next_item[w] <= wakeup[r] /\ wakeup[r] < Never
        /\ sleepq[w] = {} => next_item[w] = Never
        /\ sleepq[w] # {} => \E r \in sleepq[w] : next_item[w] = wakeup[r]
        /\ next_item[w] \in Int
    BY <1>1 DEF Deadlines, NextItemIsEarliest
  <1>9. /\ \A r \in sleepq'[w] : next_item'[w] <= wakeup'[r] /\ wakeup'[r] < Never
        /\ sleepq'[w] = {} => next_item'[w] = Never
        /\ sleepq'[w] # {} => \E r \in sleepq'[w] : next_item'[w] = wakeup'[r]
    <2>1. CASE sleepq'[w] = sleepq[w] \cup {c}
      <3>1. \A r \in sleepq'[w] : next_item'[w] <= wakeup'[r] /\ wakeup'[r] < Never
        BY <1>1, <1>5, <1>6, <1>8, <2>1
      <3>2. CASE next_item[w] > d
        BY <1>5, <2>1, <3>1, <3>2
      <3>3. CASE ~(next_item[w] > d)
        <4>1. sleepq[w] # {}
          BY <1>1, <1>8, <3>3
        <4>2. PICK r \in sleepq[w] : next_item[w] = wakeup[r]
          BY <1>8, <4>1
        <4>3. next_item'[w] = wakeup'[r] /\ r \in sleepq'[w]
          BY <1>5, <1>6, <2>1, <3>3, <4>2
        <4> QED BY <3>1, <4>3
      <3> QED BY <3>2, <3>3
    <2>2. CASE sleepq'[w] = sleepq[w] /\ \E q \in sleepq[w] : wakeup[q] = d
      <3>1. next_item[w] <= d
        BY <1>8, <2>2
      <3>2. next_item'[w] = next_item[w]
        BY <1>1, <1>5, <1>8, <3>1
      <3> QED BY <1>6, <1>8, <2>2, <3>2
    <2> QED BY <1>5, <2>1, <2>2
  <1>10. \A v \in Workers :
          /\ \A r \in sleepq'[v] : next_item'[v] <= wakeup'[r] /\ wakeup'[r] < Never
          /\ sleepq'[v] = {} => next_item'[v] = Never
          /\ sleepq'[v] # {} => \E r \in sleepq'[v] : next_item'[v] = wakeup'[r]
    BY <1>7, <1>9
  <1> QED BY <1>10 DEF Deadlines, NextItemIsEarliest

\* local_sleep_queue::dequeue_into.
LEMMA PollDeadlines ==
  ASSUME TypeInv, Located, Deadlines, NEW w \in Workers, Poll(w)
  PROVE  Deadlines'
  <1>1. /\ sleepq \in [Workers -> SUBSET Resumables] /\ wakeup \in [Resumables -> Int]
        /\ next_item \in [Workers -> Int] /\ Never \in Int
    BY TimeAssumption DEF TypeInv, TypeOK
  <1>2. PICK left \in SUBSET sleepq[w] : left = sleepq[w] \ Due(w)
    OBVIOUS
  <1>3. /\ sleepq' = [sleepq EXCEPT ![w] = left]
        /\ wakeup' = [r \in Resumables |-> IF r \in Due(w) THEN Never ELSE wakeup[r]]
        /\ next_item' = [next_item EXCEPT ![w] = NextItem(w, left)]
    BY <1>2 DEF Poll
  <1>4. /\ \A v \in Workers : v # w => next_item'[v] = next_item[v] /\ sleepq'[v] = sleepq[v]
        /\ sleepq'[w] = left /\ next_item'[w] = NextItem(w, left)
    BY <1>1, <1>3
  <1>5. Due(w) \subseteq sleepq[w]
    BY DEF Due
  <1>6. \A v \in Workers : \A r \in sleepq'[v] :
          wakeup'[r] = wakeup[r] /\ r \in Resumables /\ r \in sleepq[v]
    <2> SUFFICES ASSUME NEW v \in Workers, NEW r \in sleepq'[v]
                 PROVE  r \notin Due(w) /\ r \in Resumables /\ r \in sleepq[v]
      BY <1>3
    <2>1. r \in sleepq[v] /\ r \in Resumables
      BY <1>1, <1>4
    <2>2. CASE v = w
      BY <1>2, <1>4, <2>1, <2>2
    <2>3. CASE v # w
      BY <1>5, <2>1, <2>3, OneSleepQueue
    <2> QED BY <2>1, <2>2, <2>3
  <1>7. \A v \in Workers : v # w =>
          /\ \A r \in sleepq'[v] : next_item'[v] <= wakeup'[r] /\ wakeup'[r] < Never
          /\ sleepq'[v] = {} => next_item'[v] = Never
          /\ sleepq'[v] # {} => \E r \in sleepq'[v] : next_item'[v] = wakeup'[r]
    BY <1>4, <1>6 DEF Deadlines, NextItemIsEarliest
  <1>8. /\ \A r \in sleepq[w] : next_item[w] <= wakeup[r] /\ wakeup[r] < Never
        /\ sleepq[w] = {} => next_item[w] = Never
        /\ sleepq[w] # {} => \E r \in sleepq[w] : next_item[w] = wakeup[r]
    BY DEF Deadlines, NextItemIsEarliest
  <1>9. /\ \A r \in sleepq'[w] : next_item'[w] <= wakeup'[r] /\ wakeup'[r] < Never
        /\ sleepq'[w] = {} => next_item'[w] = Never
        /\ sleepq'[w] # {} => \E r \in sleepq'[w] : next_item'[w] = wakeup'[r]
    <2>1. CASE next_item[w] > 0
      <3>1. Due(w) = {} /\ NextItem(w, left) = next_item[w]
        BY <2>1 DEF Due, NextItem
      <3>2. sleepq'[w] = sleepq[w] /\ next_item'[w] = next_item[w]
        BY <1>2, <1>4, <3>1
      <3> QED BY <1>6, <1>8, <3>2
    <2>2. CASE ~(next_item[w] > 0) /\ left = {}
      BY <1>4, <2>2 DEF NextItem
    <2>3. CASE ~(next_item[w] > 0) /\ left # {}
      <3>1. /\ \E r \in left : NextItem(w, left) = wakeup[r]
            /\ \A r \in left : NextItem(w, left) <= wakeup[r]
        BY <2>3, NextItemType
      <3> QED BY <1>4, <1>6, <1>8, <2>3, <3>1
    <2> QED BY <2>1, <2>2, <2>3
  <1>10. \A v \in Workers :
          /\ \A r \in sleepq'[v] : next_item'[v] <= wakeup'[r] /\ wakeup'[r] < Never
          /\ sleepq'[v] = {} => next_item'[v] = Never
          /\ sleepq'[v] # {} => \E r \in sleepq'[v] : next_item'[v] = wakeup'[r]
    BY <1>7, <1>9
  <1> QED BY <1>10 DEF Deadlines, NextItemIsEarliest

\* The clock brings every deadline nearer, _next_item too.
LEMMA TickDeadlines ==
  ASSUME TypeInv, Deadlines, Tick
  PROVE  Deadlines'
  <1>1. /\ sleepq \in [Workers -> SUBSET Resumables] /\ wakeup \in [Resumables -> Int]
        /\ next_item \in [Workers -> Int] /\ Never \in Int
    BY TimeAssumption DEF TypeInv, TypeOK
  <1>2. /\ UNCHANGED sleepq
        /\ \A v \in Workers : \A r \in sleepq[v] : wakeup'[r] = wakeup[r] - 1
        /\ \A v \in Workers : next_item'[v] = IF next_item[v] = Never THEN Never
                                              ELSE next_item[v] - 1
    BY <1>1 DEF Tick
  <1>3. ASSUME NEW v \in Workers
        PROVE  /\ \A r \in sleepq[v] : next_item'[v] <= wakeup'[r] /\ wakeup'[r] < Never
               /\ sleepq[v] = {} => next_item'[v] = Never
               /\ sleepq[v] # {} => \E r \in sleepq[v] : next_item'[v] = wakeup'[r]
    <2>1. /\ \A r \in sleepq[v] : next_item[v] <= wakeup[r] /\ wakeup[r] < Never
          /\ sleepq[v] = {} => next_item[v] = Never
          /\ sleepq[v] # {} => \E r \in sleepq[v] : next_item[v] = wakeup[r]
      BY DEF Deadlines, NextItemIsEarliest
    <2>2. CASE sleepq[v] = {}
      BY <1>2, <2>1, <2>2
    <2>3. CASE sleepq[v] # {}
      <3>1. PICK q \in sleepq[v] : next_item[v] = wakeup[q]
        BY <2>1, <2>3
      <3>2. q \in Resumables /\ wakeup[q] \in Int /\ wakeup[q] < Never
        BY <1>1, <2>1
      <3>3. next_item'[v] = wakeup[q] - 1 /\ wakeup'[q] = wakeup[q] - 1
        BY <1>1, <1>2, <3>1, <3>2
      <3>4. ASSUME NEW r \in sleepq[v]
            PROVE  next_item'[v] <= wakeup'[r] /\ wakeup'[r] < Never
        <4>1. wakeup[r] \in Int /\ wakeup[q] <= wakeup[r] /\ wakeup[r] < Never
              /\ wakeup'[r] = wakeup[r] - 1
          BY <1>1, <1>2, <2>1, <3>1
        <4> QED BY <1>1, <3>2, <3>3, <4>1
      <3> QED BY <2>3, <3>3, <3>4
    <2> QED BY <2>2, <2>3
  <1> QED BY <1>2, <1>3 DEF Deadlines, NextItemIsEarliest

LEMMA NextDeadlines ==
  ASSUME TypeInv, Located, Deadlines, [Next]_vars
  PROVE  Deadlines'
  <1>1. CASE UNCHANGED vars
    BY <1>1, SameDeadlines DEF vars
  <1>2. ASSUME NEW t \in Threads, Enqueue(t) \/ \E r \in Resumables : Spawn(t, r)
        PROVE  Deadlines'
    <2>1. UNCHANGED sleepVars
      BY <1>2 DEF Enqueue, SeeParked, SeeNoneParked, ClaimParked, PushInput, CheckState,
                  UnblockOne, Spawn
    <2> QED BY <2>1, SameDeadlines, SMTT(30)
  <1>3. ASSUME NEW w \in Workers,
               \/ Park(w) \/ BlockingPollInterrupted(w)
               \/ \E f \in Fds : BlockingPollEvent(w, f)
        PROVE  Deadlines'
    <2>1. UNCHANGED sleepVars
      BY <1>3 DEF Park, ParkBit, ParkState, BlockingPollWakeup, UnparkState, UnparkBit,
                  BlockingPollInterrupted, BlockingPollEvent
    <2> QED BY <2>1, SameDeadlines
  <1>4. ASSUME NEW w \in Workers,
               \/ CentralSchedule(w) \/ IsolationSpent(w) \/ RunPort(w) \/ RunReady(w)
               \/ Drained(w) \/ BudgetLeft(w) \/ BudgetSpent(w)
               \/ TaskDone(w) \/ TaskReschedule(w)
               \/ \E f \in Fds : TaskAwaitPort(w, f)
        PROVE  Deadlines'
    <2>1. UNCHANGED sleepVars
      BY <1>4 DEF CentralSchedule, IsolationSpent, RunPort, RunReady, Drained, BudgetLeft,
                  BudgetSpent, TaskDone, TaskReschedule, TaskAwaitPort
    <2> QED BY <2>1, SameDeadlines
  <1>5. ASSUME NEW w \in Workers, TaskYield(w)
        PROVE  Deadlines'
    BY <1>4, <1>5, SleepDeadlines DEF TaskYield, TaskShortSleep
  <1>6. CASE Next
    BY <1>2, <1>3, <1>4, <1>5, <1>6, PollDeadlines, TickDeadlines DEF Next, Run
  <1> QED BY <1>1, <1>6

\* _next_item is the earliest deadline of the sleep queue at every moment, so
\* the early return of dequeue_into never hides a sleeper that is due.  That
\* rests on ownership: a deadline changes only while its resumable is in no
\* other sleep queue.
THEOREM EarliestDeadline == Spec => []NextItemIsEarliest
  <1>1. Init => TypeInv /\ Located /\ HeldOnce /\ Deadlines
    <2>1. Init => Deadlines
      BY DEF Init, Deadlines, NextItemIsEarliest
    <2> QED BY <2>1, InitTypeInv, InitLocated
  <1>2. (TypeInv /\ Located /\ HeldOnce /\ Deadlines) /\ [Next]_vars
          => (TypeInv /\ Located /\ HeldOnce /\ Deadlines)'
    BY NextTypeInv, NextLocated, NextDeadlines
  <1>3. TypeInv /\ Located /\ HeldOnce /\ Deadlines => NextItemIsEarliest
    BY DEF Deadlines
  <1> QED BY <1>1, <1>2, <1>3, PTL DEF Spec

----------------------------------------------------------------------------
(***************************************************************************)
(* Idleness.                                                               *)
(***************************************************************************)

\* A worker counts a spin only over empty queues, and what it counted at the top
\* of central_schedule is checked by the poll that follows.
SpinsOK(w) ==
  /\ pc[w] \in Parking \cup {"unpark_state", "unpark_bit", "task"} => spins[w] = 0
  /\ spins[w] # 0 =>
       \/ port[w] = << >> /\ ready[w] = << >>
       \/ pc[w] = "poll" /\ polled[w] = FALSE
  /\ pc[w] \in Parking => port[w] = << >> /\ ready[w] = << >>

\* A step of another worker, or of a thread that spawns.
LEMMA SameSpins ==
  ASSUME NEW w \in Workers, SpinsOK(w), pc'[w] = pc[w], spins'[w] = spins[w],
         port'[w] = port[w], ready'[w] = ready[w], polled'[w] = polled[w]
  PROVE  SpinsOK(w)'
  BY DEF SpinsOK

\* What a step of worker w leaves to the others.
LEMMA OthersSpin ==
  ASSUME TypeInv, NEW w \in Workers,
         \/ Park(w) \/ BlockingPollInterrupted(w) \/ Run(w)
         \/ \E f \in Fds : BlockingPollEvent(w, f)
  PROVE  \A v \in Workers : v # w =>
           /\ pc'[v] = pc[v] /\ spins'[v] = spins[v] /\ polled'[v] = polled[v]
           /\ port'[v] = port[v] /\ ready'[v] = ready[v]
  <1>0. /\ pc \in [Workers -> PCs] /\ spins \in [Workers -> 0 .. SpinsBeforeIdle]
        /\ polled \in [Workers -> BOOLEAN] /\ port \in [Workers -> Seq(Resumables)]
        /\ ready \in [Workers -> Seq(Resumables)]
    BY DEF TypeInv, TypeOK
  <1>1. CASE Park(w) \/ BlockingPollInterrupted(w)
    BY <1>0, <1>1 DEF Park, ParkBit, ParkState, BlockingPollWakeup, UnparkState, UnparkBit,
                      BlockingPollInterrupted, Goto, queueVars
  <1>2. CASE \E f \in Fds : BlockingPollEvent(w, f)
    BY <1>0, <1>2 DEF BlockingPollEvent, Goto
  <1>3. CASE CentralSchedule(w)
    BY <1>0, <1>3 DEF CentralSchedule
  <1>4. CASE Poll(w)
    <2>1. /\ \A v \in Workers : v # w => pc'[v] = pc[v]
          /\ \A v \in Workers : v # w => spins'[v] = spins[v] /\ polled'[v] = polled[v]
      BY <1>0, <1>4 DEF Poll, Goto
    <2>2. \E e, s : port' = [port EXCEPT ![w] = @ \o e] /\ ready' = [ready EXCEPT ![w] = @ \o s]
      BY <1>4 DEF Poll
    <2> QED BY <1>0, <2>1, <2>2
  <1>5. CASE IsolationSpent(w) \/ Drained(w) \/ BudgetLeft(w) \/ BudgetSpent(w)
    BY <1>0, <1>5 DEF IsolationSpent, Drained, BudgetLeft, BudgetSpent, Goto, queueVars
  <1>6. CASE RunPort(w) \/ RunReady(w)
    BY <1>0, <1>6 DEF RunPort, RunReady, Goto
  <1>7. CASE TaskYield(w)
    BY <1>0, <1>7 DEF TaskYield, TaskDone, TaskReschedule, TaskShortSleep, TaskSleep,
                      TaskAwaitPort, Yields, Goto, queueVars
  <1> QED BY <1>1, <1>2, <1>3, <1>4, <1>5, <1>6, <1>7 DEF Run

\* central_schedule parks after a spin over queues that are empty.
LEMMA CentralSpins ==
  ASSUME TypeInv, NEW w \in Workers, SpinsOK(w), CentralSchedule(w)
  PROVE  SpinsOK(w)'
  <1>0. /\ pc \in [Workers -> PCs] /\ spins \in [Workers -> 0 .. SpinsBeforeIdle]
        /\ polled \in [Workers -> BOOLEAN] /\ ready \in [Workers -> Seq(Resumables)]
        /\ input \in [Workers -> Seq(Resumables)]
        /\ spins[w] \in Int /\ SpinsBeforeIdle \in Nat \ {0}
    BY ConfigAssumption DEF TypeInv, TypeOK
  <1>1. PICK park \in BOOLEAN : park <=> (Idle(w) /\ spins[w] + 1 > SpinsBeforeIdle)
    OBVIOUS
  <1>2. /\ pc[w] = "central" /\ port' = port /\ polled'[w] = FALSE
        /\ pc'[w] = IF park THEN "park_bit" ELSE "poll"
        /\ ready'[w] = ready[w] \o SubSeq(input[w], 1, DequeueCount(w))
        /\ spins'[w] = IF park THEN 0 ELSE IF Idle(w) THEN spins[w] + 1 ELSE spins[w]
    BY <1>0, <1>1 DEF CentralSchedule
  <1>3. CASE park
    <2>1. spins[w] # 0 /\ DequeueCount(w) = 0
      BY <1>0, <1>1, <1>3 DEF Idle
    <2>2. port[w] = << >> /\ ready[w] = << >>
      BY <1>2, <2>1 DEF SpinsOK
    <2>3. ready'[w] = << >>
      <3>1. SubSeq(input[w], 1, DequeueCount(w)) = << >>
        BY <2>1, SubSeqEmpty
      <3> QED BY <1>2, <2>2, <3>1
    <2> QED BY <1>2, <1>3, <2>2, <2>3 DEF SpinsOK
  <1>4. CASE ~park
    BY <1>2, <1>4 DEF SpinsOK, Parking
  <1> QED BY <1>3, <1>4

\* No other step of a worker fills a queue and leaves the count standing.
LEMMA RunSpins ==
  ASSUME TypeInv, LongPreemption = FALSE, NEW w \in Workers, SpinsOK(w),
         Run(w) \/ Park(w) \/ BlockingPollInterrupted(w) \/ \E f \in Fds : BlockingPollEvent(w, f)
  PROVE  SpinsOK(w)'
  <1>0. /\ pc \in [Workers -> PCs] /\ spins \in [Workers -> 0 .. SpinsBeforeIdle]
        /\ polled \in [Workers -> BOOLEAN] /\ ready \in [Workers -> Seq(Resumables)]
        /\ port \in [Workers -> Seq(Resumables)]
    BY DEF TypeInv, TypeOK
  <1> USE DEF Parking
  <1>1. CASE CentralSchedule(w)
    BY <1>1, CentralSpins
  <1>2. CASE IsolationSpent(w)
    <2>1. /\ pc[w] = "poll" /\ pc'[w] = "central" /\ polled[w] = TRUE
          /\ UNCHANGED <<port, ready, spins>>
      BY <1>0, <1>2 DEF IsolationSpent, Goto, queueVars
    <2> QED BY <2>1 DEF SpinsOK
  <1>3. CASE Poll(w)
    <2>1. /\ pc'[w] = "run" /\ spins'[w] = SpinsAfterPoll(port'[w], ready'[w], spins[w])
      BY <1>0, <1>3 DEF Poll, Goto
    <2> QED BY <2>1 DEF SpinsOK, SpinsAfterPoll
  <1>4. CASE RunPort(w)
    <2>1. pc'[w] = "task" /\ spins'[w] = 0
      BY <1>0, <1>4 DEF RunPort, Goto
    <2> QED BY <2>1 DEF SpinsOK
  <1>5. CASE RunReady(w)
    <2>1. pc[w] = "run" /\ pc'[w] = "task" /\ spins' = spins /\ ready[w] # << >>
      BY <1>0, <1>5 DEF RunReady, Goto
    <2> QED BY <2>1 DEF SpinsOK
  <1>6. CASE Drained(w)
    <2>1. /\ pc'[w] = "central" /\ port'[w] = << >> /\ ready'[w] = << >>
      BY <1>0, <1>6 DEF Drained, Goto, queueVars
    <2> QED BY <2>1 DEF SpinsOK
  <1>7. CASE TaskYield(w)
    <2>1. pc[w] = "task" /\ pc'[w] = "budget" /\ spins' = spins
      BY <1>0, <1>7 DEF TaskYield, TaskDone, TaskReschedule, TaskShortSleep, TaskSleep,
                        TaskAwaitPort, Yields, Goto
    <2> QED BY <2>1 DEF SpinsOK
  <1>8. CASE BudgetLeft(w) \/ BudgetSpent(w)
    <2>1. pc[w] = "budget" /\ pc'[w] \in {"run", "poll"} /\ UNCHANGED <<spins, port, ready>>
      BY <1>0, <1>8 DEF BudgetLeft, BudgetSpent, Goto, queueVars
    <2> QED BY <2>1 DEF SpinsOK
  <1>9. CASE Park(w) \/ BlockingPollInterrupted(w)
    <2>1. /\ UNCHANGED <<spins, port, ready>>
          /\ pc[w] \in Parking \cup {"unpark_state", "unpark_bit"}
          /\ pc'[w] \in Parking => pc[w] \in Parking
          /\ pc'[w] # "task"
      BY <1>0, <1>9 DEF Park, ParkBit, ParkState, BlockingPollWakeup, UnparkState, UnparkBit,
                        BlockingPollInterrupted, Goto, queueVars
    <2> QED BY <2>1 DEF SpinsOK
  <1>10. CASE \E f \in Fds : BlockingPollEvent(w, f)
    <2>1. pc[w] = "blocked" /\ pc'[w] = "unpark_state" /\ spins' = spins
      BY <1>0, <1>10 DEF BlockingPollEvent, Goto
    <2> QED BY <2>1 DEF SpinsOK
  <1> QED BY <1>1, <1>2, <1>3, <1>4, <1>5, <1>6, <1>7, <1>8, <1>9, <1>10 DEF Run

LEMMA NextSpins ==
  ASSUME TypeInv, LongPreemption = FALSE, \A w \in Workers : SpinsOK(w), [Next]_vars
  PROVE  \A w \in Workers : SpinsOK(w)'
  <1>1. ASSUME UNCHANGED <<pc, spins, port, ready, polled>>
        PROVE  \A w \in Workers : SpinsOK(w)'
    BY <1>1 DEF SpinsOK
  <1>2. ASSUME NEW w \in Workers,
               \/ Run(w) \/ Park(w) \/ BlockingPollInterrupted(w)
               \/ \E f \in Fds : BlockingPollEvent(w, f)
        PROVE  \A v \in Workers : SpinsOK(v)'
    <2>1. SpinsOK(w)'
      BY <1>2, RunSpins
    <2>2. ASSUME NEW v \in Workers, v # w PROVE SpinsOK(v)'
      BY <1>2, <2>2, OthersSpin, SameSpins
    <2> QED BY <2>1, <2>2
  <1>3. ASSUME NEW t \in Threads, Enqueue(t) \/ \E r \in Resumables : Spawn(t, r)
        PROVE  UNCHANGED <<pc, spins, port, ready, polled>>
    BY <1>3 DEF Enqueue, SeeParked, SeeNoneParked, ClaimParked, PushInput, CheckState,
                UnblockOne, Spawn, workVars, queueVars
  <1>4. Tick \/ UNCHANGED vars => UNCHANGED <<pc, spins, port, ready, polled>>
    BY DEF Tick, vars, workVars, queueVars
  <1>5. CASE Next
    BY <1>1, <1>2, <1>3, <1>4, <1>5 DEF Next
  <1> QED BY <1>1, <1>4, <1>5

\* "The worker has run out of any possible work": unless it was kept off its core
\* for a whole isolation budget before its first poll, a worker parks only when
\* none of its tasks is waiting to run.
THEOREM ParksIdle == LongPreemption = FALSE => (Spec => []ParksOnlyWhenIdle)
  <1> SUFFICES ASSUME LongPreemption = FALSE PROVE Spec => []ParksOnlyWhenIdle
    OBVIOUS
  <1> DEFINE SpinInv == TypeInv /\ \A w \in Workers : SpinsOK(w)
  <1>1. Init => SpinInv
    BY InitTypeInv DEF Init, SpinsOK, Parking
  <1>2. SpinInv /\ [Next]_vars => SpinInv'
    BY NextTypeInv, NextSpins
  <1>3. SpinInv => ParksOnlyWhenIdle
    BY DEF SpinsOK, ParksOnlyWhenIdle
  <1> QED BY <1>1, <1>2, <1>3, PTL DEF Spec
============================================================================
