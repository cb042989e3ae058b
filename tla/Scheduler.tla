----------------------------- MODULE Scheduler -----------------------------
(***************************************************************************)
(* The v2 runtime of xi: the scheduler (xi/core/scheduler.h), its workers  *)
(* (src/core/worker.cpp), their queues (shared_queue.h, worker_queue.h,    *)
(* sleep_queue.h) and the netpoller each worker owns                       *)
(* (src/core/netpoller.cpp).                                               *)
(*                                                                         *)
(* A worker is a thread running worker::run.  Any thread may call spawn:   *)
(* a client thread at any time, a worker while a task runs on it.  A step  *)
(* is an access to memory another thread can see, together with the local  *)
(* computation that follows it.  The racy field worker_control_block.state *)
(* is a plain word, loaded and stored around locked instructions and       *)
(* system calls, so its accesses are modelled as interleaved steps: a      *)
(* store delayed in a store buffer is the storing thread paused before it. *)
(*                                                                         *)
(* Time is relative: wakeup and next_item hold what is left until a        *)
(* deadline, and Tick brings every deadline one unit nearer.               *)
(***************************************************************************)
EXTENDS Integers, Sequences, FiniteSets, SequencesExt

CONSTANTS
  NWorkers,         \* number of workers (cores) of the scheduler
  Clients,          \* threads, other than workers, that call spawn
  Resumables,       \* every resumable that may ever be spawned
  Fds,              \* file descriptors a resumable may wait for
  ClosedFds,        \* those of them that are closed: epoll_ctl fails
  Durations,        \* the arguments of sleep
  ReadyBound,       \* timer_bounds.upper_bound_ready_queue
  DequeueMax,       \* scheduler_dequeue_max
  SpinsBeforeIdle,  \* nr_spins_before_idle
  LongPreemption,   \* may a worker lose its core for a whole isolation budget?
  MaxLag,           \* bound: how late a worker may poll its sleep queue
  Never,            \* steady_clock::time_point::max()
  None              \* no resumable

Workers == 0 .. NWorkers - 1
Threads == Clients \cup Workers

\* _parked_workers is a u64 with one bit per worker.
ASSUME WorkersAssumption ==
  /\ NWorkers \in 1 .. 64
  /\ Clients \cap Workers = {}
ASSUME ResumablesAssumption ==
  /\ IsFiniteSet(Resumables)
  /\ None \notin Resumables
  /\ ClosedFds \subseteq Fds
ASSUME ConfigAssumption ==
  /\ DequeueMax \in Nat \ {0}
  /\ SpinsBeforeIdle \in Nat \ {0}
  /\ LongPreemption \in BOOLEAN
  /\ MaxLag \in Nat
ASSUME TimeAssumption ==
  /\ Durations \subseteq Nat
  /\ ReadyBound \in Nat \ {0}
  /\ Never \in Nat
  /\ \A d \in Durations : d < Never

VARIABLES
  fresh,      \* builders no thread has passed to spawn yet
  call,       \* per thread: where it is inside central_enqueue
  rr,         \* per thread: ROUND_ROBIN modulo the number of workers
  parked,     \* scheduler::_parked_workers, as the set of its bits
  state,      \* worker_control_block.state
  wake,       \* per worker: its netpoller's eventfd counter is not zero
  input,      \* worker_control_block.input_queue (worker::_scheduler_queue)
  pc,         \* where worker::run is
  spins,      \* the local variable spins of worker::run
  polled,     \* has the worker polled since central_schedule?
  ready,      \* worker::_ready_queue
  port,       \* worker::_port_queue
  sleepq,     \* worker::_local_sleep_queue, a set keyed by wakeup
  wakeup,     \* per resumable: _wakeup_time, relative to now
  next_item,  \* local_sleep_queue::_next_item, relative to now
  epoll,      \* per worker and fd: the resumable its armed event points to
  current,    \* worker::_current_task
  done,       \* resumables that finished and were destroyed
  leaked      \* released resumables that no queue and no poller refers to

spawnVars == <<fresh, call, rr>>
parkVars  == <<parked, state, wake>>
workVars  == <<pc, spins, polled, current>>
sleepVars == <<sleepq, wakeup, next_item>>
queueVars == <<input, ready, port, epoll>>
endVars   == <<done, leaked>>
vars == <<spawnVars, parkVars, workVars, sleepVars, queueVars, endVars>>

NoCall == [at |-> "idle", job |-> None, seen |-> {}, target |-> 0]

Init ==
  /\ fresh = Resumables
  /\ call = [t \in Threads |-> NoCall]
  /\ rr = [t \in Threads |-> 0]
  /\ parked = {}
  /\ state = [w \in Workers |-> "RUNNING"]
  /\ wake = [w \in Workers |-> FALSE]
  /\ input = [w \in Workers |-> << >>]
  /\ pc = [w \in Workers |-> "central"]
  /\ spins = [w \in Workers |-> 0]
  /\ polled = [w \in Workers |-> FALSE]
  /\ ready = [w \in Workers |-> << >>]
  /\ port = [w \in Workers |-> << >>]
  /\ sleepq = [w \in Workers |-> {}]
  /\ wakeup = [r \in Resumables |-> Never]
  /\ next_item = [w \in Workers |-> Never]
  /\ epoll = [w \in Workers |-> [f \in Fds |-> None]]
  /\ current = [w \in Workers |-> None]
  /\ done = {}
  /\ leaked = {}

----------------------------------------------------------------------------
(***************************************************************************)
(* spawn and scheduler::central_enqueue, on any thread.                    *)
(***************************************************************************)

\* A thread may call spawn: a client always, a worker from its running task.
MaySpawn(t) ==
  /\ call[t].at = "idle"
  /\ t \in Workers => pc[t] = "task"

\* runtime_environment::spawn, up to the first load of _parked_workers.
Spawn(t, r) ==
  /\ MaySpawn(t)
  /\ r \in fresh
  /\ fresh' = fresh \ {r}
  /\ call' = [call EXCEPT ![t] = [NoCall EXCEPT !.at = "load", !.job = r]]
  /\ UNCHANGED <<rr, parkVars, workVars, sleepVars, queueVars, endVars>>

\* _first_parked_worker loads _parked_workers and finds a bit set.
SeeParked(t) ==
  /\ call[t].at = "load"
  /\ parked # {}
  /\ call' = [call EXCEPT ![t].at = "claim", ![t].seen = parked]
  /\ UNCHANGED <<fresh, rr, parkVars, workVars, sleepVars, queueVars, endVars>>

\* Mutant: the round robin counter is not reduced to an index.
RoundRobinUnbounded(i) == i + 1

\* ROUND_ROBIN++ % _workers.size().
NextRoundRobin(i) == (i + 1) % NWorkers

\* _first_parked_worker finds no bit set: _least_loaded_worker, round robin.
SeeNoneParked(t) ==
  /\ call[t].at = "load"
  /\ parked = {}
  /\ call' = [call EXCEPT ![t].at = "push", ![t].target = rr[t]]
  /\ rr' = [rr EXCEPT ![t] = NextRoundRobin(@)]
  /\ UNCHANGED <<fresh, parkVars, workVars, sleepVars, queueVars, endVars>>

\* count_trailing_zeroes of a non-empty bit set.
FirstBit(S) == CHOOSE i \in S : \A j \in S : i <= j

\* fetch_and clears the lowest bit seen; the claim holds only if the set was
\* still the one loaded, otherwise the loop starts over.
ClaimParked(t) ==
  /\ call[t].at = "claim"
  /\ LET idx == FirstBit(call[t].seen)
     IN  /\ parked' = parked \ {idx}
         /\ call' = IF parked = call[t].seen
                    THEN [call EXCEPT ![t].at = "push", ![t].target = idx,
                                      ![t].seen = {}]
                    ELSE [call EXCEPT ![t].at = "load", ![t].seen = {}]
  /\ UNCHANGED <<fresh, rr, state, wake, workVars, sleepVars, queueVars,
                 endVars>>

\* shared_queue::enqueue on the chosen worker.
PushInput(t) ==
  /\ call[t].at = "push"
  /\ input' = [input EXCEPT ![call[t].target] = Append(@, call[t].job)]
  /\ call' = [call EXCEPT ![t].at = "check", ![t].job = None]
  /\ UNCHANGED <<fresh, rr, parkVars, workVars, sleepVars, ready, port, epoll,
                 endVars>>

\* central_enqueue reads the chosen worker's state.
CheckState(t) ==
  /\ call[t].at = "check"
  /\ call' = IF state[call[t].target] = "PARKED_NETPOLL"
             THEN [call EXCEPT ![t].at = "unblock"]
             ELSE [call EXCEPT ![t] = NoCall]
  /\ UNCHANGED <<fresh, rr, parkVars, workVars, sleepVars, queueVars, endVars>>

\* netpoller::unblock_one writes the eventfd.
UnblockOne(t) ==
  /\ call[t].at = "unblock"
  /\ wake' = [wake EXCEPT ![call[t].target] = TRUE]
  /\ call' = [call EXCEPT ![t] = NoCall]
  /\ UNCHANGED <<fresh, rr, parked, state, workVars, sleepVars, queueVars,
                 endVars>>

Enqueue(t) ==
  \/ SeeParked(t)
  \/ SeeNoneParked(t)
  \/ ClaimParked(t)
  \/ PushInput(t)
  \/ CheckState(t)
  \/ UnblockOne(t)

----------------------------------------------------------------------------
(***************************************************************************)
(* scheduler::_park, called by a worker that reports as idle.              *)
(***************************************************************************)

Goto(w, from, to) ==
  /\ pc[w] = from
  /\ pc' = [pc EXCEPT ![w] = to]

\* _parked_workers.fetch_or(park_idx).
ParkBit(w) ==
  /\ Goto(w, "park_bit", "park_state")
  /\ parked' = parked \cup {w}
  /\ UNCHANGED <<spawnVars, state, wake, spins, polled, current, sleepVars,
                 queueVars, endVars>>

\* w_ctrl.state = PARKED_NETPOLL; the worker then enters epoll_wait.
ParkState(w) ==
  /\ Goto(w, "park_state", "blocked")
  /\ state' = [state EXCEPT ![w] = "PARKED_NETPOLL"]
  /\ UNCHANGED <<spawnVars, parked, wake, spins, polled, current, sleepVars,
                 queueVars, endVars>>

\* blocking_poll_into(port_queue, 1) reports the eventfd, which is drained.
BlockingPollWakeup(w) ==
  /\ Goto(w, "blocked", "unpark_state")
  /\ wake[w]
  /\ wake' = [wake EXCEPT ![w] = FALSE]
  /\ UNCHANGED <<spawnVars, parked, state, spins, polled, current, sleepVars,
                 queueVars, endVars>>

\* Mutant: registered without EPOLLONESHOT, an event stays armed.
StillArmed(e, fired) == e

\* The registrations of a poller after the events of fired were reported:
\* EPOLLONESHOT disarms them.
Disarmed(e, fired) == [f \in Fds |-> IF f \in fired THEN None ELSE e[f]]

\* blocking_poll_into reports one armed fd: its resumable enters the port
\* queue and, the event being EPOLLONESHOT, the registration is disarmed.
BlockingPollEvent(w, f) ==
  /\ Goto(w, "blocked", "unpark_state")
  /\ epoll[w][f] # None
  /\ port' = [port EXCEPT ![w] = Append(@, epoll[w][f])]
  /\ epoll' = [epoll EXCEPT ![w] = Disarmed(@, {f})]
  /\ UNCHANGED <<spawnVars, parkVars, spins, polled, current, sleepVars,
                 input, ready, endVars>>

\* epoll_wait fails with EINTR: poll_into returns 0.
BlockingPollInterrupted(w) ==
  /\ Goto(w, "blocked", "unpark_state")
  /\ UNCHANGED <<spawnVars, parkVars, spins, polled, current, sleepVars,
                 queueVars, endVars>>

\* w_ctrl.state = RUNNING.
UnparkState(w) ==
  /\ Goto(w, "unpark_state", "unpark_bit")
  /\ state' = [state EXCEPT ![w] = "RUNNING"]
  /\ UNCHANGED <<spawnVars, parked, wake, spins, polled, current, sleepVars,
                 queueVars, endVars>>

\* _parked_workers.fetch_and(~park_idx); back to central_schedule.
UnparkBit(w) ==
  /\ Goto(w, "unpark_bit", "central")
  /\ parked' = parked \ {w}
  /\ UNCHANGED <<spawnVars, state, wake, spins, polled, current, sleepVars,
                 queueVars, endVars>>

----------------------------------------------------------------------------
(***************************************************************************)
(* worker::run.                                                            *)
(***************************************************************************)

\* How many builders shared_queue::dequeue_into takes.
DequeueCount(w) ==
  IF Len(input[w]) <= DequeueMax THEN Len(input[w]) ELSE DequeueMax

\* Mutant: the sleep queue is not consulted.
IdleDespiteSleepers(w) == DequeueCount(w) = 0

\* The queue was empty and no sleeper is pending: this round counts as a spin.
Idle(w) == DequeueCount(w) = 0 /\ sleepq[w] = {}

\* The top of central_schedule: dequeue, then decide whether to park.
CentralSchedule(w) ==
  /\ pc[w] = "central"
  /\ LET k    == DequeueCount(w)
         park == Idle(w) /\ spins[w] + 1 > SpinsBeforeIdle
     IN  /\ ready' = [ready EXCEPT ![w] = @ \o SubSeq(input[w], 1, k)]
         /\ input' = [input EXCEPT ![w] = SubSeq(@, k + 1, Len(@))]
         /\ spins' = [spins EXCEPT ![w] = IF park THEN 0
                                          ELSE IF Idle(w) THEN @ + 1 ELSE @]
         /\ pc' = [pc EXCEPT ![w] = IF park THEN "park_bit" ELSE "poll"]
  /\ polled' = [polled EXCEPT ![w] = FALSE]
  /\ UNCHANGED <<spawnVars, parkVars, current, sleepVars, port, epoll, endVars>>

\* Mutant: the isolation budget starts anew at every goto poll.
IsolationNeverSpent(w) == pc[w] = "poll" /\ FALSE /\ UNCHANGED vars

\* isol_budget.adjust_spent() says the isolation budget is spent.  It does so
\* at the first check, right after the budget is made, only to a worker that
\* was kept off its core in between.
IsolationSpent(w) ==
  /\ Goto(w, "poll", "central")
  /\ polled[w] \/ LongPreemption
  /\ UNCHANGED <<spawnVars, parkVars, spins, polled, current, sleepVars,
                 queueVars, endVars>>

\* The sleepers local_sleep_queue::dequeue_into takes; none if next_item says
\* that none is due.
Due(w) ==
  IF next_item[w] > 0 THEN {} ELSE {r \in sleepq[w] : wakeup[r] <= 0}

\* The order in which the set hands them over.
InWakeupOrder(s) ==
  \A i, j \in DOMAIN s : i < j => wakeup[s[i]] < wakeup[s[j]]

\* Mutant: _next_item is not brought up to date.
NextItemStale(w, left) == next_item[w]

\* _next_item after dequeue_into: the first sleeper left, or max.
NextItem(w, left) ==
  IF next_item[w] > 0 THEN next_item[w]
  ELSE IF left = {} THEN Never
  ELSE CHOOSE t \in {wakeup[r] : r \in left} :
         \A r \in left : t <= wakeup[r]

\* Mutant: finding work does not restart the spin count.
SpinsKept(p, q, n) == n

\* Reset spin count if there's work to be done.
SpinsAfterPoll(p, q, n) == IF p # << >> \/ q # << >> THEN 0 ELSE n

\* One turn of the poll loop: poll_into moves the resumables of the fds that
\* fired (fired) to the port queue and drains the eventfd, the sleepers that
\* are due go to the ready queue, and spins restarts if there is work.
Poll(w) ==
  /\ Goto(w, "poll", "run")
  /\ \E fired \in SUBSET {f \in Fds : epoll[w][f] # None} :
     \E events \in SetToSeqs({epoll[w][f] : f \in fired}) :
        /\ port' = [port EXCEPT ![w] = @ \o events]
        /\ epoll' = [epoll EXCEPT ![w] = Disarmed(@, fired)]
  /\ wake' = [wake EXCEPT ![w] = FALSE]
  /\ LET due  == Due(w)
         left == sleepq[w] \ due
     IN  /\ \E s \in SetToSeqs(due) :
              /\ InWakeupOrder(s)
              /\ ready' = [ready EXCEPT ![w] = @ \o s]
         /\ sleepq' = [sleepq EXCEPT ![w] = left]
         /\ wakeup' = [r \in Resumables |->
                         IF r \in due THEN Never ELSE wakeup[r]]
         /\ next_item' = [next_item EXCEPT ![w] = NextItem(w, left)]
  /\ spins' = [spins EXCEPT ![w] = SpinsAfterPoll(port'[w], ready'[w], @)]
  /\ polled' = [polled EXCEPT ![w] = TRUE]
  /\ UNCHANGED <<spawnVars, parked, state, current, input, endVars>>

\* worker_queue::dequeue pops the front it returns.
Popped(q) == Tail(q)

\* _run_task_from_queue(_port_queue): ports first.
RunPort(w) ==
  /\ Goto(w, "run", "task")
  /\ port[w] # << >>
  /\ current' = [current EXCEPT ![w] = Head(port[w])]
  /\ port' = [port EXCEPT ![w] = Popped(@)]
  /\ spins' = [spins EXCEPT ![w] = 0]
  /\ UNCHANGED <<spawnVars, parkVars, polled, sleepVars, input, ready, epoll,
                 endVars>>

\* _run_task_from_queue(_ready_queue), when no port is left.
RunReady(w) ==
  /\ Goto(w, "run", "task")
  /\ port[w] = << >>
  /\ ready[w] # << >>
  /\ current' = [current EXCEPT ![w] = Head(ready[w])]
  /\ ready' = [ready EXCEPT ![w] = Popped(@)]
  /\ UNCHANGED <<spawnVars, parkVars, spins, polled, sleepVars, input, port,
                 epoll, endVars>>

\* Both queues are empty.  loop_budget is not spent here: the last
\* adjust_spent said so, or none was made and is_expended compares the start
\* with itself, so the carry-over branch is always taken.
Drained(w) ==
  /\ Goto(w, "run", "central")
  /\ port[w] = << >>
  /\ ready[w] = << >>
  /\ UNCHANGED <<spawnVars, parkVars, spins, polled, current, sleepVars,
                 queueVars, endVars>>

\* The task on w yields or returns: resume comes back with a result.
Yields(w) ==
  /\ Goto(w, "task", "budget")
  /\ call[w].at = "idle"
  /\ current' = [current EXCEPT ![w] = None]

\* resumable::done: the match object destroys the resumable.
TaskDone(w) ==
  /\ Yields(w)
  /\ done' = done \cup {current[w]}
  /\ UNCHANGED <<spawnVars, parkVars, spins, polled, sleepVars, queueVars,
                 leaked>>

\* resumable::reschedule: back to the ready queue.
TaskReschedule(w) ==
  /\ Yields(w)
  /\ ready' = [ready EXCEPT ![w] = Append(@, current[w])]
  /\ UNCHANGED <<spawnVars, parkVars, spins, polled, sleepVars, input, port,
                 epoll, endVars>>

\* _block_resumable_on_sleep with a sleep below upper_bound_ready_queue.
TaskShortSleep(w, d) ==
  /\ d < ReadyBound
  /\ TaskReschedule(w)

\* _block_resumable_on_sleep with a longer sleep: local_sleep_queue::enqueue.
\* The intrusive set refuses an element whose key it already holds, and the
\* resumable has been released: nothing refers to it any more.
TaskSleep(w, d) ==
  /\ Yields(w)
  /\ d >= ReadyBound
  /\ next_item' = [next_item EXCEPT ![w] = IF @ > d THEN d ELSE @]
  /\ wakeup' = [wakeup EXCEPT ![current[w]] = d]
  /\ IF \E q \in sleepq[w] : wakeup[q] = d
     THEN /\ leaked' = leaked \cup {current[w]}
          /\ UNCHANGED sleepq
     ELSE /\ sleepq' = [sleepq EXCEPT ![w] = @ \cup {current[w]}]
          /\ UNCHANGED leaked
  /\ UNCHANGED <<spawnVars, parkVars, spins, polled, queueVars, done>>

\* netpoller::await_readable and await_writable: one registration per fd, so
\* an earlier one is overwritten; on a closed fd epoll_ctl fails with EBADF,
\* which is ignored.
TaskAwaitPort(w, f) ==
  /\ Yields(w)
  /\ IF f \in ClosedFds
     THEN /\ leaked' = leaked \cup {current[w]}
          /\ UNCHANGED epoll
     ELSE /\ epoll' = [epoll EXCEPT ![w][f] = current[w]]
          /\ leaked' = leaked \cup ({epoll[w][f]} \ {None})
  /\ UNCHANGED <<spawnVars, parkVars, spins, polled, sleepVars, input, ready,
                 port, done>>

\* loop_budget.adjust_spent() after a task: time is left, take the next one.
BudgetLeft(w) ==
  /\ Goto(w, "budget", "run")
  /\ UNCHANGED <<spawnVars, parkVars, spins, polled, current, sleepVars,
                 queueVars, endVars>>

\* Mutant: the loop goes on though its budget is spent.
BudgetIgnored(w) == BudgetLeft(w)

\* loop_budget.adjust_spent() after a task: goto poll.
BudgetSpent(w) ==
  /\ Goto(w, "budget", "poll")
  /\ UNCHANGED <<spawnVars, parkVars, spins, polled, current, sleepVars,
                 queueVars, endVars>>

----------------------------------------------------------------------------
\* Time passes while somebody sleeps.
Tick ==
  LET asleep == UNION {sleepq[w] : w \in Workers}
  IN  /\ asleep # {}
      /\ \A r \in asleep : wakeup[r] > -MaxLag
      /\ wakeup' = [r \in Resumables |->
                      IF r \in asleep THEN wakeup[r] - 1 ELSE wakeup[r]]
      /\ next_item' = [w \in Workers |->
                         IF next_item[w] = Never THEN Never
                         ELSE next_item[w] - 1]
      /\ UNCHANGED <<spawnVars, parkVars, workVars, sleepq, queueVars, endVars>>

Park(w) ==
  \/ ParkBit(w)
  \/ ParkState(w)
  \/ BlockingPollWakeup(w)
  \/ UnparkState(w)
  \/ UnparkBit(w)

TaskYield(w) ==
  \/ TaskDone(w)
  \/ TaskReschedule(w)
  \/ \E d \in Durations : TaskShortSleep(w, d)
  \/ \E d \in Durations : TaskSleep(w, d)
  \/ \E f \in Fds : TaskAwaitPort(w, f)

Run(w) ==
  \/ CentralSchedule(w)
  \/ IsolationSpent(w)
  \/ Poll(w)
  \/ RunPort(w)
  \/ RunReady(w)
  \/ Drained(w)
  \/ TaskYield(w)
  \/ BudgetLeft(w)
  \/ BudgetSpent(w)

Next ==
  \/ \E t \in Threads, r \in Resumables : Spawn(t, r)
  \/ \E t \in Threads : Enqueue(t)
  \/ \E w \in Workers : Park(w)
  \/ \E w \in Workers, f \in Fds : BlockingPollEvent(w, f)
  \/ \E w \in Workers : BlockingPollInterrupted(w)
  \/ \E w \in Workers : Run(w)
  \/ Tick

Spec == Init /\ [][Next]_vars

(***************************************************************************)
(* Fairness.  A thread that can take a step takes one: workers and clients *)
(* are operating system threads, and a task is expected to yield.  The     *)
(* time stamp counter grows without bound, so a budget that is checked     *)
(* again and again is found spent, and the clock ticks; a worker is not    *)
(* kept off its core at the same two instructions for ever.  Nothing is    *)
(* assumed of the fds, of signals, or of who calls spawn.                  *)
(***************************************************************************)
Fairness ==
  /\ \A t \in Threads : WF_vars(Enqueue(t))
  /\ \A w \in Workers : /\ WF_vars(Park(w) \/ Run(w))
                        /\ SF_vars(Poll(w))
                        /\ SF_vars(BudgetSpent(w))
                        /\ SF_vars(IsolationSpent(w))
  /\ WF_vars(Tick)

FairSpec == Spec /\ Fairness

----------------------------------------------------------------------------
(***************************************************************************)
(* Properties.                                                             *)
(***************************************************************************)

PCs == {"central", "poll", "run", "task", "budget", "park_bit", "park_state",
        "blocked", "unpark_state", "unpark_bit"}

CallPoints == {"idle", "load", "claim", "push", "check", "unblock"}

Calls == [at : CallPoints, job : Resumables \cup {None},
          seen : SUBSET Workers, target : Workers]

\* Every variable holds a value of its type.
TypeOK ==
  /\ fresh \in SUBSET Resumables
  /\ call \in [Threads -> Calls]
  /\ rr \in [Threads -> Workers]
  /\ parked \in SUBSET Workers
  /\ state \in [Workers -> {"RUNNING", "PARKED_NETPOLL"}]
  /\ wake \in [Workers -> BOOLEAN]
  /\ input \in [Workers -> Seq(Resumables)]
  /\ pc \in [Workers -> PCs]
  /\ spins \in [Workers -> 0 .. SpinsBeforeIdle]
  /\ polled \in [Workers -> BOOLEAN]
  /\ ready \in [Workers -> Seq(Resumables)]
  /\ port \in [Workers -> Seq(Resumables)]
  /\ sleepq \in [Workers -> SUBSET Resumables]
  /\ wakeup \in [Resumables -> Int]
  /\ next_item \in [Workers -> Int]
  /\ epoll \in [Workers -> [Fds -> Resumables \cup {None}]]
  /\ current \in [Workers -> Resumables \cup {None}]
  /\ done \in SUBSET Resumables
  /\ leaked \in SUBSET Resumables

\* Everything that can own a resumable, or the builder it will be built from.
Owners ==
  ({"job"} \X Threads)
    \cup ({"input", "ready", "port", "sleep", "epoll", "current"} \X Workers)
    \cup {<<"fresh", None>>, <<"done", None>>, <<"leaked", None>>}

\* Owner o = <<kind, thread or worker>> holds r.
Holds(o, r) ==
  LET a == o[2]
  IN  CASE o[1] = "job"     -> call[a].job = r
        [] o[1] = "input"   -> Contains(input[a], r)
        [] o[1] = "ready"   -> Contains(ready[a], r)
        [] o[1] = "port"    -> Contains(port[a], r)
        [] o[1] = "sleep"   -> r \in sleepq[a]
        [] o[1] = "epoll"   -> \E f \in Fds : epoll[a][f] = r
        [] o[1] = "current" -> current[a] = r
        [] o[1] = "fresh"   -> r \in fresh
        [] o[1] = "done"    -> r \in done
        [] o[1] = "leaked"  -> r \in leaked

\* A resumable is never in two places at once and never vanishes: at each
\* moment exactly one queue, poller, worker or caller owns it (the pointers
\* passed between them are raw after own<>::release).
OneOwner ==
  \A r \in Resumables :
    \E o \in Owners : /\ Holds(o, r)
                      /\ \A p \in Owners : Holds(p, r) => p = o

\* An owner holds it once: no queue links the same resumable twice, and no
\* two armed events of a poller point to the same resumable.
HeldOnce ==
  \A w \in Workers :
    /\ IsInjective(input[w]) /\ IsInjective(ready[w]) /\ IsInjective(port[w])
    /\ \A f, g \in Fds :
         epoll[w][f] = epoll[w][g] => f = g \/ epoll[w][f] = None

Parking == {"park_bit", "park_state", "blocked"}

\* A worker never blocks in the netpoller while one of its tasks sleeps: the
\* poll has no timeout, and the sleeper would not be woken.
ParksWithoutSleepers ==
  \A w \in Workers : pc[w] \in Parking => sleepq[w] = {}

\* "The worker has run out of any possible work": when it blocks in the
\* netpoller, no task of its own is waiting to run.
ParksOnlyWhenIdle ==
  \A w \in Workers :
    pc[w] \in Parking => port[w] = << >> /\ ready[w] = << >>

\* next_item is the earliest deadline of the sleep queue, so the early return
\* of dequeue_into never hides a sleeper that is due.
NextItemIsEarliest ==
  \A w \in Workers :
    /\ \A r \in sleepq[w] : next_item[w] <= wakeup[r]
    /\ IF sleepq[w] = {} THEN next_item[w] = Never
                         ELSE \E r \in sleepq[w] : next_item[w] = wakeup[r]

\* The stage of a resumable, from who owns it.
Stage(r) ==
  CASE r \in done -> "done"
    [] r \in leaked -> "lost"
    [] r \in fresh -> "new"
    [] \E t \in Threads : Holds(<<"job", t>>, r) -> "spawning"
    [] \E w \in Workers : Holds(<<"current", w>>, r) -> "running"
    [] \E w \in Workers : \/ Holds(<<"sleep", w>>, r)
                          \/ Holds(<<"epoll", w>>, r) -> "blocked"
    [] \E w \in Workers : \/ Holds(<<"input", w>>, r)
                          \/ Holds(<<"ready", w>>, r)
                          \/ Holds(<<"port", w>>, r) -> "queued"

LC == INSTANCE Lifecycle WITH stage <- [r \in Resumables |-> Stage(r)]

\* The scheduler implements the life cycle of a resumable.
ImplementsLifecycle == LC!Spec

\* Every sleeper leaves the sleep queue: the budgets make a worker poll again
\* however busy its tasks keep it, and a worker with a sleeper never parks.
SleepersWake ==
  \A w \in Workers, r \in Resumables :
    r \in sleepq[w] ~> r \notin sleepq[w]

\* A worker's own work cannot starve the jobs spawned on it: they are taken
\* unless the worker blocks in the netpoller.
InputTaken ==
  \A w \in Workers, r \in Resumables :
    r \in ToSet(input[w]) ~> (r \notin ToSet(input[w]) \/ pc[w] = "blocked")

\* "Scheduler will block until it has more work": a job spawned on a worker is
\* taken from its input queue.
SpawnedIsTaken ==
  \A w \in Workers, r \in Resumables :
    r \in ToSet(input[w]) ~> r \notin ToSet(input[w])

============================================================================
