-------------------------- MODULE WorkerIsolation --------------------------
(***************************************************************************)
(* The first runtime of xi: workers under the worker_isolation policy      *)
(* (xi/core/worker.h, xi/core/policy/worker_isolation.h), the coordinator  *)
(* that spreads spawned tasks over them (xi/core/coordinator.h) and the    *)
(* epoll reactor each of them owns (src/core/reactor/epoll.cpp).           *)
(*                                                                         *)
(* A resumable belongs to the worker it is attached to.  Another thread    *)
(* hands a resumable to a worker through its external queue and then       *)
(* writes its eventfd; the worker drains the queue before it polls.  A     *)
(* task may also wait in a synchronisation object (the channels of         *)
(* channel.h): it registers itself and only then yields, so a task of      *)
(* another worker may unblock it while it still runs.                      *)
(*                                                                         *)
(* spawn does not push the new resumable but a maker, a small blocking     *)
(* resumable that creates it on the worker that runs it.  An item of a     *)
(* queue is <<"make", r>> or <<"run", r>>.  Time is relative, as in        *)
(* Scheduler.                                                              *)
(***************************************************************************)
EXTENDS Integers, Sequences, FiniteSets, SequencesExt

CONSTANTS
  NWorkers,    \* number of workers (cores) of the coordinator
  Clients,     \* threads, other than workers, that call spawn
  Resumables,  \* the resumables that are followed
  Fds,         \* file descriptors a resumable may wait for
  ClosedFds,   \* those of them that are closed: epoll_ctl fails
  Durations,   \* the arguments of sleep
  Slack,       \* the 100us by which _drain_sleep_queue runs ahead of the clock
  MaxLag,      \* bound: how late a worker may drain its sleep queue
  Never,       \* TimeAuthority::max()
  None         \* no item, no worker

Workers == 0 .. NWorkers - 1
Threads == Clients \cup Workers
Items == {"make", "run"} \X Resumables

ASSUME IsolationAssumption ==
  /\ NWorkers \in Nat \ {0}
  /\ Clients \cap Workers = {}
  /\ IsFiniteSet(Resumables)
  /\ None \notin Items /\ None \notin Resumables /\ None \notin Workers
  /\ ClosedFds \subseteq Fds
ASSUME ClockAssumption ==
  /\ Durations \subseteq Nat
  /\ Slack \in Nat /\ MaxLag \in Nat /\ Never \in Nat
  /\ \A d \in Durations : d < Never
  /\ Slack < Never

VARIABLES
  fresh,        \* resumables no thread has passed to spawn yet
  call,         \* per thread: where it is inside push_externally
  next_worker,  \* coordinator_data.next_worker modulo the number of workers
  attached,     \* resumable::_worker
  external,     \* worker_data.external_queue
  wake,         \* per worker: its reactor's eventfd counter is not zero
  pc,           \* where worker::run is
  current,      \* worker::_current_task
  ready,        \* worker_data.ready_queue
  sleepq,       \* worker_data.sleep_queue, a set keyed by wakeup
  wakeup,       \* per resumable: _wakeup_time, relative to now
  next_wakeup,  \* worker_data.next_wakeup, relative to now
  epoll,        \* per worker and fd: the resumable its armed event points to
  waiting,      \* resumables registered with a synchronisation object
  done,         \* resumables that finished and were deleted
  lost,         \* blocked resumables that nothing refers to
  aborted       \* an assertion failed and the process ended

callVars  == <<fresh, call, next_worker, attached>>
runVars   == <<pc, current, ready>>
sleepVars == <<sleepq, wakeup, next_wakeup>>
endVars   == <<waiting, done, lost, aborted>>
vars == <<callVars, external, wake, runVars, sleepVars, epoll, endVars>>

NoCall == [at |-> "idle", item |-> None, target |-> 0, writes |-> 0]

Init ==
  /\ fresh = Resumables
  /\ call = [t \in Threads |-> NoCall]
  /\ next_worker = 0
  /\ attached = [r \in Resumables |-> None]
  /\ external = [w \in Workers |-> << >>]
  /\ wake = [w \in Workers |-> FALSE]
  /\ pc = [w \in Workers |-> "drain"]
  /\ current = [w \in Workers |-> None]
  /\ ready = [w \in Workers |-> << >>]
  /\ sleepq = [w \in Workers |-> {}]
  /\ wakeup = [r \in Resumables |-> Never]
  /\ next_wakeup = [w \in Workers |-> Never]
  /\ epoll = [w \in Workers |-> [f \in Fds |-> None]]
  /\ waiting = {}
  /\ done = {}
  /\ lost = {}
  /\ aborted = FALSE

----------------------------------------------------------------------------
(***************************************************************************)
(* Handing an item to a worker from another thread.                        *)
(***************************************************************************)

\* The task of w runs, and is not inside a call.
Running(w) ==
  /\ ~aborted
  /\ pc[w] = "task"
  /\ call[w].at = "idle"
  /\ current[w][1] = "run"

\* The resumable that w runs.
Self(w) == current[w][2]

\* next_worker: fetch_add, modulo the number of workers.
NextWorker(n) == (n + 1) % NWorkers

\* spawn: coordinator::schedule picks the next worker for a maker of r, and
\* central_schedule signals it twice.
Spawn(t, r) ==
  /\ IF t \in Workers THEN Running(t) ELSE ~aborted /\ call[t].at = "idle"
  /\ r \in fresh
  /\ fresh' = fresh \ {r}
  /\ next_worker' = NextWorker(next_worker)
  /\ call' = [call EXCEPT ![t] = [at |-> "push", item |-> <<"make", r>>,
                                  target |-> next_worker, writes |-> 2]]
  /\ UNCHANGED <<attached, external, wake, runVars, sleepVars, epoll, endVars>>

\* The counter is shared with every other spawn of the program; of the tasks
\* spawned elsewhere only their share of the counter is modelled, while it
\* still matters.
SpawnElsewhere ==
  /\ ~aborted
  /\ fresh # {}
  /\ next_worker' = NextWorker(next_worker)
  /\ UNCHANGED <<fresh, call, attached, external, wake, runVars, sleepVars,
                 epoll, endVars>>

\* push_externally: external_queue.push.
PushExternal(t) ==
  /\ ~aborted
  /\ call[t].at = "push"
  /\ external' = [external EXCEPT ![call[t].target] = Append(@, call[t].item)]
  /\ call' = [call EXCEPT ![t].at = "signal", ![t].item = None]
  /\ UNCHANGED <<fresh, next_worker, attached, wake, runVars, sleepVars, epoll,
                 endVars>>

\* Mutant: the eventfd is not written.
NoWakeup(w) == wake' = wake

\* epoll::maybe_wakeup: eventfd_write.
MaybeWakeup(w) == wake' = [wake EXCEPT ![w] = TRUE]

\* The call once one more of its writes is done.
Signalled(c) ==
  IF c.writes = 1 THEN NoCall ELSE [c EXCEPT !.writes = c.writes - 1]

\* maybe_wakeup, once for push_externally and once more for central_schedule.
Signal(t) ==
  /\ ~aborted
  /\ call[t].at = "signal"
  /\ MaybeWakeup(call[t].target)
  /\ call' = [call EXCEPT ![t] = Signalled(@)]
  /\ UNCHANGED <<fresh, next_worker, attached, external, runVars, sleepVars,
                 epoll, endVars>>

Call(t) == PushExternal(t) \/ Signal(t)

----------------------------------------------------------------------------
(***************************************************************************)
(* worker_isolation::pop.                                                  *)
(***************************************************************************)

\* Mutant: the cached deadline is not brought up to date.
NextWakeupStale(w, left) == next_wakeup[w]

\* next_wakeup after _drain_sleep_queue: the first sleeper left, or max.
NextWakeup(w, left) ==
  IF next_wakeup[w] > Slack THEN next_wakeup[w]
  ELSE IF left = {} THEN Never
  ELSE CHOOSE t \in {wakeup[r] : r \in left} :
         \A r \in left : t <= wakeup[r]

\* The sleepers _drain_sleep_queue takes.
Due(w) ==
  IF next_wakeup[w] > Slack THEN {} ELSE {r \in sleepq[w] : wakeup[r] <= Slack}

\* The order in which the set hands them over.
InWakeupOrder(s) ==
  \A i, j \in DOMAIN s : i < j => wakeup[s[i]] < wakeup[s[j]]

RunItems(s) == [i \in DOMAIN s |-> <<"run", s[i]>>]

\* _drain_external_queue, then _drain_sleep_queue.
Drain(w) ==
  /\ ~aborted
  /\ pc[w] = "drain"
  /\ pc' = [pc EXCEPT ![w] = "poll"]
  /\ external' = [external EXCEPT ![w] = << >>]
  /\ \E s \in SetToSeqs(Due(w)) :
       /\ InWakeupOrder(s)
       /\ ready' = [ready EXCEPT ![w] = @ \o external[w] \o RunItems(s)]
  /\ sleepq' = [sleepq EXCEPT ![w] = @ \ Due(w)]
  /\ next_wakeup' = [next_wakeup EXCEPT ![w] =
                       NextWakeup(w, sleepq[w] \ Due(w))]
  /\ UNCHANGED <<callVars, wake, current, wakeup, epoll, endVars>>

\* poll_for blocks, until the timer expires, only with an empty ready queue.
Blocks(w) == ready[w] = << >> /\ next_wakeup[w] > 0

\* Mutant: registered without EPOLLONESHOT, an event stays armed.
StillArmed(e, fired) == e

\* The registrations left after the events of fired: EPOLLONESHOT.
Disarmed(e, fired) == [f \in Fds |-> IF f \in fired THEN None ELSE e[f]]

\* epoll::poll_for: the resumables whose event fired are unblocked, on their
\* own worker, and the eventfd is read.
Poll(w) ==
  /\ ~aborted
  /\ pc[w] = "poll"
  /\ \E fired \in SUBSET {f \in Fds : epoll[w][f] # None} :
       /\ Blocks(w) => fired # {} \/ wake[w]
       /\ epoll' = [epoll EXCEPT ![w] = Disarmed(@, fired)]
       /\ \E events \in SetToSeqs({epoll[w][f] : f \in fired}) :
            ready' = [ready EXCEPT ![w] = @ \o RunItems(events)]
  /\ wake' = [wake EXCEPT ![w] = FALSE]
  /\ pc' = [pc EXCEPT ![w] = "pop"]
  /\ UNCHANGED <<callVars, external, current, sleepVars, endVars>>

\* epoll_pwait fails with EINTR while it blocks, or a timer that was armed
\* for an earlier deadline expires.
PollInterrupted(w) ==
  /\ ~aborted
  /\ pc[w] = "poll"
  /\ Blocks(w)
  /\ pc' = [pc EXCEPT ![w] = "pop"]
  /\ UNCHANGED <<callVars, external, wake, current, ready, sleepVars, epoll,
                 endVars>>

\* The end of pop: the front of the ready queue, or once more round the loop.
Pop(w) ==
  /\ ~aborted
  /\ pc[w] = "pop"
  /\ IF ready[w] = << >>
     THEN /\ pc' = [pc EXCEPT ![w] = "drain"]
          /\ UNCHANGED <<current, ready>>
     ELSE /\ pc' = [pc EXCEPT ![w] = "task"]
          /\ ready' = [ready EXCEPT ![w] = Tail(@)]
          /\ current' = [current EXCEPT ![w] = Head(ready[w])]
  /\ UNCHANGED <<callVars, external, wake, sleepVars, epoll, endVars>>

----------------------------------------------------------------------------
(***************************************************************************)
(* worker::run: the task.                                                  *)
(***************************************************************************)

\* resume has returned.
Returns(w) ==
  /\ pc' = [pc EXCEPT ![w] = "drain"]
  /\ current' = [current EXCEPT ![w] = None]

\* A maker runs: spawn_resumable attaches the new resumable to this worker
\* and schedules it locally; the maker is destroyed.
Make(w) ==
  /\ ~aborted
  /\ pc[w] = "task"
  /\ current[w][1] = "make"
  /\ attached' = [attached EXCEPT ![Self(w)] = w]
  /\ ready' = [ready EXCEPT ![w] = Append(@, <<"run", Self(w)>>)]
  /\ Returns(w)
  /\ UNCHANGED <<fresh, call, next_worker, external, wake, sleepVars, epoll,
                 endVars>>

\* done: destroy detaches and deletes the resumable.
TaskDone(w) ==
  /\ Running(w)
  /\ done' = done \cup {Self(w)}
  /\ attached' = [attached EXCEPT ![Self(w)] = None]
  /\ Returns(w)
  /\ UNCHANGED <<fresh, call, next_worker, external, wake, ready, sleepVars,
                 epoll, waiting, lost, aborted>>

\* resume_later: push_internally.
TaskResumeLater(w) ==
  /\ Running(w)
  /\ ready' = [ready EXCEPT ![w] = Append(@, current[w])]
  /\ Returns(w)
  /\ UNCHANGED <<callVars, external, wake, sleepVars, epoll, endVars>>

\* Mutant: sleep_for does not bring next_wakeup forward.
DeadlineKept(w, d) == next_wakeup[w]

\* next_wakeup after a sleep of d.
Deadline(w, d) == IF next_wakeup[w] > d THEN d ELSE next_wakeup[w]

\* sleep_for.  The set refuses an element whose key it already holds; the
\* assertion that the resumable is linked then fails.
TaskSleep(w, d) ==
  /\ Running(w)
  /\ wakeup' = [wakeup EXCEPT ![Self(w)] = d]
  /\ next_wakeup' = [next_wakeup EXCEPT ![w] = Deadline(w, d)]
  /\ IF \E q \in sleepq[w] : wakeup[q] = d
     THEN /\ aborted' = TRUE
          /\ UNCHANGED <<pc, current, sleepq>>
     ELSE /\ sleepq' = [sleepq EXCEPT ![w] = @ \cup {Self(w)}]
          /\ Returns(w)
          /\ UNCHANGED aborted
  /\ UNCHANGED <<callVars, external, wake, ready, epoll, waiting, done, lost>>

\* epoll::await_readable and await_writable, and then block: one registration
\* per fd; a failure other than ENOENT is ignored.
TaskAwaitPort(w, f) ==
  /\ Running(w)
  /\ IF f \in ClosedFds
     THEN /\ lost' = lost \cup {Self(w)}
          /\ UNCHANGED epoll
     ELSE /\ epoll' = [epoll EXCEPT ![w][f] = Self(w)]
          /\ lost' = lost \cup ({epoll[w][f]} \ {None})
  /\ Returns(w)
  /\ UNCHANGED <<callVars, external, wake, ready, sleepVars, waiting, done,
                 aborted>>

\* The task registers with a synchronisation object and unlocks it.
TaskWait(w) ==
  /\ Running(w)
  /\ waiting' = waiting \cup {Self(w)}
  /\ pc' = [pc EXCEPT ![w] = "blocking"]
  /\ UNCHANGED <<callVars, external, wake, current, ready, sleepVars, epoll,
                 done, lost, aborted>>

\* resumable::block: yield(blocked).
TaskBlock(w) ==
  /\ ~aborted
  /\ pc[w] = "blocking"
  /\ Returns(w)
  /\ UNCHANGED <<callVars, external, wake, ready, sleepVars, epoll, endVars>>

\* Mutant: every worker schedules as if it were the local one.
AlwaysLocal(w, v) == TRUE

\* worker::schedule: is the worker the local one?
IsLocal(w, v) == w = v

\* Mutant: unblock schedules on the local worker.
CallersWorker(w, r) == w

\* unblock schedules on the worker the resumable is attached to.
Home(w, r) == attached[r]

\* The task of w releases r from a synchronisation object: unblock schedules
\* it on its own worker, directly or through the external queue.
TaskUnblock(w, r) ==
  /\ Running(w)
  /\ r \in waiting
  /\ waiting' = waiting \ {r}
  /\ IF IsLocal(w, Home(w, r))
     THEN /\ ready' = [ready EXCEPT ![Home(w, r)] = Append(@, <<"run", r>>)]
          /\ UNCHANGED call
     ELSE /\ call' = [call EXCEPT ![w] =
                        [at |-> "push", item |-> <<"run", r>>,
                         target |-> Home(w, r), writes |-> 1]]
          /\ UNCHANGED ready
  /\ UNCHANGED <<fresh, next_worker, attached, external, wake, pc, current,
                 sleepVars, epoll, done, lost, aborted>>

Task(w) ==
  \/ Make(w)
  \/ TaskDone(w)
  \/ TaskResumeLater(w)
  \/ \E d \in Durations : TaskSleep(w, d)
  \/ \E f \in Fds : TaskAwaitPort(w, f)
  \/ TaskWait(w)
  \/ TaskBlock(w)

----------------------------------------------------------------------------
\* Time passes while somebody sleeps.
Tick ==
  LET asleep == UNION {sleepq[w] : w \in Workers}
  IN  /\ ~aborted
      /\ asleep # {}
      /\ \A r \in asleep : wakeup[r] > -MaxLag
      /\ wakeup' = [r \in Resumables |->
                      IF r \in asleep THEN wakeup[r] - 1 ELSE wakeup[r]]
      /\ next_wakeup' = [w \in Workers |->
                           IF next_wakeup[w] = Never THEN Never
                           ELSE next_wakeup[w] - 1]
      /\ UNCHANGED <<callVars, external, wake, runVars, sleepq, epoll, endVars>>

\* The process has ended.
Aborted == aborted /\ UNCHANGED vars

Work(w) == Drain(w) \/ Poll(w) \/ Pop(w) \/ Task(w)

Next ==
  \/ \E t \in Threads, r \in Resumables : Spawn(t, r)
  \/ SpawnElsewhere
  \/ \E t \in Threads : Call(t)
  \/ \E w \in Workers : Work(w)
  \/ \E w \in Workers : PollInterrupted(w)
  \/ \E w \in Workers, r \in Resumables : TaskUnblock(w, r)
  \/ Tick
  \/ Aborted

Spec == Init /\ [][Next]_vars

(***************************************************************************)
(* Fairness.  Every thread runs on its own core (coordinator::pin), so a   *)
(* call and the worker loop go on; a task comes back to the loop (the      *)
(* runtime is cooperative), and the clock advances.  Nothing is assumed of *)
(* descriptors, signals, spawns or other tasks unblocking a task.          *)
(***************************************************************************)
Fairness ==
  /\ \A t \in Threads : WF_vars(Call(t))
  /\ \A w \in Workers : WF_vars(Work(w))
  /\ WF_vars(Tick)

FairSpec == Spec /\ Fairness

----------------------------------------------------------------------------
(***************************************************************************)
(* Properties.                                                             *)
(***************************************************************************)

\* Everything through which the runtime may come to resume r, or knows that
\* it will not.
References(r) ==
  LET in(q) == UNION {{<<w, i>> : i \in {i \in DOMAIN q[w] : q[w][i][2] = r}} :
                      w \in Workers}
  IN  {<<"call", t>> : t \in {t \in Threads : /\ call[t].item # None
                                              /\ call[t].item[2] = r}}
      \cup {<<"external", x>> : x \in in(external)}
      \cup {<<"ready", x>> : x \in in(ready)}
      \cup {<<"sleep", w>> : w \in {w \in Workers : r \in sleepq[w]}}
      \cup {<<"epoll", x>> : x \in {x \in Workers \X Fds :
                                      epoll[x[1]][x[2]] = r}}
      \cup {x \in {<<"waiting", waiting>>, <<"done", done>>, <<"lost", lost>>,
                   <<"fresh", fresh>>} : r \in x[2]}

\* Worker w is inside the resume of r.
Runs(w, r) == current[w] # None /\ Self(w) = r

\* A resumable that does not run has exactly one owner, a running one has
\* none, and one that has registered itself and is about to yield is held by
\* whoever may unblock it, or by the call that does: the pointers that the
\* queues, the reactor and the synchronisation objects keep never alias.
OneOwner ==
  \A r \in Resumables :
    Cardinality(References(r)) =
      IF \E w \in Workers : Runs(w, r) /\ pc[w] = "task" THEN 0 ELSE 1

\* An unblocked task that has not yielded yet can be resumed by its own
\* worker only, after the yield: it is in no ready queue, and no two workers
\* are inside the same coroutine.
NeverEnteredTwice ==
  \A w \in Workers, r \in Resumables :
    Runs(w, r) =>
      /\ \A v \in Workers : Runs(v, r) => v = w
      /\ \A v \in Workers : r \notin {ready[v][i][2] : i \in DOMAIN ready[v]}

\* A resumable never leaves the worker it was made on: only that worker's
\* queues, reactor and loop refer to it, so the unlocked intrusive queues it
\* is linked into are touched by one thread only.
StaysHome ==
  \A w \in Workers, r \in Resumables :
    \/ <<"run", r>> \in ToSet(external[w]) \cup ToSet(ready[w])
    \/ current[w] = <<"run", r>>
    \/ r \in sleepq[w]
    \/ \E f \in Fds : epoll[w][f] = r
    => attached[r] = w

\* next_wakeup is the earliest wakeup time of the sleep queue: a worker never
\* sleeps past a sleeper, nor looks for one that is not there.
NextWakeupIsEarliest ==
  ~aborted =>
    \A w \in Workers :
      /\ \A r \in sleepq[w] : next_wakeup[w] <= wakeup[r]
      /\ IF sleepq[w] = {} THEN next_wakeup[w] = Never
         ELSE \E r \in sleepq[w] : next_wakeup[w] = wakeup[r]

\* The stage of a resumable.  A task that has registered itself still runs
\* until it yields, even if it was unblocked in the meantime.
Stage(r) ==
  IF \E w \in Workers : current[w] = <<"run", r>> THEN "running"
  ELSE CASE r \in done -> "done"
         [] r \in lost -> "lost"
         [] r \in fresh -> "new"
         [] \/ r \in waiting
            \/ \E w \in Workers : r \in sleepq[w]
            \/ \E w \in Workers, f \in Fds : epoll[w][f] = r
            \/ \E t \in Threads : call[t].item = <<"run", r>> -> "blocked"
         [] \E w \in Workers : <<"run", r>> \in ToSet(external[w] \o ready[w])
              -> "queued"
         [] OTHER -> "spawning"

LC == INSTANCE Lifecycle WITH stage <- [r \in Resumables |-> Stage(r)]

\* The workers implement the life cycle of a resumable.
ImplementsLifecycle == LC!Spec

\* A resumable handed to a worker, by spawn or by a task of another worker,
\* is resumed: push_externally writes the eventfd after the push, and a worker
\* drains before it polls, so the worker cannot sleep through the push.
HandedOverRuns ==
  \A r \in Resumables :
    (\E w \in Workers : <<"run", r>> \in ToSet(external[w] \o ready[w])
                        \/ <<"make", r>> \in ToSet(external[w] \o ready[w]))
      ~> (aborted \/ \E w \in Workers : current[w] = <<"run", r>>)

\* Every sleeper leaves the sleep queue, however busy the other tasks keep
\* its worker.
SleepersWake ==
  \A w \in Workers, r \in Resumables :
    r \in sleepq[w] ~> (aborted \/ r \notin sleepq[w])

============================================================================
