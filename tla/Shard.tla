-------------------------------- MODULE Shard --------------------------------
(***************************************************************************)
(* Shards (core/shard, task_queue, signals, bootstrap): a thread per core  *)
(* that polls its pollers, runs the tasks it posted to itself and then     *)
(* those that other threads posted to it, until it is told to stop.        *)
(*                                                                         *)
(* A step is what another thread can see of a poll: tasks are pushed to    *)
(* _inbound and _running is written by any thread at any time.             *)
(***************************************************************************)
EXTENDS Naturals, Sequences, FiniteSets, SequencesExt

CONSTANTS
  Shards,    \* the cores
  Main,      \* shard 0, which bootstrap::run turns into
  MaxPosts,  \* bound: tasks that wait at a time
  Hooks      \* how many functions before_shutdown was given; bound: one

\* bootstrap::run posts the first task itself.
ASSUME ShardAssumption == Main \in Shards /\ MaxPosts \in Nat \ {0} /\ Hooks \in {0, 1}

VARIABLES
  phase,     \* per shard: what its thread is at
  running,   \* per shard: _running
  deferred,  \* per shard: deferred_poller::_deferred_tasks
  queue,     \* per shard: task_queue::_deque
  inbound,   \* per shard: _inbound.tasks, each with the shard it came from
  sigint,    \* bit SIGINT of _pending_signals of shard 0
  stopping,  \* per shard: the shards its initiate_shutdown has yet to stop
  hooks,     \* _before_shutdown: how many are left
  current,   \* per shard: the task it ran last
  told       \* history: shards that were told to stop while they ran

shardVars == <<phase, running, deferred, queue, inbound, sigint, stopping, hooks,
               current, told>>

queues == <<deferred, queue, inbound>>

Polling == {"reactor", "signals", "deferred", "tasks", "inbound", "check"}
Phases == {"new", "configured", "barrier", "start", "gone"} \cup Polling

ShardInit ==
  /\ phase = [s \in Shards |-> "new"]
  /\ running = [s \in Shards |-> FALSE]
  /\ deferred = [s \in Shards |-> << >>]
  /\ queue = [s \in Shards |-> << >>]
  /\ inbound = [s \in Shards |-> << >>]
  /\ sigint = FALSE
  /\ stopping = [s \in Shards |-> {}]
  /\ hooks = Hooks
  /\ current = [s \in Shards |-> 0]
  /\ told = {}

At(s, p) == phase[s] = p /\ stopping[s] = {}

Go(s, p) == phase' = [phase EXCEPT ![s] = p]

----------------------------------------------------------------------------
(***************************************************************************)
(* Starting.                                                               *)
(***************************************************************************)

\* _prepare_shard; the main thread then goes on to run.
Prepare(s) ==
  /\ phase[s] = "new"
  /\ Go(s, IF s = Main THEN "configured" ELSE "barrier")
  /\ UNCHANGED <<running, queues, sigint, stopping, hooks, current, told>>

\* bootstrap::run: SIGINT gets its handler, and the first task is posted.
StartMain ==
  /\ phase[Main] = "configured"
  /\ Go(Main, "barrier")
  /\ deferred' = [deferred EXCEPT ![Main] = Append(@, 1)]
  /\ UNCHANGED <<running, queue, inbound, sigint, stopping, hooks, current, told>>

PassBarrier(s) ==
  /\ phase[s] = "barrier"
  /\ \A t \in Shards : phase[t] \notin {"new", "configured"}
  /\ Go(s, "start")
  /\ UNCHANGED <<running, queues, sigint, stopping, hooks, current, told>>

\* shard::run, up to its loop.
Run(s) ==
  /\ phase[s] = "start"
  /\ running' = [running EXCEPT ![s] = TRUE]
  /\ Go(s, "reactor")
  /\ UNCHANGED <<queues, sigint, stopping, hooks, current, told>>

----------------------------------------------------------------------------
(***************************************************************************)
(* Posting and shutting down.                                              *)
(***************************************************************************)

\* The tasks that wait.
TasksWaiting ==
  UNION {ToSet(queue[s]) \cup ToSet(deferred[s]) \cup {e[2] : e \in ToSet(inbound[s])} :
         s \in Shards}

\* A task that is posted gets a number that no task that waits has, the least.
\* Posting may go on for ever: only how many wait at a time is bounded.
NewTask(n) ==
  /\ n \in (1 .. MaxPosts) \ TasksWaiting
  /\ 1 .. n - 1 \subseteq TasksWaiting

\* Bug: tasks posted locally overtake those that wait.
PostsToFront(s, t, from) ==
  \E n \in 1 .. MaxPosts :
    /\ NewTask(n)
    /\ \/ /\ t = s
          /\ deferred' = [deferred EXCEPT ![s] = <<n>> \o @]
          /\ inbound' = from
       \/ /\ t # s
          /\ inbound' = IF phase[t] = "gone" THEN from
                        ELSE [from EXCEPT ![t] = Append(@, <<s, n>>)]
          /\ UNCHANGED deferred

\* shard::post on thread s: a task for t; from is what s leaves of inbound.
\* A shard that is gone was deleted: what is posted to it is lost.
Post(s, t, from) ==
  \E n \in 1 .. MaxPosts :
    /\ NewTask(n)
    /\ \/ /\ t = s
          /\ deferred' = [deferred EXCEPT ![s] = Append(@, n)]
          /\ inbound' = from
       \/ /\ t # s
          /\ inbound' = IF phase[t] = "gone" THEN from
                        ELSE [from EXCEPT ![t] = Append(@, <<s, n>>)]
          /\ UNCHANGED deferred

NoPost(from) == inbound' = from /\ UNCHANGED deferred

\* bootstrap::_initiate_shutdown on thread s, up to the loop that stops the
\* shards: the functions run at once on shard 0, and are posted to it by others.
InitiateShutdown(s, from) ==
  /\ hooks' = 0
  /\ stopping' = [stopping EXCEPT ![s] = Shards]
  /\ IF s = Main \/ hooks = 0 THEN NoPost(from) ELSE Post(s, Main, from)

\* One round of that loop: shutdown.
StopShard(s, t) ==
  /\ t \in stopping[s]
  /\ stopping' = [stopping EXCEPT ![s] = @ \ {t}]
  /\ running' = [running EXCEPT ![t] = FALSE]
  /\ told' = IF phase[t] \in Polling THEN told \cup {t} ELSE told
  /\ UNCHANGED <<phase, queues, sigint, hooks, current>>

----------------------------------------------------------------------------
(***************************************************************************)
(* One round of poll.                                                      *)
(***************************************************************************)

\* External: the callbacks of events post tasks; their exceptions are dropped.
PollReactor(s) ==
  /\ At(s, "reactor")
  /\ Go(s, "signals")
  /\ \/ \E t \in Shards : Post(s, t, inbound)
     \/ NoPost(inbound)
  /\ UNCHANGED <<running, queue, sigint, stopping, hooks, current, told>>

\* External: the signal is delivered, once run has given it its handler.
Signal ==
  /\ ~sigint /\ phase[Main] \in {"barrier", "start"} \cup Polling
  /\ sigint' = TRUE
  /\ UNCHANGED <<phase, running, queues, stopping, hooks, current, told>>

PollSignals(s) ==
  /\ At(s, "signals")
  /\ Go(s, "deferred")
  /\ IF s = Main /\ sigint
     THEN sigint' = FALSE /\ InitiateShutdown(s, inbound)
     ELSE UNCHANGED <<sigint, hooks, stopping, deferred, inbound>>
  /\ UNCHANGED <<running, queue, current, told>>

PollDeferred(s) ==
  /\ At(s, "deferred")
  /\ Go(s, "tasks")
  /\ queue' = [queue EXCEPT ![s] = @ \o deferred[s]]
  /\ deferred' = [deferred EXCEPT ![s] = << >>]
  /\ UNCHANGED <<running, inbound, sigint, stopping, hooks, current, told>>

\* What a task does: it may post a task, or throw, which ends the round and
\* shuts everything down.
TaskBody(s, from, next) ==
  \/ /\ Go(s, next)
     /\ \/ \E t \in Shards : Post(s, t, from)
        \/ NoPost(from)
     /\ UNCHANGED <<stopping, hooks>>
  \/ /\ Go(s, "check")
     /\ InitiateShutdown(s, from)

\* Bug: what a task posts to its own shard goes straight to the task queue.
RunsWhatItPosts(s) ==
  /\ At(s, "tasks") /\ queue[s] # << >>
  /\ current' = [current EXCEPT ![s] = Head(queue[s])]
  /\ Go(s, "tasks")
  /\ \E n \in 1 .. MaxPosts, more \in {0, 1} :
       /\ NewTask(n)
       /\ queue' = [queue EXCEPT ![s] = Tail(@) \o SubSeq(<<n>>, 1, more)]
  /\ NoPost(inbound)
  /\ UNCHANGED <<running, sigint, stopping, hooks, told>>

\* process_tasks
RunTask(s) ==
  /\ At(s, "tasks") /\ queue[s] # << >>
  /\ current' = [current EXCEPT ![s] = Head(queue[s])]
  /\ queue' = [queue EXCEPT ![s] = Tail(@)]
  /\ TaskBody(s, inbound, "tasks")
  /\ UNCHANGED <<running, sigint, told>>

TasksDone(s) ==
  /\ At(s, "tasks") /\ queue[s] = << >>
  /\ Go(s, "inbound")
  /\ UNCHANGED <<running, queues, sigint, stopping, hooks, current, told>>

\* consume_all
RunInbound(s) ==
  /\ At(s, "inbound") /\ inbound[s] # << >>
  /\ current' = [current EXCEPT ![s] = Head(inbound[s])[2]]
  /\ TaskBody(s, [inbound EXCEPT ![s] = Tail(@)], "inbound")
  /\ UNCHANGED <<running, queue, sigint, told>>

InboundDone(s) ==
  /\ At(s, "inbound") /\ inbound[s] = << >>
  /\ Go(s, "check")
  /\ UNCHANGED <<running, queues, sigint, stopping, hooks, current, told>>

\* The end of a round of run, and of the thread: the shard is deleted.
Check(s) ==
  /\ At(s, "check")
  /\ IF running[s]
     THEN Go(s, "reactor") /\ UNCHANGED queues
     ELSE /\ Go(s, "gone")
          /\ deferred' = [deferred EXCEPT ![s] = << >>]
          /\ queue' = [queue EXCEPT ![s] = << >>]
          /\ inbound' = [inbound EXCEPT ![s] = << >>]
  /\ UNCHANGED <<running, sigint, stopping, hooks, current, told>>

Thread(s) ==
  \/ Prepare(s) \/ (s = Main /\ StartMain) \/ PassBarrier(s) \/ Run(s)
  \/ \E t \in Shards : StopShard(s, t)
  \/ PollReactor(s) \/ PollSignals(s) \/ PollDeferred(s)
  \/ RunTask(s) \/ TasksDone(s) \/ RunInbound(s) \/ InboundDone(s) \/ Check(s)

\* bootstrap::run returns once every thread is joined.
Joined ==
  /\ \A s \in Shards : phase[s] = "gone"
  /\ UNCHANGED shardVars

ShardNext == Signal \/ Joined \/ \E s \in Shards : Thread(s)

\* Every thread goes on with what it is at.
ShardSpec == ShardInit /\ [][ShardNext]_shardVars /\ \A s \in Shards : WF_shardVars(Thread(s))

----------------------------------------------------------------------------
(***************************************************************************)
(* Properties.                                                             *)
(***************************************************************************)

\* The tasks in s, a part of _inbound, that thread f posted.
From(f, s) ==
  LET upTo[n \in 0 .. Len(s)] ==
        IF n = 0 THEN << >>
        ELSE IF s[n][1] = f THEN Append(upTo[n - 1], s[n][2])
        ELSE upTo[n - 1]
  IN  upTo[Len(s)]

\* The tasks that thread f posted to shard t and that wait.
WaitingFrom(f, t) ==
  IF f = t THEN queue[t] \o deferred[t] ELSE From(f, inbound[t])

Abstract == INSTANCE Executor WITH
  Tasks <- 1 .. MaxPosts,
  queue <- [f \in Shards |-> [t \in Shards |-> WaitingFrom(f, t)]],
  current <- current

\* Shards keep the promise of an executor: what a thread posts to a shard runs
\* there once and in order, whether it is posted to itself (through the
\* deferred tasks and the task queue) or to another (through _inbound), and
\* whatever is posted, thrown and shut down while tasks run.
ImplementsExecutor == Abstract!Spec

\* A shard that is told to stop while it runs ends its loop, although its tasks
\* post further ones for ever: process_tasks ends, since what they post to their
\* own shard waits for the next round, and _running is looked at when the round
\* ends.  (consume_all ends only when it finds _inbound empty: a shard that
\* others feed faster than it runs their tasks stays there, told to stop or not.)
StopsWhenTold ==
  \A s \in Shards :
    /\ phase[s] = "tasks" ~> phase[s] # "tasks"
    /\ (s \in told ~> phase[s] = "gone") \/ <>[](phase[s] = "inbound")
=============================================================================
