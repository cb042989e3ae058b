------------------------------ MODULE Executor ------------------------------
(***************************************************************************)
(* What a set of shards promises those who post tasks to it: the tasks one *)
(* thread posts to a shard run there one at a time, each once and in the   *)
(* order they were posted, until the shard stops.                          *)
(***************************************************************************)
EXTENDS Naturals, Sequences

CONSTANTS
  Shards,  \* who posts and who runs
  Tasks    \* what is posted

VARIABLES
  queue,    \* per posting and running shard: the tasks that wait
  current   \* per shard: the task it ran last

vars == <<queue, current>>

Init ==
  /\ queue = [f \in Shards |-> [t \in Shards |-> << >>]]
  /\ current = [s \in Shards |-> 0]

\* The queues once a task that f posted to t has run there and posted x to u.
After(f, t, u, x) ==
  LET rest == [queue EXCEPT ![f][t] = Tail(@)]
  IN  [rest EXCEPT ![t][u] = @ \o x]

\* A task runs, and may post a further one, to any shard.
Run(f, t) ==
  /\ queue[f][t] # << >>
  /\ current' = [current EXCEPT ![t] = Head(queue[f][t])]
  /\ \E u \in Shards, x \in {<< >>} \cup {<<k>> : k \in Tasks} :
       queue' = After(f, t, u, x)

Post(f, t) ==
  /\ \E x \in Tasks : queue' = [queue EXCEPT ![f][t] = Append(@, x)]
  /\ UNCHANGED current

\* A shard that stops forgets the tasks that wait for it.
Stop(t) ==
  /\ queue' = [f \in Shards |-> [queue[f] EXCEPT ![t] = << >>]]
  /\ UNCHANGED current

Next == \E f, t \in Shards : Run(f, t) \/ Post(f, t) \/ Stop(t)

Spec == Init /\ [][Next]_vars
=============================================================================
