------------------------------ MODULE MCShard ------------------------------
(***************************************************************************)
(* The channels that tasks talk through and the shards that run them, side *)
(* by side: three tasks on two channels, and two shards.  part says which  *)
(* of them moves.                                                          *)
(***************************************************************************)
EXTENDS MCChannel, Shard

VARIABLE part

MCVars == <<part, vars, shardVars>>

MCInit == part \in {"channels", "shards"} /\ Init /\ ShardInit

\* Tasks need not put or get again; shards never stop short of being joined.
MCNext ==
  \/ part = "channels" /\ (Next \/ UNCHANGED vars) /\ UNCHANGED <<part, shardVars>>
  \/ part = "shards" /\ ShardNext /\ UNCHANGED <<part, vars>>

\* A task inside an operation goes on: the lock is held for a few instructions
\* and never across a yield, a registered task yields, and a scheduled one is
\* resumed (HandedOverRuns of WorkerIsolation).  Nothing makes a task start
\* another put or get.  The thread of a shard goes on with what it is at.
MCSpec ==
  /\ MCInit /\ [][MCNext]_MCVars
  /\ \A t \in Tasks : WF_MCVars(part = "channels" /\ Goes(t) /\ UNCHANGED <<part, shardVars>>)
  /\ \A s \in Shards : WF_MCVars(part = "shards" /\ Thread(s) /\ UNCHANGED <<part, vars>>)
=============================================================================
