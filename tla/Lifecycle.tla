----------------------------- MODULE Lifecycle -----------------------------
(***************************************************************************)
(* What a runtime promises about the life of a resumable, whatever queues  *)
(* and pollers it keeps them in: a resumable is spawned once, it runs only *)
(* after it was queued, a blocked one is queued again before it runs, and  *)
(* one that is done never comes back.  A blocked or yielding resumable may *)
(* be lost, and is then never heard of again.                              *)
(***************************************************************************)
EXTENDS Naturals

CONSTANTS Resumables

VARIABLE stage

Stages == {"new", "spawning", "queued", "running", "blocked", "done", "lost"}

\* The moves a resumable can make.
Moves ==
  { <<"new", "spawning">>, <<"spawning", "queued">>, <<"queued", "running">>,
    <<"running", "queued">>, <<"running", "blocked">>, <<"blocked", "queued">>,
    <<"running", "done">>, <<"running", "lost">>, <<"blocked", "lost">> }

Init == stage = [r \in Resumables |-> "new"]

\* A step of the runtime may move several resumables, each along one move.
Next ==
  /\ stage' \in [Resumables -> Stages]
  /\ \A r \in Resumables :
       stage'[r] # stage[r] => <<stage[r], stage'[r]>> \in Moves

Spec == Init /\ [][Next]_stage
============================================================================
