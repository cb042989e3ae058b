---------------------------- MODULE MCScheduler ----------------------------
(***************************************************************************)
(* Scheduler with its constants as model values, for TLC.                  *)
(***************************************************************************)
EXTENDS Scheduler, TLC

CONSTANTS c1, r1, r2, r3, f1, f2

MCClients    == {c1}
MCResumables == {r1, r2}
MCThree      == {r1, r2, r3}
MCFds        == {f1}
MCClosedFds  == {f2}
MCAllFds     == {f1, f2}

\* Resumables differ only in name.
Symmetry == Permutations(MCResumables)
============================================================================
