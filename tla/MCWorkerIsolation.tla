------------------------- MODULE MCWorkerIsolation -------------------------
(***************************************************************************)
(* WorkerIsolation with its constants as model values, for TLC.            *)
(***************************************************************************)
EXTENDS WorkerIsolation, TLC

CONSTANTS c1, r1, r2, f1, f2

MCClients    == {c1}
MCResumables == {r1, r2}
MCFds        == {f1, f2}
MCClosedFds  == {f2}

\* Resumables differ only in name.
Symmetry == Permutations(MCResumables)
============================================================================
