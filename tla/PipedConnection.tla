-------------------------- MODULE PipedConnection --------------------------
(***************************************************************************)
(* A connection and, beside it, the pipe that its filters make: the two    *)
(* share nothing, each has its own state and steps.                        *)
(***************************************************************************)
EXTENDS Connection

CONSTANTS Filters, None, MaxDeferred

VARIABLES ends, reads, writes, contexts, head, tail, nextRead, nextWrite, deferred, plain

pipeVars == <<ends, reads, writes, contexts, head, tail, nextRead, nextWrite, deferred, plain>>

P == INSTANCE Pipes

\* A message passes the filters that take it, in order, and no others; see
\* Pipes.
PassesEveryFilter == P!PassesEveryFilter
=============================================================================
