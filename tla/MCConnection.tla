---------------------------- MODULE MCConnection ----------------------------
(***************************************************************************)
(* A connection, and the filters of a pipe, which are checked side by side: *)
(* part says which of the two moves.                                       *)
(***************************************************************************)
EXTENDS PipedConnection

VARIABLE part

MCInit ==
  /\ part \in {"connection", "pipes"}
  /\ Init
  /\ P!Init
  /\ part = "connection" => reads = {} /\ writes = {} /\ ends = {"head"}

MCNext ==
  \/ part = "connection" /\ Next /\ UNCHANGED <<part, pipeVars>>
  \/ part = "pipes" /\ P!Next /\ UNCHANGED <<part, vars>>

MCSpec == MCInit /\ [][MCNext]_<<vars, part, pipeVars>> /\ Fairness
=============================================================================
