----------------------------- MODULE MCFutures -----------------------------
(***************************************************************************)
(* Futures with two threads, a latch of two and chains of four states.     *)
(***************************************************************************)
EXTENDS Futures, TLC

MCAmounts == {1, 2}
=============================================================================
