-------------------------------- MODULE Blobs --------------------------------
(***************************************************************************)
(* The blobs with the guards of their memory, and what a program that has  *)
(* them is.                                                                *)
(***************************************************************************)
EXTENDS Integers, Sequences, FiniteSets

CONSTANTS Slots, Arena, BlobSizes, ArenaSize, LowWatermark, MaxObjects, MaxImpls,
          AppendsAnywhere

\* A program has finitely many blobs, and bounds are numbers.
GuardAssumption ==
  /\ IsFiniteSet(Slots) /\ Arena \notin Slots
  /\ MaxImpls \in Nat /\ MaxObjects \in Nat
  /\ BlobSizes \subseteq Nat /\ ArenaSize \in Nat /\ LowWatermark \in Nat
  /\ AppendsAnywhere \in BOOLEAN

VARIABLES heap, blobs, kept

guardVars == <<heap, blobs, kept>>

Guard == INSTANCE Guards WITH Sizes <- BlobSizes

\* Memory is freed once, with its last blob, and both actions of a guard that
\* was appended to are carried out (guard.h:60); see Guards.
FreedOnce == Guard!FreedOnce
=============================================================================
