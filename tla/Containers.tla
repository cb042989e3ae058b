----------------------------- MODULE Containers -----------------------------
(***************************************************************************)
(* The containers of bytes, side by side: a ring buffer, the blobs with    *)
(* the guards of their memory, and the I/O buffers.  They share nothing.   *)
(***************************************************************************)
EXTENDS RingBuffer, Blobs

CONSTANTS Buffers, Capacities, Rooms, Amounts, MaxBytes, MaxFragments, MayWrap

\* The sizes that a program may ask for.
BufferAssumption ==
  Capacities \cup Rooms \cup Amounts \subseteq Nat /\ MayWrap \in BOOLEAN

VARIABLES fragments, sizes, written, stream

bufferVars == <<fragments, sizes, written, stream>>

B == INSTANCE Buffer WITH size <- sizes

\* The fragments of each buffer hold its bytes; see Buffer.
HoldsStream == B!HoldsStream

\* Readers see one contiguous range; see Buffer.
ReadsStream == B!ReadsStream

\* Fragment strings compare by their bytes; see Buffer.
ComparesBytes == B!ComparesBytes
=============================================================================
