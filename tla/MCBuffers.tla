----------------------------- MODULE MCBuffers -----------------------------
(***************************************************************************)
(* Bytes and the memory they live in: Containers with a ring buffer of     *)
(* every size up to a bound, two I/O buffers with a few bytes and three    *)
(* blobs with the guards of their memory, and Memory with one cpu that     *)
(* allocates and one that frees its objects.  They share nothing; part     *)
(* says which of them moves.                                               *)
(***************************************************************************)
EXTENDS Containers, SizeClasses, TLC

CONSTANTS small, large, b1, b2, s1, s2, s3, c1, c2
CONSTANTS Allocating, BootPages, MaxPages, EntriesPerPage, SpanSize, MinFree,
          MaxFree, MinFreePages, SyncReclaimer, MallocSizes, NewSizes,
          Alignments, MaxAllocs

MCObjects     == {small, large}
MCLength      == small :> 4 @@ large :> 6
MCSizes       == 1 .. 20
MCReserves    == {0, 5}
MCBufferSet   == {b1, b2}
MCCapacities  == {2}
MCRooms       == {1}
MCAmounts     == {0, 1, 2}
MCSlots       == {s1, s2, s3}
MCBlobSizes   == {1, 2}
MCCpus        == {c1, c2}
MCAllocating  == {c1}
MCMallocSizes == {1, 3}
MCNewSizes    == {2}
MCAlignments  == {2}
MCByteSizes   == 8 .. 512 \cup {2^k - 1 : k \in 10 .. 14} \cup {2^k : k \in 10 .. 14}
                   \cup {2^k + 1 : k \in 10 .. 13}

VARIABLES part, held, push, leaked

memoryVars == <<cpu_mem, held, push, leaked>>

M == INSTANCE Memory

ASSUME MCAssumption == BufferAssumption /\ GuardAssumption /\ M!MemoryAssumption

\* While something else moves there is one ring, at rest, and the cpus have
\* made their pools and no pages.
MCInit ==
  /\ part \in {"ring", "buffers", "guards", "memory"}
  /\ Init
  /\ part # "ring" => size = 1 /\ reserved = 0
  /\ B!Init
  /\ Guard!Init
  /\ IF part = "memory" THEN M!Init
     ELSE cpu_mem = [c \in Cpus |-> [g_allocs |-> 1]] /\ held = {} /\ push = {} /\ leaked = {}

MCNext ==
  \/ part = "ring" /\ Next /\ UNCHANGED <<part, bufferVars, guardVars, memoryVars>>
  \/ part = "buffers" /\ B!Next /\ UNCHANGED <<part, vars, guardVars, memoryVars>>
  \/ part = "guards" /\ Guard!Next /\ UNCHANGED <<part, vars, bufferVars, memoryVars>>
  \/ part = "memory" /\ M!Next /\ UNCHANGED <<part, vars, bufferVars, guardVars>>

MCSpec == MCInit /\ [][MCNext]_<<part, vars, bufferVars, guardVars, memoryVars>>

\* The buffers alone, and the blobs alone.
BuffersSpec == part = "buffers" /\ MCSpec
BlobsSpec   == part = "guards" /\ MCSpec

\* The buffers, and the blobs, differ only in name.
Symmetry == Permutations(MCBufferSet) \cup Permutations(MCSlots)

\* Every page has one owner; see Memory.
PagesOwnedOnce == part = "memory" => M!PagesOwnedOnce

\* An allocation fails only when no span is large enough; see Memory.
FindsFreeSpans == part = "memory" => M!FindsFreeSpans

\* Every small object is in one place, and spans count theirs; see Memory.
SmallObjectsOnce == part = "memory" => M!SmallObjectsOnce
=============================================================================
