---------------------------- MODULE SizeClasses ----------------------------
(***************************************************************************)
(* The classes of small objects (src/core/memory/memory.cpp): which pool   *)
(* an allocation of some bytes goes to, how large its objects are, and how *)
(* many pages the spans of a pool have.                                    *)
(***************************************************************************)
EXTENDS Integers

CONSTANTS
  Cpus,       \* the threads
  ByteSizes   \* sizes of small objects, in bytes

VARIABLE cpu_mem  \* per cpu: its cpu_pages

PageBytes == 4096
FreeObjectBytes == 8

ASSUME SizesAssumption == ByteSizes \subseteq FreeObjectBytes .. 4 * PageBytes

Power2[k \in 0 .. 30] == IF k = 0 THEN 1 ELSE 2 * Power2[k - 1]

log2floor(n) == CHOOSE k \in 0 .. 29 : Power2[k] <= n /\ n < Power2[k + 1]
log2ceil(n) == IF n = 1 THEN 0 ELSE log2floor(n - 1) + 1

idx_to_size(idx) == ((4 + (idx % 4)) * Power2[idx \div 4]) \div 4

BrokenUsizeoIdx(size) ==
  (4 * log2floor(size) - 3) + (size \div Power2[log2floor(size) - 2]) - 1

usizeo_idx(size) ==
  (4 * log2floor(size) - 3) + ((size - 1) \div Power2[log2floor(size) - 2])

NrSmallPools == usizeo_idx(4 * PageBytes) + 1

\* The loop of small_pool's constructor: how many pages its spans have.
PoolSpanPages(size) ==
  LET bytes(k) == Power2[k] * PageBytes
      TooSmall(k) == \/ size > bytes(k)
                     \/ Power2[k] < 32 /\ 20 * (bytes(k) % size) > bytes(k)
                     \/ bytes(k) \div size < 32
  IN Power2[CHOOSE k \in 0 .. 10 : ~TooSmall(k) /\ \A j \in 0 .. k - 1 : TooSmall(j)]

\* The pool that is chosen for a size has objects at least as large, of a size
\* and a half at most and of exactly that size for powers of two (which aligned
\* allocations rely on), and its spans fit the 8 and 16 bit counters of a page.
\* The pools are made before the first allocation.
SizeClassesFit ==
  (\A c \in Cpus : cpu_mem[c].g_allocs = 0) =>
  \A size \in ByteSizes :
    LET idx    == usizeo_idx(size)
        object == idx_to_size(idx)
        pages  == PoolSpanPages(object)
    IN /\ size <= object /\ 2 * object <= 3 * size
       /\ size = Power2[log2ceil(size)] => object = size
       /\ idx < NrSmallPools
       /\ pages <= 256 /\ (pages * PageBytes) \div object < 65536
=============================================================================
