------------------------------- MODULE Memory -------------------------------
(***************************************************************************)
(* The memory allocator (src/core/memory/memory.cpp): every cpu (thread)   *)
(* has an array of pages, lists of free spans of pages by size, pools of   *)
(* small objects, and a list on which other cpus leave the objects they    *)
(* free.  Only that list is shared, so all the rest of a call is one step. *)
(*                                                                         *)
(* Memory is counted in pages: an address is the number of a page, a small *)
(* object is one page, and there is one pool, whose spans have SpanSize    *)
(* pages.  The lists linked through the pages are sequences.               *)
(***************************************************************************)
EXTENDS SizeClasses, Integers, Sequences, FiniteSets, SequencesExt

CONSTANTS
  Allocating,    \* the threads that allocate; the others free
  BootPages,     \* nr_pages after initialize
  MaxPages,      \* nr_pages after resize
  EntriesPerPage,\* how many page structures a page holds
  SpanSize,      \* small_pool::_span_size
  MinFree,       \* small_pool::_min_free
  MaxFree,       \* small_pool::_max_free
  MinFreePages,  \* cpu_pages::min_free_pages
  SyncReclaimer, \* the reclaimer has scope sync
  MallocSizes, NewSizes, Alignments,  \* what programs ask for
  MaxAllocs      \* bound: allocations of a thread

MemoryAssumption ==
  /\ Allocating \subseteq Cpus
  /\ BootPages \in Nat /\ MaxPages \in Nat /\ BootPages < MaxPages
  /\ EntriesPerPage \in Nat \ {0} /\ BootPages >= EntriesPerPage
  /\ SpanSize \in Nat \ {0}
  /\ MinFree \in Nat /\ MaxFree \in Nat \ {0} /\ MinFree <= MaxFree
  /\ MinFreePages \in Nat /\ SyncReclaimer \in BOOLEAN

VARIABLES
  held,     \* per cpu: the objects of its memory that programs hold
  push,     \* per cpu: the compare-exchange of free_cross_cpu it is in
  leaked    \* objects of cpus that are gone

vars == <<cpu_mem, held, push, leaked>>

----------------------------------------------------------------------------
(***************************************************************************)
(* Indices of span lists.                                                  *)
(***************************************************************************)

index_of(pages) == log2floor(pages)

index_of_conservative(pages) == log2ceil(pages)

ListIndices == 0 .. log2floor(MaxPages)

CeilDiv(m, n) == (m + n - 1) \div n
AlignUp(m, n) == CeilDiv(m, n) * n

\* How many pages an array of page structures takes, the sentinel included.
ArrayPages(n) == CeilDiv(n + 1, EntriesPerPage)

Goal == (MinFree + MaxFree) \div 2

----------------------------------------------------------------------------
(***************************************************************************)
(* Spans.  m is the cpu_pages of a thread; every operator returns it as    *)
(* the function it is named for leaves it.                                 *)
(***************************************************************************)

Page(free) == [free |-> free, span_size |-> 0, pool |-> FALSE,
               offset_in_span |-> 0, nr_small_alloc |-> 0, freelist |-> << >>]

Init ==
  /\ cpu_mem = [c \in Cpus |->
        [nr_pages |-> 0, nr_free_pages |-> 0, pages |-> << >>, array |-> 0,
         free_spans |-> [i \in ListIndices |-> << >>],
         free |-> << >>, span_list |-> << >>, xcpu_freelist |-> << >>,
         current_min |-> 0, hooked |-> FALSE, reclaim |-> FALSE,
         g_allocs |-> 0, cache |-> << >>, live |-> FALSE, exited |-> FALSE]]
  /\ held = [c \in Cpus |-> {}]
  /\ push = [c \in Cpus |-> << >>]
  /\ leaked = [c \in Cpus |-> {}]

FreeSpanNoMerge(m, start, n) ==
  [m EXCEPT !.nr_free_pages = @ + n,
            !.pages[start].free = TRUE, !.pages[start + n - 1].free = TRUE,
            !.pages[start].span_size = n, !.pages[start + n - 1].span_size = n,
            !.free_spans[index_of(n)] = <<start>> \o @]

\* The span is taken off the free pages, to be merged.
Absorbed(m, start) ==
  LET n == m.pages[start].span_size
  IN [m EXCEPT !.nr_free_pages = @ - n,
               !.free_spans[index_of(n)] = Remove(@, start)]

MergeAfter(m, start, n) ==
  IF m.pages[start + n].free
  THEN FreeSpanNoMerge(Absorbed(m, start + n), start, n + m.pages[start + n].span_size)
  ELSE FreeSpanNoMerge(m, start, n)

FreeSpan(m, start, n) ==
  LET before == IF m.pages[start - 1].free THEN m.pages[start - 1].span_size ELSE 0
  IN MergeAfter(IF before > 0 THEN Absorbed(m, start - before) ELSE m,
                start - before, n + before)

FirstFit(m, list, n) ==
  LET fits == {i \in DOMAIN list : m.pages[list[i]].span_size >= n}
  IN IF fits = {} THEN 0 ELSE list[CHOOSE i \in fits : \A j \in fits : i <= j]

\* The first list from index idx on that is not empty, or << >>.
FirstList(m, idx) ==
  LET full == {i \in ListIndices : i >= idx /\ m.free_spans[i] # << >>}
  IN IF full = {} THEN << >> ELSE m.free_spans[CHOOSE i \in full : \A j \in full : i <= j]

\* Bug: the list of smaller spans is not looked at.
FindsInLargerLists(m, n) == FirstFit(m, FirstList(m, index_of_conservative(n)), n)

\* find_and_unlink_span: the span it finds, or 0.
FindSpan(m, n) ==
  LET larger == FirstList(m, index_of_conservative(n))
  IN CASE larger # << >> -> FirstFit(m, larger, n)
       [] larger = << >> /\ index_of(n) = index_of_conservative(n) -> 0
       [] OTHER -> FirstFit(m, m.free_spans[index_of(n)], n)

Initialized(m) ==
  LET reserved == ArrayPages(BootPages)
  IN FreeSpanNoMerge(
       [m EXCEPT !.nr_pages = BootPages, !.live = TRUE, !.array = 0,
                 !.pages = [p \in 0 .. BootPages |-> Page(FALSE)]],
       reserved, BootPages - reserved)

----------------------------------------------------------------------------
(***************************************************************************)
(* Small objects: a pool keeps objects of its spans on _free, at most      *)
(* MaxFree of them; the others go back to the free list of their span, and *)
(* a span all of whose objects are back is freed.                          *)
(***************************************************************************)

\* The object at the top of _free goes back to the list of its span.
BackToSpan(m) ==
  LET obj  == Head(m.free)
      span == obj - m.pages[obj].offset_in_span
  IN [m EXCEPT !.free = Tail(@),
               !.span_list = IF m.pages[span].freelist = << >> THEN <<span>> \o @ ELSE @,
               !.pages[span].freelist = <<obj>> \o @,
               !.pages[span].nr_small_alloc = @ - 1]

\* A span all of whose objects are back is freed.
FreeIfUnused(m, span) ==
  IF m.pages[span].nr_small_alloc > 0 THEN m
  ELSE FreeSpan([m EXCEPT !.span_list = Remove(@, span)], span, m.pages[span].span_size)

TrimOne(m) ==
  FreeIfUnused(BackToSpan(m), Head(m.free) - m.pages[Head(m.free)].offset_in_span)

TrimFreeList(m) ==
  LET trims == IF Len(m.free) > Goal THEN Len(m.free) - Goal ELSE 0
      trimmed[k \in 0 .. trims] == IF k = 0 THEN m ELSE TrimOne(trimmed[k - 1])
  IN trimmed[trims]

TrimIfFull(m) == IF Len(m.free) >= MaxFree THEN TrimFreeList(m) ELSE m

Deallocate(m, obj) == TrimIfFull([m EXCEPT !.free = <<obj>> \o @])

----------------------------------------------------------------------------
(***************************************************************************)
(* Freeing, draining what other cpus freed, and reclaiming.                *)
(***************************************************************************)

FreeLarge(m, at) == FreeSpan(m, at, m.pages[at].span_size)

\* cpu_pages::free of an object of this cpu.
FreeObject(m, at) == IF m.pages[at].pool THEN Deallocate(m, at) ELSE FreeLarge(m, at)

\* cpu_pages::free with the size of the object.
FreeSized(m, at, size) == IF size <= 1 THEN Deallocate(m, at) ELSE FreeLarge(m, at)

Drain(m) ==
  LET n == Len(m.xcpu_freelist)
      drained[k \in 0 .. n] ==
        IF k = 0 THEN [m EXCEPT !.xcpu_freelist = << >>]
        ELSE FreeObject(drained[k - 1], m.xcpu_freelist[k])
  IN drained[n]

\* External: the reclaimer gives back the oldest object it caches.
Reclaim(m) == FreeObject([m EXCEPT !.cache = Tail(@)], Head(m.cache))

ReclaimBelow(m, target) == IF m.nr_free_pages >= target THEN m ELSE Reclaim(m)

RunReclaimers(m, sync) ==
  LET target == IF m.nr_free_pages + 1 > MinFreePages THEN m.nr_free_pages + 1 ELSE MinFreePages
      rounds == IF sync /\ ~SyncReclaimer THEN 0 ELSE Len(m.cache)
      after[k \in 0 .. rounds] == IF k = 0 THEN m ELSE ReclaimBelow(after[k - 1], target)
  IN after[rounds]

ReclaimUnlessFound(m, n) == IF FindSpan(m, n) # 0 THEN m ELSE RunReclaimers(m, TRUE)

\* find_and_unlink_span_reclaiming, up to the span it returns.
Reclaiming(m, n) ==
  LET after[k \in 0 .. Len(m.cache)] == IF k = 0 THEN m ELSE ReclaimUnlessFound(after[k - 1], n)
  IN after[Len(m.cache)]

ScheduleIfLow(m) ==
  IF m.nr_free_pages < m.current_min
  THEN [m EXCEPT !.current_min = 0, !.reclaim = TRUE] ELSE m

\* The check for low memory at the end of allocate_large_and_trim.
CheckLowMemory(m) ==
  IF m.nr_free_pages >= m.current_min THEN m
  ELSE ScheduleIfLow(RunReclaimers(Drain(m), TRUE))

----------------------------------------------------------------------------
(***************************************************************************)
(* Allocating: what is left of m, and the address, or 0 for a null         *)
(* pointer.                                                                *)
(***************************************************************************)

\* The pages of the span before at, and those from at + n on, stay free.
Trimmed(m, span, size, at, n) ==
  LET before == IF at > span THEN FreeSpanNoMerge(m, span, at - span) ELSE m
      after  == size - (at - span) - n
  IN IF after > 0 THEN FreeSpanNoMerge(before, at + n, after) ELSE before

MarkTaken(m, at, n) ==
  [m EXCEPT !.pages[at].free = FALSE, !.pages[at + n - 1].free = FALSE,
            !.pages[at].span_size = n, !.pages[at + n - 1].span_size = n,
            !.pages[at].pool = FALSE]

TakeSpan(m, span, at, n) ==
  IF span = 0 THEN [mem |-> m, at |-> 0]
  ELSE [mem |-> CheckLowMemory(MarkTaken(
                  Trimmed(Absorbed(m, span), span, m.pages[span].span_size, at, n), at, n)),
        at |-> at]

TakeAligned(m, align, n) ==
  LET span == FindSpan(m, n + align - 1) IN TakeSpan(m, span, AlignUp(span, align), n)

AllocateLargeAligned(m, align, n) ==
  TakeAligned(Reclaiming(IF m.nr_pages = 0 THEN Initialized(m) ELSE m, n + align - 1),
              align, n)

AllocateLarge(m, n) == AllocateLargeAligned(m, 1, n)

\* add_more_objects, its first loop: objects back from the spans they are of.
TakeBack(m) ==
  IF m.span_list = << >> \/ Len(m.free) >= Goal THEN m
  ELSE LET span == Head(m.span_list)
           back == m.pages[span].freelist
       IN [m EXCEPT !.span_list = Tail(@),
                    !.free = Reverse(back) \o @,
                    !.pages[span].freelist = << >>,
                    !.pages[span].nr_small_alloc = @ + Len(back)]

\* Its second loop: the pages of a new span become objects.
Populate(m, at) ==
  IF at = 0 THEN m
  ELSE [m EXCEPT
    !.pages = [i \in DOMAIN @ |->
       IF i < at \/ i >= at + SpanSize THEN @[i]
       ELSE [@[i] EXCEPT !.pool = TRUE, !.offset_in_span = i - at,
                         !.nr_small_alloc = IF i = at THEN SpanSize ELSE @,
                         !.freelist = IF i = at THEN << >> ELSE @]],
    !.free = [i \in 1 .. SpanSize |-> at + SpanSize - i] \o @]

Populated(r) == Populate(r.mem, r.at)

NewSpan(m) == IF Len(m.free) >= Goal THEN m ELSE Populated(AllocateLarge(m, SpanSize))

AddMoreObjects(m) ==
  LET back[k \in 0 .. Goal] == IF k = 0 THEN m ELSE TakeBack(back[k - 1])
      more[k \in 0 .. Goal] == IF k = 0 THEN back[Goal] ELSE NewSpan(more[k - 1])
  IN more[Goal]

TakeObject(m) ==
  IF m.free = << >> THEN [mem |-> m, at |-> 0]
  ELSE [mem |-> [m EXCEPT !.free = Tail(@)], at |-> Head(m.free)]

AllocateSmall(m) == TakeObject(IF m.free = << >> THEN AddMoreObjects(m) ELSE m)

Counted(m) == [m EXCEPT !.g_allocs = @ + 1]

Allocate(m, n) ==
  IF n <= 1 THEN AllocateSmall(Counted(m)) ELSE AllocateLarge(Counted(m), n)

AllocateAligned(m, align, n) ==
  LET size == IF n > align THEN n ELSE align
  IN IF size <= 1 /\ align <= 1 THEN AllocateSmall(Counted(m))
     ELSE AllocateLargeAligned(Counted(m), align, size)

ObjectSize(m, at) == IF m.pages[at].pool THEN 1 ELSE m.pages[at].span_size

Shrunk(m, at, n) ==
  LET old == m.pages[at].span_size
  IN IF m.pages[at].pool \/ old = n THEN Counted(m)
     ELSE FreeSpan([Counted(m) EXCEPT !.pages[at].span_size = n,
                             !.pages[at + n - 1].free = FALSE,
                             !.pages[at + n - 1].span_size = n],
                   at + n, old - n)

----------------------------------------------------------------------------
(***************************************************************************)
(* What programs call.  held has an object until it is freed; reclaimers   *)
(* are run within calls, and what they gave back is no longer held.        *)
(***************************************************************************)

Runs(c) == ~cpu_mem[c].exited /\ push[c] = << >>

Cached(m) == {m.cache[i] : i \in DOMAIN m.cache}

\* The objects left once the call turned c's memory into m.
Left(c, m) == {o \in held[c] : o.at \notin Cached(cpu_mem[c]) \ Cached(m)}

\* c's memory becomes r.mem; the program has a new object, unless r.at is 0.
Answer(c, r, size, new, gone) ==
  /\ cpu_mem' = [cpu_mem EXCEPT ![c] = r.mem]
  /\ held' = [held EXCEPT ![c] = (Left(c, r.mem) \ gone) \cup
                IF r.at = 0 THEN {} ELSE {[at |-> r.at, size |-> size, new |-> new]}]
  /\ UNCHANGED <<push, leaked>>

MayAllocate(c) == Runs(c) /\ c \in Allocating /\ cpu_mem[c].g_allocs < MaxAllocs

\* malloc, calloc
Malloc(c, n) ==
  /\ MayAllocate(c)
  /\ n > 0
  /\ Answer(c, Allocate(cpu_mem[c], n), n, FALSE, {})

\* operator new, new[], and their nothrow forms
New(c, n) ==
  /\ MayAllocate(c)
  /\ LET size == IF n = 0 THEN 1 ELSE n
     IN Answer(c, Allocate(cpu_mem[c], size), size, TRUE, {})

\* posix_memalign, memalign, aligned_alloc
Memalign(c, align, n) ==
  /\ MayAllocate(c)
  /\ LET size == IF n > align THEN n ELSE align
     IN Answer(c, AllocateAligned(cpu_mem[c], align, n), size, FALSE, {})

\* The object is copied to r.at, unless that is null, and freed.
Moved(c, r, o, n) ==
  IF r.at = 0 THEN Answer(c, r, n, FALSE, {})
  ELSE Answer(c, [r EXCEPT !.mem = FreeObject(@, o.at)], n, FALSE, {o})

\* realloc, of an object of this cpu: shrink asserts that.
Realloc(c, o, n) ==
  /\ Runs(c)
  /\ o \in held[c] /\ ~o.new /\ o.at \notin Cached(cpu_mem[c])
  /\ n > 0 /\ cpu_mem[c].g_allocs < MaxAllocs
  /\ LET m    == cpu_mem[c]
         size == ObjectSize(m, o.at)
     IN \/ n < size /\ Answer(c, [mem |-> Shrunk(m, o.at, n), at |-> o.at], n, FALSE, {o})
        \/ n > size /\ Moved(c, Allocate(m, n), o, n)

\* free, cfree, operator delete, of an object of this cpu.
Free(c, o) ==
  /\ Runs(c)
  /\ o \in held[c] /\ o.at \notin Cached(cpu_mem[c])
  /\ Answer(c, [mem |-> FreeObject(cpu_mem[c], o.at), at |-> 0], 0, FALSE, {o})

\* operator delete with the size.
Delete(c, o) ==
  /\ Runs(c)
  /\ o \in held[c] /\ o.new /\ o.at \notin Cached(cpu_mem[c])
  /\ Answer(c, [mem |-> FreeSized(cpu_mem[c], o.at, o.size), at |-> 0], 0, FALSE, {o})

TopOf(list) == IF list = << >> THEN 0 ELSE Head(list)

\* d frees an object of c: c is looked up, and the top of its list read.
FreeCrossCpu(d, c, o) ==
  /\ Runs(d) /\ d # c
  /\ o \in held[c] /\ o.at \notin Cached(cpu_mem[c])
  /\ held' = [held EXCEPT ![c] = @ \ {o}]
  /\ IF cpu_mem[c].live
     THEN /\ push' = [push EXCEPT ![d] = <<c, o.at, TopOf(cpu_mem[c].xcpu_freelist)>>]
          /\ UNCHANGED leaked
     ELSE /\ leaked' = [leaked EXCEPT ![c] = @ \cup {o.at}]
          /\ UNCHANGED push
  /\ UNCHANGED cpu_mem

\* Bug: the object is pushed, before the one read, although the top of the list has changed.
PushWithoutCompare(d) ==
  /\ push[d] # << >>
  /\ LET c == push[d][1] IN
     cpu_mem' = [cpu_mem EXCEPT ![c].xcpu_freelist =
        <<push[d][2]>> \o CASE push[d][3] = TopOf(@) -> @
                            [] push[d][3] = 0 -> << >>
                            [] OTHER -> <<push[d][3]>>]
  /\ push' = [push EXCEPT ![d] = << >>]
  /\ UNCHANGED <<held, leaked>>

\* The compare-exchange, which reads the top of the list anew if it fails.
CompareExchange(d) ==
  /\ push[d] # << >>
  /\ LET c   == push[d][1]
         top == TopOf(cpu_mem[c].xcpu_freelist)
     IN IF push[d][3] = top
        THEN /\ cpu_mem' = [cpu_mem EXCEPT ![c].xcpu_freelist = <<push[d][2]>> \o @]
             /\ push' = [push EXCEPT ![d] = << >>]
        ELSE /\ push' = [push EXCEPT ![d][3] = top]
             /\ UNCHANGED cpu_mem
  /\ UNCHANGED <<held, leaked>>

\* External: the poller that calls drain_cross_cpu_freelist.
DrainCrossCpuFreelist(c) ==
  /\ Runs(c)
  /\ cpu_mem[c].xcpu_freelist # << >>
  /\ cpu_mem' = [cpu_mem EXCEPT ![c] = Drain(@)]
  /\ UNCHANGED <<held, push, leaked>>

\* External: a program gives a large object to the reclaimer's cache.
CacheObject(c, o) ==
  /\ Runs(c)
  /\ cpu_mem[c].cache = << >>
  /\ o \in held[c] /\ o.size > 1
  /\ cpu_mem' = [cpu_mem EXCEPT ![c].cache = Append(@, o.at)]
  /\ UNCHANGED <<held, push, leaked>>

SetReclaimHook(c) ==
  /\ Runs(c) /\ ~cpu_mem[c].hooked /\ c \in Allocating
  /\ cpu_mem' = [cpu_mem EXCEPT ![c].hooked = TRUE, ![c].current_min = MinFreePages]
  /\ UNCHANGED <<held, push, leaked>>

Rearmed(m) == [m EXCEPT !.current_min = MinFreePages, !.reclaim = FALSE]

\* The function given to the reclaim hook.
ScheduledReclaim(c) ==
  /\ Runs(c) /\ cpu_mem[c].reclaim
  /\ LET m == cpu_mem[c]
     IN Answer(c, [mem |-> Rearmed(IF m.nr_free_pages < MinFreePages
                                   THEN RunReclaimers(m, FALSE) ELSE m),
                   at |-> 0], 0, FALSE, {})

\* do_resize, with the new array at page at.  The entries for the new pages
\* are read by nothing before they are set: dirty is what its memory held.
WithArray(m, at, dirty) ==
  [m EXCEPT !.pages = [p \in 0 .. MaxPages |-> CASE p < BootPages -> @[p]
                                                 [] p = MaxPages  -> Page(FALSE)
                                                 [] OTHER         -> Page(dirty)],
            !.nr_pages = MaxPages, !.array = at]

\* The old array was at page 0, which stays allocated.
Resized(r, dirty) ==
  FreeSpan(FreeSpan(WithArray(r.mem, r.at, dirty), 1, ArrayPages(BootPages) - 1),
           BootPages, MaxPages - BootPages)

ResizeWith(c, r, dirty) ==
  Answer(c, [mem |-> IF r.at = 0 THEN r.mem ELSE Resized(r, dirty), at |-> 0], 0, FALSE, {})

Resize(c, dirty) ==
  /\ Runs(c) /\ cpu_mem[c].nr_pages = BootPages
  /\ ResizeWith(c, AllocateLarge(cpu_mem[c], ArrayPages(MaxPages)), dirty)

\* ~cpu_pages
Exit(c) ==
  /\ Runs(c) /\ cpu_mem[c].live
  /\ cpu_mem' = [cpu_mem EXCEPT ![c].live = FALSE, ![c].exited = TRUE]
  /\ UNCHANGED <<held, push, leaked>>

Step(c) ==
  \/ \E n \in MallocSizes : Malloc(c, n)
  \/ \E n \in NewSizes : New(c, n)
  \/ \E align \in Alignments, n \in MallocSizes : Memalign(c, align, n)
  \/ \E o \in held[c] : \/ Free(c, o) \/ Delete(c, o) \/ CacheObject(c, o)
                        \/ \E n \in MallocSizes : Realloc(c, o, n)
  \/ \E d \in Cpus : \E o \in held[d] : FreeCrossCpu(c, d, o)
  \/ CompareExchange(c) \/ DrainCrossCpuFreelist(c)
  \/ SetReclaimHook(c) \/ ScheduledReclaim(c) \/ Exit(c)
  \/ \E dirty \in BOOLEAN : Resize(c, dirty)

Next == \E c \in Cpus : Step(c)

Spec == Init /\ [][Next]_vars

----------------------------------------------------------------------------
(***************************************************************************)
(* Properties.                                                             *)
(***************************************************************************)

Span(at, n) == at .. at + n - 1

FreeHeads(m) == UNION {{m.free_spans[i][j] : j \in DOMAIN m.free_spans[i]} : i \in ListIndices}

\* Objects that were freed by another cpu and have not come back yet.
Travelling(c) ==
  {cpu_mem[c].xcpu_freelist[i] : i \in DOMAIN cpu_mem[c].xcpu_freelist}
    \cup {push[d][2] : d \in {e \in Cpus : push[e] # << >> /\ push[e][1] = c}}
    \cup leaked[c]

\* Pool objects that are with programs, on the way back, or on the free list.
ObjectsOf(c) ==
  LET m == cpu_mem[c]
  IN {o \in {x.at : x \in held[c]} \cup Travelling(c) : m.pages[o].pool}
       \cup {m.free[i] : i \in DOMAIN m.free}

SmallSpans(c) == {o - cpu_mem[c].pages[o].offset_in_span : o \in ObjectsOf(c)}

Owners(c, p) ==
  LET m == cpu_mem[c]
  IN {<<"free", h>> : h \in {f \in FreeHeads(m) : p \in Span(f, m.pages[f].span_size)}}
       \cup {<<"large", o.at>> : o \in {x \in held[c] : /\ ~m.pages[x.at].pool
                                                        /\ p \in Span(x.at, x.size)}}
       \cup {<<"freed", a>> : a \in {x \in Travelling(c) : /\ ~m.pages[x].pool
                                        /\ p \in Span(x, m.pages[x].span_size)}}
       \cup {<<"small", h>> : h \in {q \in SmallSpans(c) : p \in Span(q, SpanSize)}}
       \cup {<<"array", m.array>> : x \in {p} \cap Span(m.array, ArrayPages(m.nr_pages))}

\* Every page but page 0 belongs to exactly one of a free span, a large
\* object that is held or on its way back, a span of small objects and the
\* page array: no two objects overlap, none lies in memory that is free, and
\* none is lost, whatever was merged, split, trimmed, shrunk and resized.
PagesOwnedOnce ==
  \A c \in Cpus : \A p \in 1 .. cpu_mem[c].nr_pages - 1 : Cardinality(Owners(c, p)) = 1

\* Free spans are on the list of their size, as long as the pages between
\* two that are taken (no two free spans are next to each other), their sizes
\* add up to nr_free_pages, and a span is found for every size for which there
\* is one: an allocation fails only when no span is large enough.
FindsFreeSpans ==
  \A c \in Cpus :
    LET m     == cpu_mem[c]
        heads == FreeHeads(m)
        size(h) == m.pages[h].span_size
        total[S \in SUBSET heads] ==
          IF S = {} THEN 0 ELSE LET h == CHOOSE x \in S : TRUE IN size(h) + total[S \ {h}]
    IN /\ \A i \in ListIndices : \A j \in DOMAIN m.free_spans[i] :
            index_of(size(m.free_spans[i][j])) = i
       /\ m.nr_free_pages = total[heads]
       /\ \A h \in heads : h + size(h) \notin heads
       /\ \A n \in 1 .. m.nr_pages : FindSpan(m, n) = 0 <=> \A h \in heads : size(h) < n

\* An object of the pool is in one place (with a program, on the way back from
\* another cpu, on the pool's free list or on its span's), and a span counts
\* the objects that are not on its own list: it is freed when, and only when,
\* all of them are.
SmallObjectsOnce ==
  \A c \in Cpus :
    LET m    == cpu_mem[c]
        out  == {o.at : o \in held[c]} \cup Travelling(c)
        free == {m.free[i] : i \in DOMAIN m.free}
        listed  == {m.span_list[i] : i \in DOMAIN m.span_list}
        back(h) == {m.pages[h].freelist[i] : i \in DOMAIN m.pages[h].freelist}
        used(h) == Span(h, SpanSize) \cap ObjectsOf(c)
    IN /\ Cardinality(free) = Len(m.free) /\ free \cap out = {}
       /\ listed = {h \in SmallSpans(c) : back(h) # {}}
       /\ \A h \in SmallSpans(c) :
            /\ back(h) \cap used(h) = {} /\ back(h) \cup used(h) = Span(h, SpanSize)
            /\ m.pages[h].nr_small_alloc = Cardinality(used(h))
=============================================================================
