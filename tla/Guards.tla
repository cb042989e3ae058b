------------------------------- MODULE Guards -------------------------------
(***************************************************************************)
(* Who frees the memory of I/O buffers (io/detail/guard.h, io/byte_blob.h, *)
(* the arena of io/basic_buffer_allocator.h).  A byte_blob is a range of   *)
(* bytes and a guard.  A guard is a tagged pointer: to an object that it   *)
(* frees itself, or to an impl, which counts the guards that share it,     *)
(* owns an object (or another guard) and has the next guard of a chain.    *)
(*                                                                         *)
(* A blob is [size, guard]; which bytes of its object it has is left out.  *)
(* A blob that was moved from is reset, as fragment and the arena do.      *)
(***************************************************************************)
EXTENDS Integers, Sequences, FiniteSets

CONSTANTS
  Slots,        \* the variables of a program that hold a blob
  Arena,        \* arena_fragment_allocator::_arena, not one of them
  Sizes,        \* sizes given to the operations
  ArenaSize,    \* _arena_size
  LowWatermark, \* _low_watermark
  MaxObjects,   \* bound: objects at a time
  MaxImpls,     \* bound: impls at a time
  AppendsAnywhere \* whether programs append to every chain; see Appendable

VARIABLES
  heap,   \* the impls, and how often each object was freed since it was made
  blobs,  \* per slot, and for the arena: its blob
  kept    \* history, per slot: the objects that its guard has to keep

vars == <<heap, blobs, kept>>

Holders == Slots \cup {Arena}

Null    == << >>
Raw(o)  == <<"raw", o>>   \* USE_FREE is set
Impl(i) == <<"impl", i>>
Wild    == <<"wild">>     \* a pointer that is not to an object

IsRaw(g)  == g # Null /\ g[1] = "raw"
IsImpl(g) == g # Null /\ g[1] = "impl"

NoImpl == [refs |-> 0, next |-> Null, owns |-> Null]
NoBlob == [size |-> 0, guard |-> Null]

Init ==
  /\ heap = [impls |-> [i \in 1 .. MaxImpls |-> NoImpl],
             freed |-> [o \in 1 .. MaxObjects |-> 1],
             misused |-> FALSE]
  /\ blobs = [b \in Holders |-> NoBlob]
  /\ kept = [b \in Holders |-> {}]

----------------------------------------------------------------------------
(***************************************************************************)
(* Guards.                                                                 *)
(***************************************************************************)

Unused(h) == {i \in 1 .. MaxImpls : h.impls[i].refs = 0}

NewImpl(h) == CHOOSE i \in Unused(h) : \A j \in Unused(h) : i <= j

FreeObject(h, o) == [h EXCEPT !.freed[o] = @ + 1]

\* A guard of impl i goes: the last one deletes it, and with it what it owns and
\* the guard after it, which are then to be released.
DropImpl(h, i, pending) ==
  CASE h.impls[i].refs = 0 ->
         [heap |-> [h EXCEPT !.misused = TRUE], pending |-> pending]
    [] h.impls[i].refs = 1 ->
         [heap |-> [h EXCEPT !.impls[i] = NoImpl],
          pending |-> pending \o <<h.impls[i].next, h.impls[i].owns>>]
    [] OTHER ->
         [heap |-> [h EXCEPT !.impls[i].refs = @ - 1], pending |-> pending]

\* ~guard, one guard after the other: state has the guards to come.
ReleaseOne(state) ==
  LET n    == Len(state.pending)
      g    == state.pending[n]
      rest == SubSeq(state.pending, 1, n - 1)
  IN  CASE n = 0 -> state
        [] n > 0 /\ g = Null -> [heap |-> state.heap, pending |-> rest]
        [] n > 0 /\ IsRaw(g) -> [heap |-> FreeObject(state.heap, g[2]), pending |-> rest]
        [] n > 0 /\ IsImpl(g) -> DropImpl(state.heap, g[2], rest)
        [] n > 0 /\ g = Wild -> [heap |-> [state.heap EXCEPT !.misused = TRUE], pending |-> rest]

\* An impl that is deleted leaves two guards to release.
MaxReleases == 2 * MaxImpls + 1

Released(h, g) ==
  LET after[n \in 0 .. MaxReleases] ==
        IF n = 0 THEN [heap |-> h, pending |-> <<g>>] ELSE ReleaseOne(after[n - 1])
  IN  after[MaxReleases].heap

\* Bug: the new guard is not counted.
SharedUncounted(h, g) ==
  IF IsRaw(g)
  THEN [heap |-> [h EXCEPT !.impls[NewImpl(h)] = [refs |-> 1, next |-> Null, owns |-> g]],
        guard |-> Impl(NewImpl(h))]
  ELSE [heap |-> h, guard |-> g]

\* guard::share: what g becomes, which is also the new guard.
Shared(h, g) ==
  CASE g = Null -> [heap |-> h, guard |-> Null]
    [] IsRaw(g) ->
         [heap |-> [h EXCEPT !.impls[NewImpl(h)] = [refs |-> 2, next |-> Null, owns |-> g]],
          guard |-> Impl(NewImpl(h))]
    [] IsImpl(g) ->
         [heap |-> [h EXCEPT !.impls[g[2]].refs = @ + 1], guard |-> g]

\* The impls of a chain: those that are met from guard g on.
Follows(h, s) == \A i \in s : IsImpl(h.impls[i].next) => h.impls[i].next[2] \in s

Chain(h, g) ==
  {i \in 1 .. MaxImpls :
     IsImpl(g) /\ \A s \in SUBSET (1 .. MaxImpls) :
                    g[2] \in s /\ Follows(h, s) => i \in s}

\* The chains that append gets right: nobody shares an impl that has a guard
\* behind it, and that guard is of an impl.
Appendable(h, to) ==
  \A i \in Chain(h, to) :
    h.impls[i].next # Null => h.impls[i].refs = 1 /\ IsImpl(h.impls[i].next)

\* The loop of guard::append goes along the chain of a guard: w.at is the impl
\* behind which it looks, 0 for the guard itself.
Here(w) == IF w.at = 0 THEN w.guard ELSE w.heap.impls[w.at].next

\* g comes behind impl i.
Linked(h, i, g) == [h EXCEPT !.impls[i].next = g]

PutHere(w, g) ==
  IF w.at = 0 THEN [w EXCEPT !.guard = g] ELSE [w EXCEPT !.heap = Linked(w.heap, w.at, g)]

\* A new impl takes the place of the guard here.
Interposed(w, new) ==
  LET k   == NewImpl(w.heap)
      put == PutHere(w, Impl(k))
  IN  [heap |-> [put.heap EXCEPT !.impls[k] = new], guard |-> put.guard, at |-> k]

\* One round.  An object that is freed directly gets an impl, which is made for
\* the pointer of the first guard, wherever the loop is.  An impl that others
\* share gets one that owns it and takes over the guard behind it.
WalkOne(w) ==
  LET g == Here(w)
      i == g[2]
      taking == Interposed(w, [refs |-> 1, next |-> w.heap.impls[i].next, owns |-> g])
  IN  CASE g = Null -> w
        [] IsRaw(g) ->
             Interposed(w, [refs |-> 1, next |-> Null, owns |-> IF w.at = 0 THEN g ELSE Wild])
        [] IsImpl(g) -> IF w.heap.impls[i].refs = 1
                        THEN [w EXCEPT !.at = i]
                        ELSE [taking EXCEPT !.heap = Linked(taking.heap, i, Null)]

\* An object may come behind the last impl.
Walked(h, to) ==
  LET after[n \in 0 .. MaxImpls + 1] ==
        IF n = 0 THEN [heap |-> h, guard |-> to, at |-> 0] ELSE WalkOne(after[n - 1])
  IN  after[MaxImpls + 1]

\* guard::append: g is hung where the loop ends.
Appended(h, to, g) ==
  LET end == PutHere(Walked(h, to), g)
  IN  IF g = Null THEN [heap |-> h, guard |-> to]
      ELSE [heap |-> end.heap, guard |-> end.guard]

----------------------------------------------------------------------------
(***************************************************************************)
(* Blobs.                                                                  *)
(***************************************************************************)

Unallocated == {o \in 1 .. MaxObjects : heap.freed[o] # 0}

MayAllocate == Unallocated # {}

\* malloc: memory that was freed, or never used.
NewObject == CHOOSE o \in Unallocated : \A p \in Unallocated : o <= p

WithObject(h) == [h EXCEPT !.freed[NewObject] = 0]

MayShare == Unused(heap) # {}

Free(b) == blobs[b] = NoBlob /\ b \in Slots

\* make_heap_byte_blob with make_simple_guard.
MakeSimple(b, n) ==
  /\ Free(b) /\ MayAllocate
  /\ blobs' = [blobs EXCEPT ![b] = [size |-> n, guard |-> Raw(NewObject)]]
  /\ heap' = WithObject(heap)
  /\ kept' = [kept EXCEPT ![b] = {NewObject}]

\* make_object_guard: an object that its impl holds.
MakeObject(b, n) ==
  /\ Free(b) /\ MayAllocate /\ MayShare
  /\ LET k == NewImpl(heap)
     IN  /\ heap' = [WithObject(heap) EXCEPT !.impls[k] =
                       [refs |-> 1, next |-> Null, owns |-> Raw(NewObject)]]
         /\ blobs' = [blobs EXCEPT ![b] = [size |-> n, guard |-> Impl(k)]]
  /\ kept' = [kept EXCEPT ![b] = {NewObject}]

\* Slot c gets n bytes of the object of b, and shares its guard.
SharedWith(b, c, n) ==
  LET r == Shared(heap, blobs[b].guard)
  IN  /\ MayShare
      /\ heap' = r.heap
      /\ blobs' = [blobs EXCEPT ![b].guard = r.guard,
                                ![c] = [size |-> n, guard |-> r.guard]]
      /\ kept' = [kept EXCEPT ![c] = kept[b]]

\* clone, and the constructor from a ref.
Clone(b, c) ==
  /\ b # c /\ Free(c) /\ b \in Slots /\ blobs[b].guard # Null
  /\ SharedWith(b, c, blobs[b].size)

\* share: up to n bytes.
Share(b, c, offset, n) ==
  /\ b # c /\ Free(c) /\ b \in Slots
  /\ offset < blobs[b].size /\ n > 0
  /\ SharedWith(b, c, IF n < blobs[b].size - offset THEN n ELSE blobs[b].size - offset)

\* split, into c: all of b when the offset is 0.
Split(b, c, offset) ==
  /\ b # c /\ Free(c) /\ b \in Slots
  /\ offset < blobs[b].size
  /\ IF offset = 0
     THEN /\ blobs' = [blobs EXCEPT ![c] = blobs[b], ![b] = NoBlob]
          /\ kept' = [kept EXCEPT ![c] = kept[b], ![b] = {}]
          /\ UNCHANGED heap
     ELSE LET r == Shared(heap, blobs[b].guard)
          IN  /\ MayShare
              /\ heap' = r.heap
              /\ blobs' = [blobs EXCEPT
                             ![b] = [size |-> offset, guard |-> r.guard],
                             ![c] = [size |-> blobs[b].size - offset, guard |-> r.guard]]
              /\ kept' = [kept EXCEPT ![c] = kept[b]]

\* operator= of a ref: the old guard goes first.
CopyAssign(b, c) ==
  /\ b # c /\ b \in Slots /\ c \in Slots /\ blobs[b].guard # Null /\ ~Free(c)
  /\ MayShare
  /\ LET r == Shared(Released(heap, blobs[c].guard), blobs[b].guard)
     IN  /\ heap' = r.heap
         /\ blobs' = [blobs EXCEPT ![b].guard = r.guard,
                                   ![c] = [size |-> blobs[b].size, guard |-> r.guard]]
  /\ kept' = [kept EXCEPT ![c] = kept[b]]

\* The move assignment of guards and blobs, and ~byte_blob.
MoveAssign(b, c) ==
  /\ b # c /\ ~Free(b) /\ ~Free(c) /\ {b, c} \subseteq Slots
  /\ heap' = Released(heap, blobs[c].guard)
  /\ blobs' = [blobs EXCEPT ![c] = blobs[b], ![b] = NoBlob]
  /\ kept' = [kept EXCEPT ![c] = kept[b], ![b] = {}]

Destroy(b) ==
  /\ blobs[b] # NoBlob
  /\ heap' = Released(heap, blobs[b].guard)
  /\ blobs' = [blobs EXCEPT ![b] = NoBlob]
  /\ kept' = [kept EXCEPT ![b] = {}]

\* There is an impl for an object, and one for each impl that others share.
MayAppend(to) ==
  /\ MayShare
  /\ ~Appendable(heap, to) =>
       /\ AppendsAnywhere
       /\ Cardinality(Unused(heap)) >
            Cardinality({i \in Chain(heap, to) : heap.impls[i].refs # 1})

\* The guard of b keeps alive what that of c did.  (That c is not in the chain
\* already is asserted.)
AppendGuard(b, c) ==
  /\ b # c /\ ~Free(b) /\ ~Free(c) /\ {b, c} \subseteq Slots
  /\ MayAppend(blobs[b].guard)
  /\ blobs[c].guard \notin {Impl(i) : i \in Chain(heap, blobs[b].guard)}
  /\ LET r == Appended(heap, blobs[b].guard, blobs[c].guard)
     IN  /\ heap' = r.heap
         /\ blobs' = [blobs EXCEPT ![b].guard = r.guard, ![c] = NoBlob]
  /\ kept' = [kept EXCEPT ![b] = @ \cup kept[c], ![c] = {}]

----------------------------------------------------------------------------
(***************************************************************************)
(* arena_fragment_allocator.                                               *)
(***************************************************************************)

NewArena(o) == [size |-> ArenaSize, guard |-> Raw(o)]

\* An arena with too little left is given away whole, and there is a new one.
ArenaGivenAway(b, n) ==
  /\ blobs[Arena].size > 0 /\ blobs[Arena].size <= n + LowWatermark
  /\ MayAllocate
  /\ blobs' = [blobs EXCEPT ![b] = blobs[Arena], ![Arena] = NewArena(NewObject)]
  /\ heap' = WithObject(heap)
  /\ kept' = [kept EXCEPT ![b] = kept[Arena], ![Arena] = {NewObject}]

\* Otherwise the blob is a copy of the arena, and so has all of its bytes, and
\* the arena goes on with what is left behind the first n.
ArenaShared(b, n) ==
  LET new   == blobs[Arena].size = 0
      arena == IF new THEN NewArena(NewObject) ELSE blobs[Arena]
      old   == IF new THEN WithObject(heap) ELSE heap
      r     == Shared(old, arena.guard)
      keeps == IF new THEN {NewObject} ELSE kept[Arena]
      used  == n >= arena.size   \* split returns an empty blob
  IN  /\ IF new THEN MayAllocate ELSE arena.size > n + LowWatermark
      /\ MayShare
      /\ heap' = IF used THEN Released(r.heap, r.guard) ELSE r.heap
      /\ blobs' = [blobs EXCEPT
                     ![b] = [size |-> arena.size, guard |-> r.guard],
                     ![Arena] = IF used THEN NoBlob
                                ELSE [size |-> arena.size - n, guard |-> r.guard]]
      /\ kept' = [kept EXCEPT ![b] = keeps, ![Arena] = IF used THEN {} ELSE keeps]

ArenaAllocate(b, n) == Free(b) /\ (ArenaGivenAway(b, n) \/ ArenaShared(b, n))

Next ==
  \/ \E b \in Holders : Destroy(b)
  \/ \E b \in Slots, n \in Sizes : MakeSimple(b, n) \/ MakeObject(b, n) \/ ArenaAllocate(b, n)
  \/ \E b, c \in Slots :
       \/ Clone(b, c) \/ CopyAssign(b, c) \/ MoveAssign(b, c) \/ AppendGuard(b, c)
       \/ \E n \in Sizes \cup {0} : Split(b, c, n)
       \/ \E offset \in Sizes \cup {0}, n \in Sizes : Share(b, c, offset, n)

Spec == Init /\ [][Next]_vars

----------------------------------------------------------------------------
(***************************************************************************)
(* Properties.                                                             *)
(***************************************************************************)

\* An object is freed once, with the last blob that has a part of it or keeps
\* it in the chain of its guard, and not before: however often it was cloned,
\* split, assigned and appended to, and whether its guard frees it directly or
\* through an impl.  No impl is used after it was deleted.  (With
\* AppendsAnywhere, chains that are not Appendable are appended to as well.)
FreedOnce ==
  /\ ~heap.misused
  /\ \A o \in 1 .. MaxObjects :
       heap.freed[o] = IF \E b \in Holders : o \in kept[b] THEN 0 ELSE 1
=============================================================================
