--------------------------- MODULE BuffersProofs ---------------------------
(***************************************************************************)
(* Proofs about RingBuffer, for objects of any sizes and rings of any      *)
(* size, and about the I/O buffers (Buffer), for any number of buffers and *)
(* of bytes.                                                               *)
(***************************************************************************)
EXTENDS Containers, QueueLemmas, SequenceTheorems, TLAPS

----------------------------------------------------------------------------
(***************************************************************************)
(* The inductive invariant.  The unread blocks lie one behind the other    *)
(* from the read index to the write index, with at most one jump back to   *)
(* the start; the jump is where the reader finds the end of the ring.      *)
(***************************************************************************)

Blocks == [at : Nat, object : Objects]

\* The first byte behind a block.
End(b) == b.at + Length[b.object]

Types ==
  /\ size \in Nat \ {0}
  /\ reserved \in Nat
  /\ write_idx \in Nat /\ write_idx < size
  /\ read_idx \in Nat /\ read_idx < size
  /\ cell \in [Offsets -> Objects \cup {Marker, Junk}]
  /\ writer \in [at : {"idle", "write", "publish"}, object : Objects \cup {None},
                 offset : Nat]
  /\ writer.at # "idle" => writer.object \in Objects
  /\ reader \in [at : {"idle", "wrap", "found"},
                 object : Objects \cup {Marker, Junk, None}]
  /\ unread \in Seq(Blocks)

\* Every unread block is whole, inside the ring and between the indices.
Placed(b) ==
  /\ End(b) < size
  /\ cell[b.at] = b.object
  /\ read_idx <= write_idx => read_idx <= b.at /\ End(b) <= write_idx
  /\ write_idx < read_idx => read_idx <= b.at \/ End(b) <= write_idx

\* b was published before c.
Before(b, c) ==
  /\ \/ End(b) <= c.at
     \/ write_idx < read_idx /\ read_idx <= b.at /\ End(c) <= write_idx
  /\ write_idx < read_idx /\ End(b) <= write_idx => End(c) <= write_idx

\* The reader goes from e to a: a is next, or at the start and e at the end.
Follows(e, a) == a = e \/ (a = 0 /\ AtEnd(e))

Chained ==
  /\ unread = << >> => read_idx = write_idx
  /\ unread # << >> => /\ Follows(read_idx, unread[1].at)
                       /\ End(unread[Len(unread)]) = write_idx
  /\ \A i \in DOMAIN unread : i + 1 \in DOMAIN unread =>
       Follows(End(unread[i]), unread[i + 1].at)

Layout ==
  /\ \A i \in DOMAIN unread : Placed(unread[i])
  /\ \A i, j \in DOMAIN unread : i < j => Before(unread[i], unread[j])
  /\ Chained

\* The room that do_push found is still there, wherever the reader is now.
RoomLeft ==
  writer.at # "idle" =>
    LET n == Length[writer.object] IN
    \/ /\ writer.offset = write_idx
       /\ write_idx + n < size
       /\ write_idx < read_idx => write_idx + n < read_idx
    \/ /\ writer.offset = 0 /\ 0 < write_idx
       /\ n < read_idx /\ read_idx <= write_idx

\* What do_push has written but not published.
WrittenOut ==
  writer.at = "publish" =>
    /\ cell[writer.offset] = writer.object
    /\ writer.offset < write_idx => AtEnd(write_idx)

ReaderOK ==
  /\ reader.at = "found" => /\ unread # << >>
                            /\ unread[1].at = read_idx
                            /\ reader.object = unread[1].object
  /\ reader.at = "wrap" => /\ unread # << >>
                           /\ unread[1].at = 0
                           /\ AtEnd(read_idx) /\ write_idx < read_idx

IInv == Types /\ Layout /\ RoomLeft /\ WrittenOut /\ ReaderOK

----------------------------------------------------------------------------
(***************************************************************************)
(* What the invariant says of each block, and the initial state.           *)
(***************************************************************************)

\* What _SIZE, the indices and the blocks are, as numbers.
LEMMA Numbers ==
  ASSUME Types
  PROVE  /\ size \in Nat /\ write_idx \in Nat /\ read_idx \in Nat
         /\ Len(unread) \in Nat /\ DOMAIN unread = 1 .. Len(unread)
         /\ unread # << >> <=> Len(unread) > 0
         /\ Word \in Nat /\ Word > 0
         /\ \A i \in DOMAIN unread :
              /\ unread[i] \in Blocks
              /\ unread[i].at \in Nat
              /\ unread[i].object \in Objects
              /\ Length[unread[i].object] \in Nat
              /\ Length[unread[i].object] > Word
              /\ End(unread[i]) \in Nat
              /\ End(unread[i]) = unread[i].at + Length[unread[i].object]
              /\ End(unread[i]) > unread[i].at + Word
  <1>1. /\ Len(unread) \in Nat /\ DOMAIN unread = 1 .. Len(unread)
        /\ \A i \in 1 .. Len(unread) : unread[i] \in Blocks
    BY LenProperties, ElementOfSeq DEF Types
  <1>2. unread # << >> <=> Len(unread) > 0
    BY <1>1, EmptySeq DEF Types
  <1>3. \A i \in DOMAIN unread : unread[i].at \in Nat /\ unread[i].object \in Objects
    BY <1>1 DEF Blocks
  <1>4. \A x \in Objects : Length[x] \in Nat /\ Length[x] > Word
    BY RingAssumption
  <1> QED BY <1>1, <1>2, <1>3, <1>4, RingAssumption DEF Types, End

\* What do_push is about to write, as numbers.
LEMMA Pushing ==
  ASSUME Types, RoomLeft, writer.at # "idle"
  PROVE  /\ writer.object \in Objects
         /\ Length[writer.object] \in Nat
         /\ Length[writer.object] > Word
         /\ writer.offset \in Nat
         /\ \/ /\ writer.offset = write_idx
               /\ write_idx + Length[writer.object] < size
               /\ write_idx < read_idx => write_idx + Length[writer.object] < read_idx
            \/ /\ writer.offset = 0 /\ 0 < write_idx
               /\ Length[writer.object] < read_idx /\ read_idx <= write_idx
         /\ writer.offset + Length[writer.object] < size
         /\ writer.offset \in Offsets
  <1>1. writer.object \in Objects /\ writer.offset \in Nat
    BY DEF Types
  <1>2. Length[writer.object] \in Nat /\ Length[writer.object] > Word
    BY <1>1, RingAssumption
  <1>3. \/ /\ writer.offset = write_idx
           /\ write_idx + Length[writer.object] < size
           /\ write_idx < read_idx => write_idx + Length[writer.object] < read_idx
        \/ /\ writer.offset = 0 /\ 0 < write_idx
           /\ Length[writer.object] < read_idx /\ read_idx <= write_idx
    BY DEF RoomLeft
  <1>4. writer.offset + Length[writer.object] < size
    BY <1>1, <1>2, <1>3, Numbers DEF Types
  <1> QED BY <1>1, <1>2, <1>3, <1>4, Numbers DEF Types, Offsets

LEMMA InitInvariant == Init => IInv
  <1> SUFFICES ASSUME Init PROVE IInv
    OBVIOUS
  <1>1. Types
    <2>1. size \in Nat \ {0} /\ reserved \in Nat
      BY RingAssumption DEF Init
    <2>2. cell \in [Offsets -> Objects \cup {Marker, Junk}]
      BY DEF Init
    <2> QED BY <2>1, <2>2 DEF Init, Types, Resting
  <1>2. Layout
    BY DEF Init, Layout, Chained
  <1> QED BY <1>1, <1>2 DEF Init, IInv, RoomLeft, WrittenOut, ReaderOK, Resting

----------------------------------------------------------------------------
(***************************************************************************)
(* Writing.  The bytes that do_push writes are disjoint from every unread  *)
(* block and from the mark that sends the reader back to the start.        *)
(***************************************************************************)

\* A write leaves the offsets alone whose blocks it does not overlap.
LEMMA WrittenElsewhere ==
  ASSUME NEW c, NEW i, NEW n, NEW x, NEW j \in DOMAIN c,
         j # i, ~Overlap(j, BlockLength(c, j), i, n)
  PROVE  Written(c, i, n, x)[j] = c[j]
  BY DEF Written

\* WritesFreeSpace, of what is about to be written and of what was.
LEMMA RoomIsFree ==
  ASSUME Types, Layout, RoomLeft, writer.at # "idle", NEW i \in DOMAIN unread
  PROVE  /\ ~Overlap(writer.offset, Length[writer.object],
                     unread[i].at, Length[unread[i].object])
         /\ Marks => ~Overlap(write_idx, Word,
                              unread[i].at, Length[unread[i].object])
  <1>1. Placed(unread[i])
    BY DEF Layout
  <1> QED BY <1>1, Pushing, Numbers, SMTT(30) DEF Placed, Overlap, Marks

\* What do_push writes, whole (x is the object) or not (x is Junk).
LEMMA WriteKeeps ==
  ASSUME Types, Layout, RoomLeft, writer.at = "write",
         NEW x \in Objects \cup {Junk}, NEW c,
         c = Written(MaybeMarked, writer.offset, Length[writer.object], x)
  PROVE  /\ c \in [Offsets -> Objects \cup {Marker, Junk}]
         /\ c[writer.offset] = x
         /\ \A i \in DOMAIN unread : c[unread[i].at] = unread[i].object
         /\ \A e \in Offsets : write_idx < read_idx /\ read_idx <= e /\ cell[e] = Marker
                                 => c[e] = Marker
         /\ writer.offset < write_idx =>
              c[write_idx] = Marker \/ size - write_idx <= Word
  <1> DEFINE o == writer.offset
             n == Length[writer.object]
             m == MaybeMarked
  <1>1. cell \in [Offsets -> Objects \cup {Marker, Junk}]
    BY DEF Types
  <1>2. m \in [Offsets -> Objects \cup {Marker, Junk}]
    BY <1>1 DEF MaybeMarked, Written
  <1>3. c \in [Offsets -> Objects \cup {Marker, Junk}]
    BY <1>2 DEF Written
  <1>4. c[o] = x
    BY <1>2, Pushing DEF Written
  <1>5. ASSUME NEW i \in DOMAIN unread
        PROVE  c[unread[i].at] = unread[i].object
    <2> DEFINE a == unread[i].at
               k == Length[unread[i].object]
    <2>1. /\ End(unread[i]) < size
          /\ cell[a] = unread[i].object
      BY DEF Layout, Placed
    <2>2. a \in Offsets
      BY <2>1, Numbers DEF Offsets
    <2>3. a # o /\ (Marks => a # write_idx)
      BY RoomIsFree, Numbers, Pushing, SMTT(30) DEF Overlap
    <2>4. m[a] = unread[i].object
      <3>1. CASE Marks
        <4>1. BlockLength(cell, a) = k
          BY <2>1, Numbers DEF BlockLength
        <4>2. ~Overlap(a, k, write_idx, Word)
          BY <3>1, RoomIsFree, Numbers DEF Overlap
        <4>3. Written(cell, write_idx, Word, Marker)[a] = cell[a]
          BY <4>1, <4>2, <2>2, <2>3, <3>1, <1>1, WrittenElsewhere
        <4> QED BY <4>3, <3>1, <2>1 DEF MaybeMarked
      <3>2. CASE ~Marks
        BY <3>2, <2>1 DEF MaybeMarked
      <3> QED BY <3>1, <3>2
    <2>5. BlockLength(m, a) = k
      BY <2>4, Numbers DEF BlockLength
    <2>6. ~Overlap(a, k, o, n)
      BY RoomIsFree, Numbers, Pushing DEF Overlap
    <2>7. Written(m, o, n, x)[a] = m[a]
      BY <2>2, <2>3, <2>5, <2>6, <1>2, WrittenElsewhere
    <2> QED BY <2>7, <2>4
  <1>6. ASSUME NEW e \in Offsets, write_idx < read_idx, read_idx <= e, cell[e] = Marker
        PROVE  c[e] = Marker
    <2>1. o = write_idx /\ o + n < read_idx
      BY <1>6, Pushing, Numbers
    <2>2. m = cell
      BY <2>1, Numbers DEF Marks, MaybeMarked
    <2>3. BlockLength(m, e) = 1
      BY <2>2, <1>6, RingAssumption DEF BlockLength
    <2>4. e # o /\ ~Overlap(e, 1, o, n)
      BY <2>1, <1>6, Pushing, Numbers DEF Overlap, Offsets
    <2>5. Written(m, o, n, x)[e] = m[e]
      BY <2>3, <2>4, <1>2, WrittenElsewhere
    <2> QED BY <2>5, <2>2, <1>6
  <1>7. ASSUME o < write_idx, ~(size - write_idx <= Word)
        PROVE  c[write_idx] = Marker
    <2>1. Marks /\ write_idx \in Offsets
      BY <1>7, Numbers DEF Marks, Types, Offsets
    <2>2. m[write_idx] = Marker
      BY <2>1, <1>1 DEF MaybeMarked, Written
    <2>3. BlockLength(m, write_idx) = 1
      BY <2>2, RingAssumption DEF BlockLength
    <2>4. write_idx # o /\ ~Overlap(write_idx, 1, o, n)
      BY <1>7, Pushing, Numbers DEF Overlap
    <2>5. Written(m, o, n, x)[write_idx] = m[write_idx]
      BY <2>1, <2>3, <2>4, <1>2, WrittenElsewhere
    <2> QED BY <2>5, <2>2
  <1> QED BY <1>3, <1>4, <1>5, <1>6, <1>7

\* Where the reader may jump back to the start, it does so at or behind the
\* read index of a ring whose blocks wrap around.
LEMMA Jumps ==
  ASSUME Types, Layout, NEW i \in DOMAIN unread, i + 1 \in DOMAIN unread
  PROVE  /\ End(unread[i]) \in Offsets
         /\ \/ unread[i + 1].at = End(unread[i])
            \/ /\ unread[i + 1].at = 0 /\ AtEnd(End(unread[i]))
               /\ write_idx < read_idx /\ read_idx <= End(unread[i])
  <1>1. Placed(unread[i]) /\ Placed(unread[i + 1])
    BY DEF Layout
  <1>2. Before(unread[i], unread[i + 1])
    BY Numbers DEF Layout
  <1>3. Follows(End(unread[i]), unread[i + 1].at)
    BY DEF Layout, Chained
  <1>4. End(unread[i]) \in Offsets
    BY <1>1, Numbers DEF Placed, Offsets
  <1>5. ASSUME unread[i + 1].at = 0
        PROVE  write_idx < read_idx /\ read_idx <= End(unread[i])
    BY <1>2, <1>5, Numbers DEF Before
  <1> QED BY <1>3, <1>4, <1>5 DEF Follows

\* The first block is where the reader is, or at the start of a ring whose
\* blocks wrap around.
LEMMA First ==
  ASSUME Types, Layout, unread # << >>
  PROVE  /\ 1 \in DOMAIN unread
         /\ Placed(unread[1])
         /\ read_idx \in Offsets
         /\ \/ unread[1].at = read_idx
            \/ /\ unread[1].at = 0 /\ AtEnd(read_idx)
               /\ write_idx < read_idx
  <1>1. 1 \in DOMAIN unread
    BY Numbers
  <1>2. Placed(unread[1])
    BY <1>1 DEF Layout
  <1>3. Follows(read_idx, unread[1].at)
    BY DEF Layout, Chained
  <1> QED BY <1>1, <1>2, <1>3, Numbers DEF Follows, Placed, Types, Offsets

\* The layout survives a write that keeps the blocks and the mark.
LEMMA LayoutKept ==
  ASSUME Types, Layout,
         UNCHANGED <<size, write_idx, read_idx, unread>>,
         \A i \in DOMAIN unread : cell'[unread[i].at] = unread[i].object,
         \A e \in Offsets : write_idx < read_idx /\ read_idx <= e /\ cell[e] = Marker
                              => cell'[e] = Marker
  PROVE  Layout'
  <1>1. ASSUME NEW i \in DOMAIN unread
        PROVE  Placed(unread[i])'
    <2>1. Placed(unread[i])
      BY DEF Layout
    <2> QED BY <2>1 DEF Placed, End
  <1>2. ASSUME NEW i \in DOMAIN unread, NEW j \in DOMAIN unread, i < j
        PROVE  Before(unread[i], unread[j])'
    <2>1. Before(unread[i], unread[j])
      BY <1>2 DEF Layout
    <2> QED BY <2>1 DEF Before, End
  <1>3. ASSUME NEW e \in Offsets, write_idx < read_idx, read_idx <= e, AtEnd(e)
        PROVE  cell'[e] = Marker \/ size' - e <= Word
    BY <1>3 DEF AtEnd
  <1>4. ASSUME NEW i \in DOMAIN unread, i + 1 \in DOMAIN unread
        PROVE  Follows(End(unread[i]), unread[i + 1].at)'
    BY <1>4, <1>3, Jumps DEF Follows, AtEnd, End
  <1>5. unread # << >> => Follows(read_idx, unread[1].at)'
    <2> SUFFICES ASSUME unread # << >> PROVE Follows(read_idx, unread[1].at)'
      OBVIOUS
    <2>1. CASE unread[1].at = read_idx
      BY <2>1 DEF Follows
    <2>2. CASE unread[1].at # read_idx
      <3>1. /\ unread[1].at = 0 /\ AtEnd(read_idx) /\ write_idx < read_idx
            /\ read_idx \in Offsets
        BY <2>2, First
      <3>2. read_idx <= read_idx
        BY Numbers
      <3> QED BY <3>1, <3>2, <1>3 DEF Follows, AtEnd
    <2> QED BY <2>1, <2>2
  <1>6. Chained'
    <2>1. unread = << >> => read_idx = write_idx
      BY DEF Layout, Chained
    <2>2. unread # << >> => End(unread[Len(unread)]) = write_idx
      BY DEF Layout, Chained
    <2> QED BY <2>1, <2>2, <1>4, <1>5 DEF Chained, End
  <1> QED BY <1>1, <1>2, <1>6 DEF Layout

\* The room that write_available reports is there: in front of the reader, or
\* at the start once the block wraps around.
LEMMA PushBeginsInvariant ==
  ASSUME IInv, NEW x \in Objects, NEW force \in BOOLEAN, PushBegins(x, force)
  PROVE  IInv'
  <1> USE DEF IInv
  <1>1. /\ UNCHANGED <<size, reserved, write_idx, read_idx, cell, reader, unread>>
        /\ writer' = [at |-> "write", object |-> x,
                      offset |-> Target(write_idx, Length[x])]
    BY DEF PushBegins, ring
  <1>2. Length[x] \in Nat /\ Length[x] > Word
    BY RingAssumption
  <1>3. \/ /\ Target(write_idx, Length[x]) = write_idx
           /\ write_idx + Length[x] < size
           /\ write_idx < read_idx => write_idx + Length[x] < read_idx
        \/ /\ Target(write_idx, Length[x]) = 0 /\ 0 < write_idx
           /\ Length[x] < read_idx /\ read_idx <= write_idx
    <2>1. /\ WriteAvailable(write_idx, read_idx) >= Length[x]
          /\ WriteAvailable(Target(write_idx, Length[x]), read_idx) >= Length[x]
      BY DEF PushBegins, Fits
    <2>2. CASE WrapsAround(write_idx, Length[x])
      <3>1. Target(write_idx, Length[x]) = 0
        BY <2>2 DEF Target
      <3>2. write_idx + Length[x] >= size
        BY <2>2 DEF WrapsAround
      <3>3. read_idx <= write_idx
        BY <2>1, <3>2, <1>2, Numbers DEF WriteAvailable, Types
      <3>4. 0 < read_idx
        BY <2>1, <3>2, <3>3, <1>2, Numbers DEF WriteAvailable, Types
      <3>5. WriteAvailable(0, read_idx) = read_idx - 1
        BY <3>4, Numbers DEF WriteAvailable
      <3> QED BY <2>1, <3>1, <3>3, <3>4, <3>5, <1>2, Numbers
    <2>3. CASE ~WrapsAround(write_idx, Length[x])
      <3>1. Target(write_idx, Length[x]) = write_idx
        BY <2>3 DEF Target
      <3>2. write_idx + Length[x] < size
        BY <2>3, <1>2, Numbers DEF WrapsAround
      <3>3. write_idx < read_idx => write_idx + Length[x] < read_idx
        BY <2>1, <1>2, Numbers DEF WriteAvailable
      <3> QED BY <3>1, <3>2, <3>3
    <2> QED BY <2>2, <2>3
  <1>4. Types'
    <2>1. Target(write_idx, Length[x]) \in Nat
      BY <1>3, Numbers
    <2> QED BY <1>1, <2>1 DEF Types, Offsets, Blocks
  <1>5. RoomLeft'
    BY <1>1, <1>3 DEF RoomLeft
  <1>6. Layout'
    <2>1. \A i \in DOMAIN unread : cell[unread[i].at] = unread[i].object
      BY DEF Layout, Placed
    <2> QED BY <1>1, <2>1, LayoutKept
  <1>7. WrittenOut'
    BY <1>1 DEF WrittenOut
  <1>8. ReaderOK'
    BY <1>1 DEF ReaderOK, AtEnd
  <1> QED BY <1>4, <1>5, <1>6, <1>7, <1>8

\* The reader's state survives a write that keeps the mark.
LEMMA ReaderKept ==
  ASSUME Types, ReaderOK,
         UNCHANGED <<size, write_idx, read_idx, unread, reader>>,
         \A e \in Offsets : write_idx < read_idx /\ read_idx <= e /\ cell[e] = Marker
                              => cell'[e] = Marker
  PROVE  ReaderOK'
  <1>1. reader.at = "wrap" => AtEnd(read_idx)'
    <2> SUFFICES ASSUME reader.at = "wrap" PROVE AtEnd(read_idx)'
      OBVIOUS
    <2>1. AtEnd(read_idx) /\ write_idx < read_idx
      BY DEF ReaderOK
    <2>2. read_idx \in Offsets /\ read_idx <= read_idx
      BY Numbers DEF Types, Offsets
    <2> QED BY <2>1, <2>2 DEF AtEnd
  <1> QED BY <1>1 DEF ReaderOK

\* The block and the marker are written where nothing is unread.
LEMMA PushWritesInvariant ==
  ASSUME IInv, PushWrites
  PROVE  IInv'
  <1> USE DEF IInv
  <1>1. /\ UNCHANGED <<size, reserved, write_idx, read_idx, reader, unread>>
        /\ writer.at = "write"
        /\ writer' = [writer EXCEPT !.at = "publish"]
        /\ cell' = Written(MaybeMarked, writer.offset, Length[writer.object],
                           writer.object)
    BY DEF PushWrites, ring
  <1>2. writer.object \in Objects \cup {Junk}
    BY <1>1, Pushing
  <1>3. /\ cell' \in [Offsets -> Objects \cup {Marker, Junk}]
        /\ cell'[writer.offset] = writer.object
        /\ \A i \in DOMAIN unread : cell'[unread[i].at] = unread[i].object
        /\ \A e \in Offsets : write_idx < read_idx /\ read_idx <= e /\ cell[e] = Marker
                                => cell'[e] = Marker
        /\ writer.offset < write_idx =>
             cell'[write_idx] = Marker \/ size - write_idx <= Word
    BY <1>1, <1>2, WriteKeeps
  <1>4. /\ writer'.at = "publish"
        /\ writer'.object = writer.object
        /\ writer'.offset = writer.offset
    BY <1>1 DEF Types
  <1>5. Types'
    <2>1. writer' \in [at : {"idle", "write", "publish"},
                       object : Objects \cup {None}, offset : Nat]
      BY <1>1 DEF Types
    <2>2. writer'.object \in Objects
      BY <1>1, <1>4, Pushing
    <2> QED BY <1>1, <1>3, <2>1, <2>2 DEF Types, Offsets, Blocks
  <1>6. Layout'
    BY <1>1, <1>3, LayoutKept
  <1>7. RoomLeft'
    BY <1>1, <1>4 DEF RoomLeft
  <1>8. WrittenOut'
    BY <1>1, <1>3, <1>4 DEF WrittenOut, AtEnd
  <1>9. ReaderOK'
    BY <1>1, <1>3, ReaderKept
  <1> QED BY <1>5, <1>6, <1>7, <1>8, <1>9

\* A constructor that throws leaves only bytes that nothing points to.
LEMMA PushThrowsInvariant ==
  ASSUME IInv, PushThrows
  PROVE  IInv'
  <1> USE DEF IInv
  <1>1. /\ UNCHANGED <<size, reserved, write_idx, read_idx, reader, unread>>
        /\ writer.at = "write"
        /\ writer' = Resting
        /\ cell' = Written(MaybeMarked, writer.offset, Length[writer.object], Junk)
    BY DEF PushThrows, ring
  <1>2. /\ cell' \in [Offsets -> Objects \cup {Marker, Junk}]
        /\ \A i \in DOMAIN unread : cell'[unread[i].at] = unread[i].object
        /\ \A e \in Offsets : write_idx < read_idx /\ read_idx <= e /\ cell[e] = Marker
                                => cell'[e] = Marker
    <2>1. Junk \in Objects \cup {Junk}
      OBVIOUS
    <2> QED BY <1>1, <2>1, WriteKeeps
  <1>3. Types'
    BY <1>1, <1>2 DEF Types, Offsets, Blocks, Resting
  <1>4. Layout'
    BY <1>1, <1>2, LayoutKept
  <1>5. RoomLeft' /\ WrittenOut'
    BY <1>1 DEF RoomLeft, WrittenOut, Resting
  <1>6. ReaderOK'
    BY <1>1, <1>2, ReaderKept
  <1> QED BY <1>3, <1>4, <1>5, <1>6

\* Publishing puts the block behind the last one: at the write index, or at
\* the start of a ring whose blocks then wrap around.
LEMMA PushPublishesInvariant ==
  ASSUME IInv, PushPublishes
  PROVE  IInv'
  <1> USE DEF IInv
  <1> DEFINE o == writer.offset
             n == Length[writer.object]
             L == Len(unread)
  <1>0. PICK b : b = [at |-> writer.offset, object |-> writer.object]
    OBVIOUS
  <1>1. /\ UNCHANGED <<size, reserved, read_idx, cell, reader>>
        /\ writer.at = "publish"
        /\ writer' = Resting
        /\ write_idx' = o + n
        /\ unread' = Append(unread, b)
    BY <1>0 DEF PushPublishes, ring
  <1>2. b \in Blocks
    BY <1>0, <1>1, Pushing DEF Blocks
  <1>3. /\ unread' \in Seq(Blocks)
        /\ Len(unread') = L + 1
        /\ \A i \in 1 .. L : unread'[i] = unread[i]
        /\ unread'[L + 1] = b
        /\ DOMAIN unread' = 1 .. L + 1
    BY <1>1, <1>2, AppendProperties, LenProperties DEF Types
  <1>4. /\ o \in Nat /\ n \in Nat /\ n > Word
        /\ \/ /\ o = write_idx
              /\ write_idx + n < size
              /\ write_idx < read_idx => write_idx + n < read_idx
           \/ /\ o = 0 /\ 0 < write_idx
              /\ n < read_idx /\ read_idx <= write_idx
        /\ o + n < size
    BY <1>1, Pushing
  <1>5. End(b) = write_idx' /\ b.at = o /\ b.object = writer.object
    BY <1>0, <1>1 DEF End
  <1>6. Types'
    <2>1. write_idx' \in Nat /\ write_idx' < size
      BY <1>1, <1>4
    <2> QED BY <1>1, <1>3, <2>1 DEF Types, Offsets, Blocks, Resting
  <1>7. ASSUME NEW i \in 1 .. L
        PROVE  /\ unread[i].at \in Nat /\ End(unread[i]) \in Nat
               /\ End(unread[i]) > unread[i].at
               /\ Placed(unread[i])
    BY <1>7, Numbers DEF Layout
  <1>8. Placed(b)'
    <2>1. cell[o] = writer.object
      BY <1>1 DEF WrittenOut
    <2> QED BY <1>1, <1>4, <1>5, <2>1, Numbers DEF Placed, End
  <1>9. ASSUME NEW i \in 1 .. L PROVE Placed(unread[i])'
    <2>1. End(unread[i])' = End(unread[i])
      BY <1>3, <1>9 DEF End
    <2>2. unread[i]' = unread[i]
      BY <1>3, <1>9
    <2> QED BY <1>1, <1>4, <1>7, <1>9, <2>1, <2>2, Numbers DEF Placed
  <1>10. ASSUME NEW i \in 1 .. L, NEW j \in 1 .. L, i < j
         PROVE  Before(unread[i], unread[j])'
    <2>1. Before(unread[i], unread[j])
      BY <1>10, Numbers DEF Layout
    <2>2. /\ unread[i]' = unread[i] /\ unread[j]' = unread[j]
          /\ End(unread[i])' = End(unread[i]) /\ End(unread[j])' = End(unread[j])
      BY <1>3, <1>10 DEF End
    <2>3. Placed(unread[i]) /\ Placed(unread[j])
      BY <1>7, <1>10
    <2> QED BY <1>1, <1>4, <1>7, <1>10, <2>1, <2>2, <2>3, Numbers, SMTT(30) DEF Before, Placed
  <1>11. ASSUME NEW i \in 1 .. L
         PROVE  /\ \/ End(unread[i]) <= o
                   \/ write_idx' < read_idx /\ read_idx <= unread[i].at
                /\ write_idx' < read_idx /\ End(unread[i]) <= write_idx'
                     => End(b) <= write_idx'
    BY <1>1, <1>4, <1>5, <1>7, <1>11, Numbers, SMTT(30) DEF Placed
  <1>12. Chained'
    <2>1. unread' # << >> /\ End(unread'[Len(unread')]) = write_idx'
      BY <1>3, <1>5, Numbers, EmptySeq DEF End
    <2>2. o < write_idx => AtEnd(write_idx)
      BY <1>1 DEF WrittenOut
    <2>3. Follows(write_idx, o)
      BY <2>2, <1>4, Numbers DEF Follows
    <2>4. Follows(read_idx, unread'[1].at)
      <3>1. CASE unread = << >>
        <4>1. L = 0 /\ unread'[1] = b
          BY <3>1, <1>3, Numbers
        <4>2. read_idx = write_idx
          BY <3>1 DEF Layout, Chained
        <4> QED BY <4>1, <4>2, <2>3, <1>5
      <3>2. CASE unread # << >>
        BY <3>2, <1>3, Numbers DEF Layout, Chained
      <3> QED BY <3>1, <3>2
    <2>5. ASSUME NEW i \in 1 .. L
          PROVE  Follows(End(unread'[i]), unread'[i + 1].at)
      <3>1. CASE i = L
        <4>1. End(unread[L]) = write_idx
          BY <3>1, <2>5, Numbers DEF Layout, Chained
        <4>2. unread'[i] = unread[L] /\ unread'[i + 1] = b
          BY <3>1, <2>5, <1>3
        <4> QED BY <4>1, <4>2, <2>3, <1>5
      <3>2. CASE i # L
        <4>0. L \in Nat
          BY Numbers
        <4> HIDE DEF L
        <4>1. i \in 1 .. L /\ i + 1 \in 1 .. L
          BY <3>2, <2>5, <4>0
        <4>2. unread'[i] = unread[i] /\ unread'[i + 1] = unread[i + 1]
          BY <4>1, <1>3
        <4>3. Follows(End(unread[i]), unread[i + 1].at)
          <5>1. \A k \in DOMAIN unread : k + 1 \in DOMAIN unread =>
                  Follows(End(unread[k]), unread[k + 1].at)
            BY DEF Layout, Chained
          <5>2. DOMAIN unread = 1 .. L
            BY Numbers DEF L
          <5>3. i \in DOMAIN unread /\ i + 1 \in DOMAIN unread
            BY <4>1, <5>2
          <5> QED BY <5>1, <5>3
        <4> QED BY <4>2, <4>3
      <3> QED BY <3>1, <3>2
    <2>6. \A i \in DOMAIN unread' : i + 1 \in DOMAIN unread' => i \in 1 .. L
      BY <1>3, Numbers
    <2> QED BY <2>1, <2>4, <2>5, <2>6, <1>1 DEF Chained, Follows, AtEnd, End
  <1>13. Layout'
    <2>1. ASSUME NEW i \in DOMAIN unread' PROVE Placed(unread[i])'
      BY <2>1, <1>3, <1>8, <1>9, Numbers DEF Placed, End
    <2>2. ASSUME NEW i \in DOMAIN unread', NEW j \in DOMAIN unread', i < j
          PROVE  Before(unread[i], unread[j])'
      <3>1. CASE j \in 1 .. L
        BY <2>2, <3>1, <1>3, <1>10, Numbers
      <3>2. CASE j = L + 1
        <4>1. i \in 1 .. L /\ unread'[i] = unread[i] /\ unread'[j] = b
          BY <2>2, <3>2, <1>3, Numbers
        <4> QED BY <4>1, <1>1, <1>5, <1>11 DEF Before, End
      <3> QED BY <2>2, <3>1, <3>2, <1>3, Numbers
    <2> QED BY <2>1, <2>2, <1>12 DEF Layout
  <1>14. RoomLeft' /\ WrittenOut'
    BY <1>1 DEF RoomLeft, WrittenOut, Resting
  <1>15. ReaderOK'
    <2>1. unread # << >> => unread' # << >> /\ unread'[1] = unread[1]
      BY <1>3, Numbers, EmptySeq
    <2>2. write_idx < read_idx => write_idx' < read_idx
      BY <1>1, <1>4, Numbers
    <2> QED BY <1>1, <2>1, <2>2 DEF ReaderOK, AtEnd
  <1> QED BY <1>6, <1>13, <1>14, <1>15

----------------------------------------------------------------------------
(***************************************************************************)
(* Reading.                                                                *)
(***************************************************************************)

\* A step of next that moves neither index nor byte.
LEMMA ReaderOnly ==
  ASSUME IInv, UNCHANGED <<ring, write_idx, read_idx, cell, writer, unread>>,
         reader' \in [at : {"idle", "wrap", "found"},
                      object : Objects \cup {Marker, Junk, None}],
         ReaderOK'
  PROVE  IInv'
  <1> USE DEF IInv
  <1>1. UNCHANGED <<size, reserved, write_idx, read_idx, cell, writer, unread>>
    BY DEF ring
  <1>2. Types'
    BY <1>1 DEF Types, Offsets, Blocks
  <1>3. Layout'
    <2>1. \A i \in DOMAIN unread : cell[unread[i].at] = unread[i].object
      BY DEF Layout, Placed
    <2> QED BY <1>1, <2>1, LayoutKept
  <1>4. RoomLeft'
    BY <1>1 DEF RoomLeft
  <1>5. WrittenOut'
    BY <1>1 DEF WrittenOut, AtEnd
  <1> QED BY <1>2, <1>3, <1>4, <1>5

LEMMA NextFindsNothingInvariant ==
  ASSUME IInv, NextFindsNothing
  PROVE  IInv'
  <1>1. reader' = [at |-> "idle", object |-> None]
    BY DEF NextFindsNothing
  <1>2. ReaderOK'
    BY <1>1 DEF ReaderOK
  <1> QED BY <1>1, <1>2, ReaderOnly DEF NextFindsNothing

\* A size is never taken for the marker, nor a block for the end of the ring.
LEMMA NextFindsBlockInvariant ==
  ASSUME IInv, NextFindsBlock
  PROVE  IInv'
  <1> USE DEF IInv
  <1>1. /\ UNCHANGED <<size, write_idx, read_idx, cell, writer, unread>>
        /\ read_idx # write_idx
        /\ reader' = IF AtEnd(read_idx)
                     THEN [at |-> "wrap", object |-> None]
                     ELSE [at |-> "found", object |-> cell[read_idx]]
    BY DEF NextFindsBlock, ring
  <1>2. unread # << >>
    BY <1>1 DEF Layout, Chained
  <1>3. /\ 1 \in DOMAIN unread
        /\ Placed(unread[1])
        /\ read_idx \in Offsets
        /\ \/ unread[1].at = read_idx
           \/ /\ unread[1].at = 0 /\ AtEnd(read_idx)
              /\ write_idx < read_idx
    BY <1>2, First
  <1>4. CASE AtEnd(read_idx)
    <2>1. unread[1].at # read_idx
      <3> SUFFICES ASSUME unread[1].at = read_idx PROVE FALSE
        OBVIOUS
      <3>1. cell[read_idx] = unread[1].object /\ unread[1].object # Marker
        BY <1>3, Numbers, RingAssumption DEF Placed
      <3>2. size - read_idx > Word
        BY <1>3, Numbers DEF Placed
      <3> QED BY <3>1, <3>2, <1>4, Numbers DEF AtEnd
    <2>2. reader' = [at |-> "wrap", object |-> None]
      BY <1>1, <1>4
    <2>3. ReaderOK'
      BY <2>1, <2>2, <1>1, <1>2, <1>3 DEF ReaderOK, AtEnd
    <2> QED BY <2>2, <2>3, ReaderOnly DEF NextFindsBlock
  <1>5. CASE ~AtEnd(read_idx)
    <2>1. unread[1].at = read_idx /\ cell[read_idx] = unread[1].object
      BY <1>3, <1>5 DEF Placed
    <2>2. reader' = [at |-> "found", object |-> unread[1].object]
      BY <1>1, <1>5, <2>1
    <2>3. ReaderOK'
      BY <2>1, <2>2, <1>1, <1>2 DEF ReaderOK
    <2>4. unread[1].object \in Objects
      BY <1>3, Numbers
    <2> QED BY <2>2, <2>3, <2>4, ReaderOnly DEF NextFindsBlock
  <1> QED BY <1>4, <1>5

\* Back at the start, the blocks no longer wrap around.
LEMMA NextWrapsInvariant ==
  ASSUME IInv, NextWraps
  PROVE  IInv'
  <1> USE DEF IInv
  <1>1. /\ UNCHANGED <<size, reserved, write_idx, cell, writer, unread>>
        /\ reader.at = "wrap"
        /\ read_idx' = 0
        /\ reader' = [at |-> "found", object |-> cell[0]]
    BY DEF NextWraps, ring
  <1>2. /\ unread # << >> /\ unread[1].at = 0
        /\ AtEnd(read_idx) /\ write_idx < read_idx
    BY <1>1 DEF ReaderOK
  <1>3. 1 \in DOMAIN unread /\ Placed(unread[1])
    BY <1>2, First
  <1>4. End(unread[1]) <= write_idx
    BY <1>2, <1>3, Numbers DEF Placed
  <1>5. \A i \in DOMAIN unread : End(unread[i]) <= write_idx
    <2> TAKE i \in DOMAIN unread
    <2>1. CASE i = 1
      BY <2>1, <1>4
    <2>2. CASE i # 1
      <3>1. Before(unread[1], unread[i])
        BY <2>2, <1>3, Numbers DEF Layout
      <3> QED BY <3>1, <1>2, <1>4 DEF Before
    <2> QED BY <2>1, <2>2
  <1>6. cell[0] = unread[1].object /\ unread[1].object \in Objects
    BY <1>2, <1>3, Numbers DEF Placed
  <1>7. Types'
    BY <1>1, <1>6, Numbers DEF Types, Offsets, Blocks
  <1>8. ASSUME NEW i \in DOMAIN unread PROVE Placed(unread[i])'
    <2>1. Placed(unread[i])
      BY DEF Layout
    <2> QED BY <2>1, <1>1, <1>5, Numbers DEF Placed, End
  <1>9. ASSUME NEW i \in DOMAIN unread, NEW j \in DOMAIN unread, i < j
        PROVE  Before(unread[i], unread[j])'
    <2>1. Before(unread[i], unread[j])
      BY <1>9 DEF Layout
    <2>2. End(unread[i]) <= unread[j].at
      BY <2>1, <1>2, <1>5, Numbers DEF Before
    <2>3. /\ End(unread[i])' = End(unread[i]) /\ unread'[j] = unread[j]
          /\ ~(write_idx' < read_idx')
      BY <1>1, Numbers DEF End
    <2> QED BY <2>2, <2>3 DEF Before
  <1>10. Chained'
    <2>1. Follows(read_idx, unread[1].at)'
      BY <1>1, <1>2 DEF Follows
    <2>2. End(unread[Len(unread)]) = write_idx
      BY <1>2 DEF Layout, Chained
    <2>3. \A i \in DOMAIN unread : i + 1 \in DOMAIN unread =>
            Follows(End(unread[i]), unread[i + 1].at)
      BY DEF Layout, Chained
    <2> QED BY <2>1, <2>2, <2>3, <1>1, <1>2 DEF Chained, End, Follows, AtEnd
  <1>11. Layout'
    BY <1>1, <1>8, <1>9, <1>10 DEF Layout
  <1>12. RoomLeft'
    <2> SUFFICES ASSUME writer.at # "idle" PROVE RoomLeft'
      BY <1>1 DEF RoomLeft
    <2>1. /\ writer.offset = write_idx
          /\ write_idx + Length[writer.object] < size
      BY <1>2, Pushing, Numbers
    <2>2. ~(write_idx < 0)
      BY Numbers
    <2> QED BY <2>1, <2>2, <1>1 DEF RoomLeft
  <1>13. WrittenOut'
    BY <1>1 DEF WrittenOut, AtEnd
  <1>14. ReaderOK'
    BY <1>1, <1>2, <1>6 DEF ReaderOK
  <1> QED BY <1>7, <1>11, <1>12, <1>13, <1>14

\* What pop gives back is the first block, whole.
LEMMA PopInvariant ==
  ASSUME IInv, Pop
  PROVE  IInv'
  <1> USE DEF IInv
  <1> DEFINE L == Len(unread)
  <1>1. /\ UNCHANGED <<size, reserved, write_idx, cell, writer>>
        /\ reader.at = "found"
        /\ reader' = [at |-> "idle", object |-> None]
    BY DEF Pop, ring
  <1>2. unread # << >> /\ unread[1].at = read_idx
    BY <1>1 DEF ReaderOK
  <1>3. 1 \in DOMAIN unread /\ Placed(unread[1])
    BY <1>2, First
  <1>4. /\ cell[read_idx] = unread[1].object
        /\ unread[1].object \in Objects /\ unread[1].object # Marker
    BY <1>2, <1>3, Numbers, RingAssumption DEF Placed
  <1>5. read_idx' = End(unread[1]) /\ unread' = Tail(unread)
    BY <1>2, <1>4 DEF Pop, BlockLength, End
  <1>6. /\ unread' \in Seq(Blocks)
        /\ Len(unread') = L - 1
        /\ DOMAIN unread' = 1 .. L - 1
        /\ \A i \in 1 .. L - 1 : unread'[i] = unread[i + 1]
        /\ L \in Nat /\ L > 0
    BY <1>2, <1>5, Numbers, HeadTailProperties, LenProperties DEF Types
  <1>7. /\ read_idx' \in Nat /\ read_idx < read_idx' /\ read_idx' < size
        /\ read_idx <= write_idx => read_idx' <= write_idx
    BY <1>2, <1>3, <1>5, Numbers DEF Placed
  <1>8. Types'
    BY <1>1, <1>6, <1>7 DEF Types, Offsets, Blocks
  <1>9. ASSUME NEW j \in DOMAIN unread, j # 1
        PROVE  /\ read_idx <= write_idx =>
                    read_idx' <= unread[j].at /\ End(unread[j]) <= write_idx
               /\ write_idx < read_idx =>
                    read_idx' <= unread[j].at \/ End(unread[j]) <= write_idx
               /\ End(unread[j]) < size
               /\ cell[unread[j].at] = unread[j].object
    <2>1. Placed(unread[j])
      BY DEF Layout
    <2>2. Before(unread[1], unread[j])
      BY <1>3, <1>9, Numbers DEF Layout
    <2> QED BY <2>1, <2>2, <1>5, Numbers DEF Placed, Before
  <1>10. ASSUME NEW i \in 1 .. L - 1 PROVE Placed(unread[i])'
    <2>1. i + 1 \in DOMAIN unread /\ i + 1 # 1
      BY <1>6, <1>10, Numbers
    <2>2. unread'[i] = unread[i + 1]
      BY <1>6, <1>10
    <2>3. End(unread[i])' = End(unread[i + 1])
      BY <2>2 DEF End
    <2> QED BY <2>1, <2>2, <2>3, <1>1, <1>7, <1>9, Numbers DEF Placed
  <1>11. ASSUME NEW i \in 1 .. L - 1, NEW j \in 1 .. L - 1, i < j
         PROVE  Before(unread[i], unread[j])'
    <2>1. /\ i + 1 \in DOMAIN unread /\ i + 1 # 1
          /\ j + 1 \in DOMAIN unread /\ j + 1 # 1 /\ i + 1 < j + 1
      BY <1>6, <1>11, Numbers
    <2>2. Before(unread[i + 1], unread[j + 1])
      BY <2>1 DEF Layout
    <2>3. /\ unread'[i] = unread[i + 1] /\ unread'[j] = unread[j + 1]
          /\ End(unread[i])' = End(unread[i + 1])
          /\ End(unread[j])' = End(unread[j + 1])
      BY <1>6, <1>11 DEF End
    <2>4. /\ unread[i + 1].at \in Nat /\ End(unread[i + 1]) \in Nat
          /\ End(unread[i + 1]) > unread[i + 1].at
          /\ unread[j + 1].at \in Nat /\ End(unread[j + 1]) \in Nat
      BY <2>1, Numbers
    <2>5. write_idx < read_idx =>
            read_idx' <= unread[i + 1].at \/ End(unread[i + 1]) <= write_idx
      BY <2>1, <1>9
    <2>6. write_idx < read_idx <=> write_idx < read_idx'
      BY <1>7, Numbers
    <2> QED BY <2>2, <2>3, <2>4, <2>5, <2>6, <1>1, <1>7, Numbers DEF Before
  <1>12. Chained'
    <2>1. unread' = << >> => read_idx' = write_idx'
      <3> SUFFICES ASSUME unread' = << >> PROVE read_idx' = write_idx'
        OBVIOUS
      <3>1. L = 1
        BY <1>6, EmptySeq
      <3>2. End(unread[L]) = write_idx
        BY <1>2 DEF Layout, Chained
      <3> QED BY <3>1, <3>2, <1>1, <1>5
    <2>2. ASSUME unread' # << >>
          PROVE  /\ Follows(read_idx', unread'[1].at)
                 /\ End(unread'[Len(unread')]) = write_idx
      <3>1. L > 1
        BY <2>2, <1>6, EmptySeq
      <3>2. unread'[1] = unread[2] /\ unread'[Len(unread')] = unread[L]
        BY <3>1, <1>6
      <3>3. Follows(End(unread[1]), unread[1 + 1].at)
        BY <3>1, <1>3, Numbers, SMTT(30) DEF Layout, Chained
      <3>4. End(unread[L]) = write_idx
        BY <1>2 DEF Layout, Chained
      <3> QED BY <3>2, <3>3, <3>4, <1>5
    <2>3. ASSUME NEW i \in DOMAIN unread', i + 1 \in DOMAIN unread'
          PROVE  Follows(End(unread'[i]), unread'[i + 1].at)
      <3>1. i + 1 \in DOMAIN unread /\ (i + 1) + 1 \in DOMAIN unread
        BY <2>3, <1>6, Numbers
      <3>2. unread'[i] = unread[i + 1] /\ unread'[i + 1] = unread[(i + 1) + 1]
        BY <2>3, <1>6
      <3>3. Follows(End(unread[i + 1]), unread[(i + 1) + 1].at)
        BY <3>1 DEF Layout, Chained
      <3> QED BY <3>2, <3>3
    <2> QED BY <2>1, <2>2, <2>3, <1>1 DEF Chained, Follows, AtEnd, End
  <1>13. Layout'
    BY <1>6, <1>10, <1>11, <1>12 DEF Layout
  <1>14. RoomLeft'
    <2> SUFFICES ASSUME writer.at # "idle" PROVE RoomLeft'
      BY <1>1 DEF RoomLeft
    <2> QED BY <1>1, <1>7, Pushing, Numbers DEF RoomLeft
  <1>15. WrittenOut'
    BY <1>1 DEF WrittenOut, AtEnd
  <1>16. ReaderOK'
    BY <1>1 DEF ReaderOK
  <1> QED BY <1>8, <1>13, <1>14, <1>15, <1>16

----------------------------------------------------------------------------
(***************************************************************************)
(* The theorems.                                                           *)
(***************************************************************************)

LEMMA NextInvariant == IInv /\ [Next]_vars => IInv'
  <1> SUFFICES ASSUME IInv, [Next]_vars PROVE IInv'
    OBVIOUS
  <1>1. CASE UNCHANGED vars
    <2>1. UNCHANGED <<ring, write_idx, read_idx, cell, writer, unread, reader>>
      BY <1>1 DEF vars
    <2>2. UNCHANGED <<size, reserved, write_idx, read_idx, cell, writer, unread, reader>>
      BY <2>1 DEF ring
    <2>3. ReaderOK'
      BY <2>2 DEF IInv, ReaderOK, AtEnd
    <2> QED BY <2>1, <2>3, ReaderOnly DEF IInv, Types
  <1>2. CASE \E x \in Objects, force \in BOOLEAN : PushBegins(x, force)
    BY <1>2, PushBeginsInvariant
  <1>3. CASE PushWrites
    BY <1>3, PushWritesInvariant
  <1>4. CASE PushThrows
    BY <1>4, PushThrowsInvariant
  <1>5. CASE PushPublishes
    BY <1>5, PushPublishesInvariant
  <1>6. CASE NextFindsNothing
    BY <1>6, NextFindsNothingInvariant
  <1>7. CASE NextFindsBlock
    BY <1>7, NextFindsBlockInvariant
  <1>8. CASE NextWraps
    BY <1>8, NextWrapsInvariant
  <1>9. CASE Pop
    BY <1>9, PopInvariant
  <1> QED BY <1>1, <1>2, <1>3, <1>4, <1>5, <1>6, <1>7, <1>8, <1>9 DEF Next

\* The blocks of a polymorphic_sp_sc_ring_buffer lie one behind the other from
\* the read index to the write index, in every state of the two threads.
THEOREM Invariant == Spec => []IInv
  BY InitInvariant, NextInvariant, PTL DEF Spec

\* Whatever the sizes of the objects, of the ring and of its reserve, and
\* wherever the reader is by the time do_push writes: the block and the marker
\* lie inside the ring and touch no unread block.
THEOREM WritesSafely == Spec => []WritesFreeSpace
  <1>1. IInv => WritesFreeSpace
    <2> SUFFICES ASSUME IInv, writer.at = "write" PROVE WritesFreeSpace
      BY DEF WritesFreeSpace
    <2>1. writer.offset + Length[writer.object] < size
      BY Pushing DEF IInv
    <2>2. \A i \in DOMAIN unread :
            /\ ~Overlap(writer.offset, Length[writer.object],
                        unread[i].at, Length[unread[i].object])
            /\ Marks => ~Overlap(write_idx, Word,
                                 unread[i].at, Length[unread[i].object])
      BY RoomIsFree DEF IInv
    <2> QED BY <2>1, <2>2 DEF WritesFreeSpace
  <1> QED BY <1>1, Invariant, PTL

\* What next returns is the oldest unread block, and it stays whole until it
\* is popped.
THEOREM ReadsInOrder == Spec => []NextIsOldest
  <1>1. IInv => NextIsOldest
    <2> SUFFICES ASSUME IInv, reader.at = "found" PROVE NextIsOldest
      BY DEF NextIsOldest
    <2>1. /\ unread # << >> /\ unread[1].at = read_idx
          /\ reader.object = unread[1].object
      BY DEF IInv, ReaderOK
    <2>2. Placed(unread[1]) /\ Head(unread) = unread[1]
      BY <2>1, First, HeadTailProperties DEF IInv, Types
    <2> QED BY <2>1, <2>2 DEF NextIsOldest, Placed
  <1> QED BY <1>1, Invariant, PTL

----------------------------------------------------------------------------
(***************************************************************************)
(* Buffer: the bytes of a list of fragments.  Content is a recursive       *)
(* function; that it is defined, and what it computes for lists that are   *)
(* joined and cut, is shown from a least number of fragments for which it  *)
(* would fail.                                                             *)
(***************************************************************************)

\* Bytes are numbered as they are written.
Bytes == Seq(Nat)

Frags == [data : Bytes, tail : Nat, shared : BOOLEAN]

\* A fragment of a list, and its parts.
LEMMA FragmentType ==
  ASSUME NEW fs \in Seq(Frags), NEW i \in 1 .. Len(fs)
  PROVE  /\ fs[i] \in Frags
         /\ fs[i].data \in Bytes
         /\ fs[i].tail \in Nat
         /\ B!Size(fs[i]) \in Nat
  <1>1. fs[i] \in Frags
    OBVIOUS
  <1>2. fs[i].data \in Bytes /\ fs[i].tail \in Nat
    BY <1>1 DEF Frags
  <1> QED BY <1>1, <1>2 DEF B!Size, Bytes

\* g is what Content computes for the first n fragments.
Gathers(g, fs, n) ==
  g = [i \in 0 .. n |-> IF i = 0 THEN << >> ELSE g[i - 1] \o fs[i].data]

\* Content is the last value of a function that gathers bytes.
LEMMA ContentIsLast ==
  ASSUME NEW fs, \E g : Gathers(g, fs, Len(fs))
  PROVE  \E g : Gathers(g, fs, Len(fs)) /\ B!Content(fs) = g[Len(fs)]
  <1> DEFINE h == CHOOSE g : Gathers(g, fs, Len(fs))
  <1>1. Gathers(h, fs, Len(fs))
    OBVIOUS
  <1>2. B!Content(fs) = h[Len(fs)]
    BY DEF B!Content, Gathers
  <1> QED BY <1>1, <1>2

\* What that says of each number of fragments.
Grows(g, fs, n) ==
  /\ g[0] = << >>
  /\ \A i \in 1 .. n : g[i] = g[i - 1] \o fs[i].data

LEMMA GathersGrows ==
  ASSUME NEW g, NEW fs, NEW n \in Nat, Gathers(g, fs, n)
  PROVE  Grows(g, fs, n)
  <1> DEFINE d == 0 .. n
             v(i) == IF i = 0 THEN << >> ELSE g[i - 1] \o fs[i].data
  <1>1. g = [i \in d |-> v(i)]
    BY DEF Gathers
  <1>2. \A i \in d : g[i] = v(i)
    <2> HIDE DEF d, v
    <2> QED BY <1>1
  <1>3. 0 \in d /\ \A i \in 1 .. n : i \in d /\ i # 0
    OBVIOUS
  <1> QED BY <1>2, <1>3 DEF Grows

\* The converse, of a function into sequences of bytes.
LEMMA GrowsGathers ==
  ASSUME NEW fs, NEW n \in Nat, NEW g \in [0 .. n -> Bytes], Grows(g, fs, n)
  PROVE  Gathers(g, fs, n)
  <1> DEFINE k == [i \in 0 .. n |-> IF i = 0 THEN << >> ELSE g[i - 1] \o fs[i].data]
  <1>1. ASSUME NEW i \in 0 .. n PROVE g[i] = k[i]
    <2>1. CASE i = 0
      BY <2>1 DEF Grows
    <2>2. CASE i # 0
      <3>1. i \in 1 .. n /\ k[i] = g[i - 1] \o fs[i].data
        BY <2>2
      <3> HIDE DEF k
      <3> QED BY <3>1 DEF Grows
    <2> QED BY <2>1, <2>2
  <1>2. g = k
    BY <1>1
  <1> QED BY <1>2 DEF Gathers

\* The first n fragments of two lists have the same bytes.
SameData(fs, gs, n) == \A i \in 1 .. n : fs[i].data = gs[i].data

\* The bytes alone decide.
LEMMA GrowsUnique ==
  ASSUME NEW fs, NEW gs, NEW n \in Nat, NEW g, NEW h,
         Grows(g, fs, n), Grows(h, gs, n), SameData(fs, gs, n)
  PROVE  \A i \in 0 .. n : g[i] = h[i]
  <1> DEFINE T == {i \in 0 .. n : g[i] # h[i]}
  <1>1. SUFFICES ASSUME T # {} PROVE FALSE
    OBVIOUS
  <1>2. T \subseteq Nat
    OBVIOUS
  <1>3. PICK m \in T : \A i \in T : m <= i
    <2> HIDE DEF T
    <2> QED BY <1>1, <1>2, LeastLength
  <1>4. m # 0
    BY <1>3 DEF Grows
  <1>5. m \in 1 .. n /\ m - 1 \in 0 .. n /\ m - 1 \notin T
    BY <1>3, <1>4
  <1>6. g[m - 1] = h[m - 1]
    BY <1>5
  <1>7. g[m] = g[m - 1] \o fs[m].data /\ h[m] = h[m - 1] \o gs[m].data
    BY <1>5 DEF Grows
  <1>8. fs[m].data = gs[m].data
    BY <1>5 DEF SameData
  <1>9. g[m] # h[m]
    BY <1>3
  <1> QED BY <1>6, <1>7, <1>8, <1>9

\* There is such a function: the recursion of Content is defined.
LEMMA GrowsExists ==
  ASSUME NEW fs \in Seq(Frags)
  PROVE  \E g \in [0 .. Len(fs) -> Bytes] : Grows(g, fs, Len(fs))
  <1> DEFINE Has(n) == \E g \in [0 .. n -> Bytes] : Grows(g, fs, n)
             T == {n \in 0 .. Len(fs) : ~Has(n)}
  <1>1. SUFFICES ASSUME ~Has(Len(fs)) PROVE FALSE
    OBVIOUS
  <1>2. T # {} /\ T \subseteq Nat
    <2>1. Len(fs) \in T
      <3> HIDE DEF Has
      <3> QED BY <1>1
    <2> QED BY <2>1
  <1>3. PICK m \in T : \A n \in T : m <= n
    <2> HIDE DEF T
    <2> QED BY <1>2, LeastLength
  <1>4. m \in 0 .. Len(fs) /\ ~Has(m)
    <2> HIDE DEF Has
    <2> QED BY <1>3
  <1>5. CASE m = 0
    <2> DEFINE g == [i \in 0 .. 0 |-> << >>]
    <2>1. g \in [0 .. 0 -> Bytes] /\ g[0] = << >>
      BY DEF Bytes
    <2>2. Grows(g, fs, 0)
      <3> HIDE DEF g
      <3> QED BY <2>1 DEF Grows
    <2> HIDE DEF g
    <2> QED BY <2>1, <2>2, <1>4, <1>5
  <1>6. CASE m # 0
    <2>1. m \in 1 .. Len(fs) /\ m - 1 \in 0 .. Len(fs) /\ m - 1 \notin T
      <3> HIDE DEF Has
      <3> QED BY <1>3, <1>4, <1>6
    <2>2. Has(m - 1)
      <3> HIDE DEF Has
      <3> QED BY <2>1
    <2>3. PICK g \in [0 .. m - 1 -> Bytes] : Grows(g, fs, m - 1)
      BY <2>2
    <2>4. fs[m].data \in Bytes
      BY <2>1, FragmentType
    <2>5. PICK s \in Bytes : s = g[m - 1] \o fs[m].data
      <3>1. PICK r \in Bytes, t \in Bytes : r = g[m - 1] /\ t = fs[m].data
        BY <2>4, <2>3, <2>1
      <3>2. r \o t \in Bytes
        BY ConcatProperties DEF Bytes
      <3> QED BY <3>1, <3>2
    <2> DEFINE h == [i \in 0 .. m |-> IF i = m THEN s ELSE g[i]]
    <2>6. h \in [0 .. m -> Bytes] /\ h[m] = s /\ \A i \in 0 .. m - 1 : h[i] = g[i]
      BY <2>3, <2>1
    <2>7. Grows(h, fs, m)
      <3> HIDE DEF h
      <3>1. h[0] = << >>
        BY <2>1, <2>3, <2>6 DEF Grows
      <3>2. ASSUME NEW i \in 1 .. m PROVE h[i] = h[i - 1] \o fs[i].data
        <4>1. CASE i = m
          <5>1. h[i - 1] = g[m - 1]
            BY <4>1, <2>1, <2>6
          <5> QED BY <4>1, <5>1, <2>5, <2>6
        <4>2. CASE i # m
          <5>1. i \in 1 .. m - 1 /\ i \in 0 .. m - 1 /\ i - 1 \in 0 .. m - 1
            BY <4>2, <2>1
          <5>2. h[i] = g[i] /\ h[i - 1] = g[i - 1]
            BY <5>1, <2>6
          <5>3. g[i] = g[i - 1] \o fs[i].data
            BY <5>1, <2>3 DEF Grows
          <5> QED BY <5>2, <5>3
        <4> QED BY <4>1, <4>2
      <3> QED BY <3>1, <3>2 DEF Grows
    <2> HIDE DEF h
    <2> QED BY <2>6, <2>7, <1>4
  <1> QED BY <1>5, <1>6

\* Whatever grows as the list does ends in its content.
LEMMA ContentIs ==
  ASSUME NEW fs \in Seq(Frags), NEW g \in [0 .. Len(fs) -> Bytes],
         Grows(g, fs, Len(fs))
  PROVE  B!Content(fs) = g[Len(fs)]
  <1>1. Len(fs) \in Nat
    OBVIOUS
  <1>2. Gathers(g, fs, Len(fs))
    BY <1>1, GrowsGathers
  <1>3. PICK h : Gathers(h, fs, Len(fs)) /\ B!Content(fs) = h[Len(fs)]
    BY <1>2, ContentIsLast
  <1>4. Grows(h, fs, Len(fs))
    BY <1>1, <1>3, GathersGrows
  <1>5. SameData(fs, fs, Len(fs))
    BY DEF SameData
  <1>6. \A i \in 0 .. Len(fs) : g[i] = h[i]
    BY <1>1, <1>4, <1>5, GrowsUnique
  <1> QED BY <1>1, <1>3, <1>6

\* Sequences of bytes, joined.
LEMMA BytesConcat ==
  ASSUME NEW s \in Bytes, NEW t \in Bytes
  PROVE  /\ s \o t \in Bytes
         /\ Len(s \o t) = Len(s) + Len(t)
         /\ s \o << >> = s /\ << >> \o s = s
         /\ Len(s) \in Nat /\ Len(t) \in Nat
  BY ConcatProperties, ConcatEmptySeq, LenProperties DEF Bytes

LEMMA BytesAssociative ==
  ASSUME NEW s \in Bytes, NEW t \in Bytes, NEW u \in Bytes
  PROVE  (s \o t) \o u = s \o (t \o u)
  BY ConcatAssociative, SMTT(30) DEF Bytes

\* A list holds bytes.
LEMMA ContentType ==
  ASSUME NEW fs \in Seq(Frags)
  PROVE  B!Content(fs) \in Bytes /\ Len(B!Content(fs)) \in Nat
  <1>1. PICK g \in [0 .. Len(fs) -> Bytes] : Grows(g, fs, Len(fs))
    BY GrowsExists
  <1>2. B!Content(fs) = g[Len(fs)]
    BY <1>1, ContentIs
  <1>3. B!Content(fs) \in Bytes
    BY <1>1, <1>2
  <1> QED BY <1>3, LenProperties DEF Bytes

\* An empty list holds none.
LEMMA ContentEmpty ==
  B!Content(<< >>) = << >>
  <1>1. PICK fs \in Seq(Frags) : fs = << >>
    BY EmptySeq
  <1>2. PICK g \in [0 .. Len(fs) -> Bytes] : Grows(g, fs, Len(fs))
    BY GrowsExists
  <1>3. Len(fs) = 0
    BY <1>1
  <1> QED BY <1>1, <1>2, <1>3, ContentIs DEF Grows

\* Equal bytes, fragment by fragment, are equal bytes.
LEMMA ContentSame ==
  ASSUME NEW fs \in Seq(Frags), NEW gs \in Seq(Frags), Len(fs) = Len(gs),
         SameData(fs, gs, Len(fs))
  PROVE  B!Content(fs) = B!Content(gs)
  <1>1. PICK g \in [0 .. Len(fs) -> Bytes] : Grows(g, fs, Len(fs))
    BY GrowsExists
  <1>2. PICK h \in [0 .. Len(gs) -> Bytes] : Grows(h, gs, Len(gs))
    BY GrowsExists
  <1>3. PICK n \in Nat : n = Len(fs)
    OBVIOUS
  <1>4. Grows(g, fs, n) /\ Grows(h, gs, n) /\ SameData(fs, gs, n)
    BY <1>1, <1>2, <1>3
  <1>5. \A i \in 0 .. n : g[i] = h[i]
    BY <1>4, GrowsUnique
  <1>6. B!Content(fs) = g[n] /\ B!Content(gs) = h[n]
    BY <1>1, <1>2, <1>3, ContentIs
  <1> QED BY <1>5, <1>6

\* Fragments without bytes hold none.
LEMMA ContentDrained ==
  ASSUME NEW fs \in Seq(Frags), \A i \in 1 .. Len(fs) : fs[i].data = << >>
  PROVE  B!Content(fs) = << >>
  <1> DEFINE g == [i \in 0 .. Len(fs) |-> << >>]
  <1>1. Len(fs) \in Nat /\ << >> \in Bytes
    BY DEF Bytes
  <1>2. g \in [0 .. Len(fs) -> Bytes] /\ \A i \in 0 .. Len(fs) : g[i] = << >>
    BY <1>1
  <1>3. << >> \o << >> = << >>
    BY <1>1, BytesConcat
  <1>4. Grows(g, fs, Len(fs))
    <2> HIDE DEF g
    <2>1. g[0] = << >>
      BY <1>1, <1>2
    <2>2. ASSUME NEW i \in 1 .. Len(fs) PROVE g[i] = g[i - 1] \o fs[i].data
      <3>1. g[i] = << >> /\ g[i - 1] = << >>
        BY <1>1, <1>2
      <3>2. fs[i].data = << >>
        OBVIOUS
      <3> QED BY <3>1, <3>2, <1>3
    <2> QED BY <2>1, <2>2 DEF Grows
  <1>5. B!Content(fs) = g[Len(fs)]
    <2> HIDE DEF g
    <2> QED BY <1>2, <1>4, ContentIs
  <1> HIDE DEF g
  <1> QED BY <1>1, <1>2, <1>5

\* Lists joined hold the bytes of the first and then those of the second.
LEMMA ContentConcat ==
  ASSUME NEW fs \in Seq(Frags), NEW gs \in Seq(Frags)
  PROVE  /\ fs \o gs \in Seq(Frags)
         /\ B!Content(fs \o gs) = B!Content(fs) \o B!Content(gs)
  <1>1. PICK g \in [0 .. Len(fs) -> Bytes] : Grows(g, fs, Len(fs))
    BY GrowsExists
  <1>2. PICK h \in [0 .. Len(gs) -> Bytes] : Grows(h, gs, Len(gs))
    BY GrowsExists
  <1>3. PICK m \in Nat, n \in Nat : m = Len(fs) /\ n = Len(gs)
    OBVIOUS
  <1>4. PICK hs \in Seq(Frags) : hs = fs \o gs
    BY ConcatProperties
  <1>5. /\ Len(hs) = m + n
        /\ \A i \in 1 .. m : hs[i] = fs[i]
        /\ \A i \in 1 .. n : hs[m + i] = gs[i]
    BY <1>3, <1>4, ConcatProperties
  <1>6. /\ g \in [0 .. m -> Bytes] /\ Grows(g, fs, m)
        /\ h \in [0 .. n -> Bytes] /\ Grows(h, gs, n)
        /\ B!Content(fs) = g[m] /\ B!Content(gs) = h[n]
    BY <1>1, <1>2, <1>3, ContentIs
  <1> DEFINE k == [i \in 0 .. m + n |-> IF i <= m THEN g[i] ELSE g[m] \o h[i - m]]
  <1>7. \A i \in 0 .. m : k[i] = g[i]
    OBVIOUS
  <1>8. \A i \in 0 .. n : k[m + i] = g[m] \o h[i]
    <2>1. g[m] \in Bytes /\ h[0] = << >>
      BY <1>6 DEF Grows
    <2>2. g[m] \o << >> = g[m]
      BY <2>1, BytesConcat
    <2>3. k[m + 0] = g[m] \o h[0]
      BY <1>7, <2>1, <2>2
    <2>4. ASSUME NEW i \in 1 .. n PROVE k[m + i] = g[m] \o h[i]
      <3>1. m + i \in 0 .. m + n /\ ~(m + i <= m) /\ (m + i) - m = i
        OBVIOUS
      <3> QED BY <3>1
    <2>5. \A i \in 0 .. n : i = 0 \/ i \in 1 .. n
      OBVIOUS
    <2> HIDE DEF k
    <2> QED BY <2>3, <2>4, <2>5
  <1>9. k \in [0 .. m + n -> Bytes]
    <2>1. ASSUME NEW i \in 0 .. m + n PROVE (IF i <= m THEN g[i] ELSE g[m] \o h[i - m]) \in Bytes
      <3>1. CASE i <= m
        BY <3>1, <1>6
      <3>2. CASE ~(i <= m)
        <4>1. PICK r \in Bytes, t \in Bytes : r = g[m] /\ t = h[i - m]
          BY <3>2, <1>6
        <4> QED BY <3>2, <4>1, BytesConcat
      <3> QED BY <3>1, <3>2
    <2> QED BY <2>1
  <1>10. Grows(k, hs, m + n)
    <2> HIDE DEF k
    <2>1. k[0] = << >>
      BY <1>6, <1>7 DEF Grows
    <2>2. ASSUME NEW i \in 1 .. m + n PROVE k[i] = k[i - 1] \o hs[i].data
      <3>1. CASE i <= m
        <4>1. i \in 1 .. m /\ i \in 0 .. m /\ i - 1 \in 0 .. m
          BY <3>1
        <4>2. g[i] = g[i - 1] \o fs[i].data
          BY <4>1, <1>6 DEF Grows
        <4> QED BY <4>1, <4>2, <1>5, <1>7
      <3>2. CASE ~(i <= m)
        <4>1. PICK j \in 1 .. n : i = m + j
          <5>1. i - m \in 1 .. n /\ i = m + (i - m)
            BY <3>2
          <5> QED BY <5>1
        <4>2. j \in 0 .. n /\ j - 1 \in 0 .. n /\ i - 1 = m + (j - 1)
          BY <4>1
        <4>3. h[j] = h[j - 1] \o gs[j].data
          BY <4>1, <1>6 DEF Grows
        <4>4. k[i] = g[m] \o h[j] /\ k[i - 1] = g[m] \o h[j - 1] /\ hs[i] = gs[j]
          BY <4>1, <4>2, <1>5, <1>8
        <4>5. g[m] \in Bytes /\ h[j - 1] \in Bytes /\ gs[j].data \in Bytes
          <5>1. j \in 1 .. Len(gs) /\ m \in 0 .. m
            BY <1>3
          <5>2. gs[j].data \in Bytes
            BY <5>1, FragmentType
          <5> QED BY <5>1, <5>2, <4>2, <1>6
        <4>6. (g[m] \o h[j - 1]) \o gs[j].data = g[m] \o (h[j - 1] \o gs[j].data)
          BY <4>5, BytesAssociative
        <4> QED BY <4>3, <4>4, <4>6
      <3> QED BY <3>1, <3>2
    <2> QED BY <2>1, <2>2 DEF Grows
  <1>11. B!Content(hs) = k[m + n]
    <2> HIDE DEF k
    <2> QED BY <1>5, <1>9, <1>10, ContentIs
  <1>12. k[m + n] = g[m] \o h[n]
    <2> HIDE DEF k
    <2> QED BY <1>8
  <1> QED BY <1>4, <1>6, <1>11, <1>12

\* A part of a list.
LEMMA PartType ==
  ASSUME NEW fs \in Seq(Frags), NEW i \in Nat, NEW j \in 0 .. Len(fs)
  PROVE  /\ SubSeq(fs, i + 1, j) \in Seq(Frags)
         /\ Len(SubSeq(fs, i + 1, j)) = IF i <= j THEN j - i ELSE 0
         /\ \A k \in 1 .. j - i : SubSeq(fs, i + 1, j)[k] = fs[i + k]
  <1>1. PICK m \in Int, n \in Int : m = i + 1 /\ n = j
    OBVIOUS
  <1>2. \A k \in m .. n : fs[k] \in Frags
    <2>1. ASSUME NEW k \in m .. n PROVE k \in 1 .. Len(fs)
      BY <1>1
    <2> QED BY <2>1, ElementOfSeq
  <1>3. /\ SubSeq(fs, m, n) \in Seq(Frags)
        /\ Len(SubSeq(fs, m, n)) = IF m <= n THEN n - m + 1 ELSE 0
        /\ \A k \in 1 .. n - m + 1 : SubSeq(fs, m, n)[k] = fs[m + k - 1]
    BY <1>2, SubSeqProperties
  <1>4. n - m + 1 = j - i /\ (m <= n <=> i + 1 <= j)
    BY <1>1
  <1>5. \A k \in 1 .. j - i : m + k - 1 = i + k
    BY <1>1
  <1>6. i <= j /\ ~(i + 1 <= j) => j - i = 0
    OBVIOUS
  <1> QED BY <1>1, <1>3, <1>4, <1>5, <1>6

\* The first fragments hold the first bytes.
LEMMA GrowsContent ==
  ASSUME NEW fs \in Seq(Frags), NEW g \in [0 .. Len(fs) -> Bytes],
         Grows(g, fs, Len(fs)), NEW i \in 0 .. Len(fs)
  PROVE  /\ SubSeq(fs, 1, i) \in Seq(Frags)
         /\ B!Content(SubSeq(fs, 1, i)) = g[i]
  <1>1. PICK ps \in Seq(Frags) : ps = SubSeq(fs, 0 + 1, i)
    BY PartType
  <1>2. Len(ps) = i /\ \A k \in 1 .. i : ps[k] = fs[k]
    <2>1. Len(ps) = (IF 0 <= i THEN i - 0 ELSE 0) /\ \A k \in 1 .. i - 0 : ps[k] = fs[0 + k]
      BY <1>1, PartType
    <2> QED BY <2>1
  <1> DEFINE h == [k \in 0 .. i |-> g[k]]
  <1>3. Len(fs) \in Nat /\ \A k \in 0 .. i : k \in 0 .. Len(fs)
    OBVIOUS
  <1>4. h \in [0 .. i -> Bytes] /\ \A k \in 0 .. i : h[k] = g[k]
    BY <1>3
  <1>5. Grows(h, ps, i)
    <2> HIDE DEF h
    <2>1. h[0] = << >>
      BY <1>4 DEF Grows
    <2>2. ASSUME NEW k \in 1 .. i PROVE h[k] = h[k - 1] \o ps[k].data
      <3>1. k \in 0 .. i /\ k - 1 \in 0 .. i /\ k \in 1 .. Len(fs)
        BY <1>3
      <3>2. g[k] = g[k - 1] \o fs[k].data
        BY <3>1 DEF Grows
      <3> QED BY <3>1, <3>2, <1>2, <1>4
    <2> QED BY <2>1, <2>2 DEF Grows
  <1>6. B!Content(ps) = h[i]
    <2> HIDE DEF h
    <2> QED BY <1>2, <1>4, <1>5, ContentIs
  <1> HIDE DEF h
  <1>7. i \in 0 .. i /\ 0 + 1 = 1
    OBVIOUS
  <1> QED BY <1>1, <1>4, <1>6, <1>7

\* e is what Ends computes.
Adds(e, fs, n) ==
  e = [i \in 0 .. n |-> IF i = 0 THEN 0 ELSE e[i - 1] + B!Size(fs[i])]

\* What that says of each number of fragments.
Counts(e, fs, n) ==
  /\ e[0] = 0
  /\ \A i \in 1 .. n : e[i] = e[i - 1] + B!Size(fs[i])

\* Ends is such a function, if there is one.
LEMMA EndsAdds ==
  ASSUME NEW fs, \E e : Adds(e, fs, Len(fs))
  PROVE  Adds(B!Ends(fs), fs, Len(fs))
  <1> DEFINE h == CHOOSE e : Adds(e, fs, Len(fs))
  <1>1. Adds(h, fs, Len(fs))
    OBVIOUS
  <1>2. B!Ends(fs) = h
    BY DEF B!Ends, Adds
  <1> QED BY <1>1, <1>2

LEMMA AddsCounts ==
  ASSUME NEW e, NEW fs, NEW n \in Nat, Adds(e, fs, n)
  PROVE  Counts(e, fs, n)
  <1> DEFINE d == 0 .. n
             v(i) == IF i = 0 THEN 0 ELSE e[i - 1] + B!Size(fs[i])
  <1>1. e = [i \in d |-> v(i)]
    BY DEF Adds
  <1>2. \A i \in d : e[i] = v(i)
    <2> HIDE DEF d, v
    <2> QED BY <1>1
  <1>3. 0 \in d /\ \A i \in 1 .. n : i \in d /\ i # 0
    OBVIOUS
  <1> QED BY <1>2, <1>3 DEF Counts

\* There is at most one.
LEMMA CountsUnique ==
  ASSUME NEW fs, NEW n \in Nat, NEW g, NEW h, Counts(g, fs, n), Counts(h, fs, n)
  PROVE  \A i \in 0 .. n : g[i] = h[i]
  <1> DEFINE T == {i \in 0 .. n : g[i] # h[i]}
  <1>1. SUFFICES ASSUME T # {} PROVE FALSE
    OBVIOUS
  <1>2. T \subseteq Nat
    OBVIOUS
  <1>3. PICK m \in T : \A i \in T : m <= i
    <2> HIDE DEF T
    <2> QED BY <1>1, <1>2, LeastLength
  <1>4. m # 0
    BY <1>3 DEF Counts
  <1>5. m \in 1 .. n /\ m - 1 \in 0 .. n /\ m - 1 \notin T
    BY <1>3, <1>4
  <1>6. g[m - 1] = h[m - 1]
    BY <1>5
  <1>7. g[m] = g[m - 1] + B!Size(fs[m]) /\ h[m] = h[m - 1] + B!Size(fs[m])
    BY <1>5 DEF Counts
  <1>8. g[m] # h[m]
    BY <1>3
  <1> QED BY <1>6, <1>7, <1>8

\* Whatever counts as the list does is Ends.
LEMMA EndsIs ==
  ASSUME NEW fs \in Seq(Frags), NEW e \in [0 .. Len(fs) -> Int], Counts(e, fs, Len(fs))
  PROVE  \A i \in 0 .. Len(fs) : B!Ends(fs)[i] = e[i]
  <1>1. Len(fs) \in Nat
    OBVIOUS
  <1> DEFINE k == [i \in 0 .. Len(fs) |-> IF i = 0 THEN 0 ELSE e[i - 1] + B!Size(fs[i])]
  <1>2. ASSUME NEW i \in 0 .. Len(fs) PROVE e[i] = k[i]
    <2>1. CASE i = 0
      BY <2>1 DEF Counts
    <2>2. CASE i # 0
      <3>1. i \in 1 .. Len(fs) /\ k[i] = e[i - 1] + B!Size(fs[i])
        BY <2>2
      <3> HIDE DEF k
      <3> QED BY <3>1 DEF Counts
    <2> QED BY <2>1, <2>2
  <1>3. e = k
    BY <1>2
  <1>4. Adds(e, fs, Len(fs))
    BY <1>3 DEF Adds
  <1>5. Counts(B!Ends(fs), fs, Len(fs))
    BY <1>1, <1>4, EndsAdds, AddsCounts
  <1> QED BY <1>1, <1>5, CountsUnique

\* A fragment ends where its bytes do.
LEMMA EndsContent ==
  ASSUME NEW fs \in Seq(Frags)
  PROVE  /\ \A i \in 0 .. Len(fs) : B!Ends(fs)[i] = Len(B!Content(SubSeq(fs, 1, i)))
         /\ \A i \in 0 .. Len(fs) : B!Ends(fs)[i] \in Nat
         /\ B!Ends(fs)[0] = 0
         /\ B!Ends(fs)[Len(fs)] = Len(B!Content(fs))
         /\ \A i \in 1 .. Len(fs) :
              B!Ends(fs)[i] = B!Ends(fs)[i - 1] + B!Size(fs[i])
  <1>1. PICK g \in [0 .. Len(fs) -> Bytes] : Grows(g, fs, Len(fs))
    BY GrowsExists
  <1>2. Len(fs) \in Nat
    OBVIOUS
  <1> DEFINE e == [i \in 0 .. Len(fs) |-> Len(g[i])]
  <1>3. \A i \in 0 .. Len(fs) : e[i] = Len(g[i])
    OBVIOUS
  <1>4. \A i \in 0 .. Len(fs) : Len(g[i]) \in Nat
    BY LenProperties DEF Bytes
  <1>5. e \in [0 .. Len(fs) -> Int]
    BY <1>4
  <1>6. ASSUME NEW i \in 1 .. Len(fs)
        PROVE  Len(g[i]) = Len(g[i - 1]) + B!Size(fs[i])
    <2>1. PICK r \in Bytes, t \in Bytes : r = g[i - 1] /\ t = fs[i].data
      <3>1. i - 1 \in 0 .. Len(fs)
        OBVIOUS
      <3>2. fs[i].data \in Bytes
        BY FragmentType
      <3> QED BY <3>1, <3>2
    <2>2. g[i] = r \o t
      BY <2>1, <1>1 DEF Grows
    <2>3. Len(r \o t) = Len(r) + Len(t)
      BY BytesConcat
    <2> QED BY <2>1, <2>2, <2>3 DEF B!Size
  <1>7. Counts(e, fs, Len(fs))
    <2> HIDE DEF e
    <2>1. e[0] = 0
      BY <1>1, <1>2, <1>3 DEF Grows
    <2>2. ASSUME NEW i \in 1 .. Len(fs) PROVE e[i] = e[i - 1] + B!Size(fs[i])
      <3>1. i \in 0 .. Len(fs) /\ i - 1 \in 0 .. Len(fs)
        BY <1>2
      <3> QED BY <3>1, <1>3, <1>6
    <2> QED BY <2>1, <2>2 DEF Counts
  <1> HIDE DEF e
  <1>8. \A i \in 0 .. Len(fs) : B!Ends(fs)[i] = e[i]
    BY <1>5, <1>7, EndsIs
  <1>9. \A i \in 0 .. Len(fs) : B!Ends(fs)[i] = Len(B!Content(SubSeq(fs, 1, i)))
    BY <1>1, <1>3, <1>8, GrowsContent
  <1>10. B!Ends(fs)[Len(fs)] = Len(B!Content(fs))
    <2>1. B!Content(fs) = g[Len(fs)] /\ Len(fs) \in 0 .. Len(fs)
      BY <1>1, <1>2, ContentIs
    <2> QED BY <2>1, <1>3, <1>8
  <1>11. B!Ends(fs)[0] = 0 /\ \A i \in 0 .. Len(fs) : B!Ends(fs)[i] \in Nat
    BY <1>2, <1>3, <1>4, <1>7, <1>8 DEF Counts
  <1>12. ASSUME NEW i \in 1 .. Len(fs)
         PROVE  B!Ends(fs)[i] = B!Ends(fs)[i - 1] + B!Size(fs[i])
    <2>1. i \in 0 .. Len(fs) /\ i - 1 \in 0 .. Len(fs)
      BY <1>2
    <2> QED BY <2>1, <1>3, <1>6, <1>8
  <1> QED BY <1>9, <1>10, <1>11, <1>12

----------------------------------------------------------------------------
(***************************************************************************)
(* Buffer: cutting sequences of bytes.                                     *)
(***************************************************************************)

\* What was joined can be cut again.
LEMMA ConcatCut ==
  ASSUME NEW P, NEW s \in Seq(P), NEW t \in Seq(P)
  PROVE  /\ SubSeq(s \o t, 1, Len(s)) = s
         /\ SubSeq(s \o t, Len(s) + 1, Len(s) + Len(t)) = t
  <1>1. PICK u \in Seq(P) : u = s \o t
    BY ConcatProperties
  <1>2. /\ Len(u) = Len(s) + Len(t) /\ Len(s) \in Nat /\ Len(t) \in Nat
        /\ \A i \in 1 .. Len(s) : u[i] = s[i]
        /\ \A i \in 1 .. Len(t) : u[Len(s) + i] = t[i]
    BY <1>1, ConcatProperties, LenProperties
  <1>3. PICK j \in Nat, k \in Nat : j = Len(s) /\ k = Len(t)
    BY <1>2
  <1>4. SubSeq(u, 1, j) = s
    <2>1. \A i \in 1 .. j : u[i] \in P
      BY <1>2, <1>3, ElementOfSeq
    <2>2. /\ SubSeq(u, 1, j) \in Seq(P)
          /\ Len(SubSeq(u, 1, j)) = (IF 1 <= j THEN j - 1 + 1 ELSE 0)
          /\ \A i \in 1 .. j - 1 + 1 : SubSeq(u, 1, j)[i] = u[1 + i - 1]
      BY <2>1, SubSeqProperties
    <2>3. Len(SubSeq(u, 1, j)) = j /\ \A i \in 1 .. j : SubSeq(u, 1, j)[i] = u[i]
      BY <2>2
    <2>4. PICK v \in Seq(P) : v = SubSeq(u, 1, j)
      BY <2>2
    <2>5. Len(v) = Len(s) /\ \A i \in 1 .. Len(v) : v[i] = s[i]
      BY <2>3, <2>4, <1>2, <1>3
    <2> QED BY <2>4, <2>5, SeqEqual
  <1>5. SubSeq(u, j + 1, j + k) = t
    <2>1. \A i \in j + 1 .. j + k : u[i] \in P
      BY <1>2, <1>3, ElementOfSeq
    <2>2. /\ SubSeq(u, j + 1, j + k) \in Seq(P)
          /\ Len(SubSeq(u, j + 1, j + k))
               = (IF j + 1 <= j + k THEN (j + k) - (j + 1) + 1 ELSE 0)
          /\ \A i \in 1 .. (j + k) - (j + 1) + 1 :
               SubSeq(u, j + 1, j + k)[i] = u[(j + 1) + i - 1]
      BY <2>1, SubSeqProperties
    <2>3. /\ Len(SubSeq(u, j + 1, j + k)) = k
          /\ \A i \in 1 .. k : SubSeq(u, j + 1, j + k)[i] = u[j + i]
      BY <2>2
    <2>4. PICK v \in Seq(P) : v = SubSeq(u, j + 1, j + k)
      BY <2>2
    <2>5. Len(v) = Len(t) /\ \A i \in 1 .. Len(v) : v[i] = t[i]
      BY <2>3, <2>4, <1>2, <1>3
    <2> QED BY <2>4, <2>5, SeqEqual
  <1> QED BY <1>1, <1>3, <1>4, <1>5

\* Where a sequence of bytes is cut.
LEMMA BytesCut ==
  ASSUME NEW s \in Bytes, NEW t \in Bytes, NEW n \in Nat
  PROVE  /\ n = Len(s) => B!First(s \o t, n) = s /\ B!After(s \o t, n) = t
         /\ n = Len(t) => B!Without(s \o t, n) = s
  <1>1. PICK j \in Nat, k \in Nat : j = Len(s) /\ k = Len(t)
    BY BytesConcat
  <1>2. Len(s \o t) = j + k
    BY <1>1, BytesConcat
  <1>3. SubSeq(s \o t, 1, j) = s /\ SubSeq(s \o t, j + 1, j + k) = t
    BY <1>1, ConcatCut DEF Bytes
  <1>4. B!Least(j, j + k) = j /\ B!Least(k, j + k) = k /\ j + k - k = j
    BY DEF B!Least
  <1> QED BY <1>1, <1>2, <1>3, <1>4 DEF B!First, B!After, B!Without

\* Who asks for more than there is gets all.
LEMMA BytesAll ==
  ASSUME NEW s \in Bytes, NEW n \in Nat, Len(s) <= n
  PROVE  B!First(s, n) = s /\ B!After(s, n) = << >> /\ B!Without(s, n) = << >>
  <1>1. PICK m \in Nat : m = Len(s)
    BY LenProperties DEF Bytes
  <1>2. B!Least(n, m) = m
    BY <1>1 DEF B!Least
  <1>3. /\ B!First(s, n) = B!First(s, m)
        /\ B!After(s, n) = B!After(s, m)
        /\ B!Without(s, n) = B!Without(s, m)
    <2>1. B!Least(m, m) = m
      BY DEF B!Least
    <2> QED BY <1>1, <1>2, <2>1 DEF B!First, B!After, B!Without
  <1>4. << >> \in Bytes /\ s \o << >> = s /\ << >> \o s = s
    BY BytesConcat, EmptySeq DEF Bytes
  <1>5. PICK e \in Bytes : e = << >>
    BY <1>4
  <1>6. B!First(s \o e, m) = s /\ B!After(s \o e, m) = e /\ B!Without(e \o s, m) = e
    BY <1>1, BytesCut
  <1> QED BY <1>3, <1>4, <1>5, <1>6

\* The two parts of a sequence of bytes.
LEMMA BytesParts ==
  ASSUME NEW s \in Bytes, NEW n \in 0 .. Len(s)
  PROVE  /\ B!First(s, n) \in Bytes /\ B!After(s, n) \in Bytes /\ B!Without(s, n) \in Bytes
         /\ B!First(s, n) \o B!After(s, n) = s
         /\ Len(B!First(s, n)) = n /\ Len(B!After(s, n)) = Len(s) - n
         /\ Len(B!Without(s, n)) = Len(s) - n
  <1>1. PICK m \in Nat : m = Len(s)
    BY LenProperties DEF Bytes
  <1>2. n \in Nat /\ n <= m /\ B!Least(n, m) = n
    BY <1>1 DEF B!Least
  <1>3. /\ B!First(s, n) = SubSeq(s, 1, n) /\ B!After(s, n) = SubSeq(s, n + 1, m)
        /\ B!Without(s, n) = SubSeq(s, 1, m - n)
    BY <1>1, <1>2 DEF B!First, B!After, B!Without
  <1>4. \A i \in 1 .. m : s[i] \in Nat
    BY <1>1, ElementOfSeq DEF Bytes
  <1>5. /\ SubSeq(s, 1, n) \in Seq(Nat)
        /\ Len(SubSeq(s, 1, n)) = (IF 1 <= n THEN n - 1 + 1 ELSE 0)
    <2>1. \A i \in 1 .. n : s[i] \in Nat
      BY <1>2, <1>4
    <2> QED BY <2>1, <1>2, SubSeqProperties
  <1>6. /\ SubSeq(s, n + 1, m) \in Seq(Nat)
        /\ Len(SubSeq(s, n + 1, m)) = (IF n + 1 <= m THEN m - (n + 1) + 1 ELSE 0)
    <2>1. \A i \in n + 1 .. m : s[i] \in Nat
      BY <1>2, <1>4
    <2> QED BY <2>1, <1>2, SubSeqProperties
  <1>7. /\ SubSeq(s, 1, m - n) \in Seq(Nat)
        /\ Len(SubSeq(s, 1, m - n)) = (IF 1 <= m - n THEN (m - n) - 1 + 1 ELSE 0)
    <2>1. (m - n) \in Int /\ \A i \in 1 .. m - n : s[i] \in Nat
      BY <1>2, <1>4
    <2> QED BY <2>1, SubSeqProperties
  <1>8. SubSeq(s, 1, n) \o SubSeq(s, n + 1, m) = s
    <2>1. 1 \in 1 .. Len(s) + 1 /\ n \in 1 - 1 .. Len(s) /\ m \in n .. Len(s)
      BY <1>1, <1>2
    <2>2. SubSeq(s, 1, n) \o SubSeq(s, n + 1, m) = SubSeq(s, 1, m)
      BY <2>1, ConcatAdjacentSubSeq DEF Bytes
    <2> QED BY <2>2, <1>1, SubSeqFull DEF Bytes
  <1>9. /\ Len(SubSeq(s, 1, n)) = n
        /\ Len(SubSeq(s, n + 1, m)) = m - n
        /\ Len(SubSeq(s, 1, m - n)) = m - n
    BY <1>2, <1>5, <1>6, <1>7
  <1> QED BY <1>1, <1>3, <1>5, <1>6, <1>7, <1>8, <1>9 DEF Bytes

----------------------------------------------------------------------------
(***************************************************************************)
(* Buffer: the fragment that an offset is in, and what is on either side.  *)
(***************************************************************************)

\* skip_offset stops at the last fragment that begins at or before the offset.
LEMMA SkippedIs ==
  ASSUME NEW fs \in Seq(Frags), NEW n \in Nat
  PROVE  /\ B!Skipped(fs, n) \in 0 .. Len(fs)
         /\ B!Ends(fs)[B!Skipped(fs, n)] <= n
         /\ B!Skipped(fs, n) # Len(fs) => n < B!Ends(fs)[B!Skipped(fs, n) + 1]
  <1> DEFINE P == {i \in 0 .. Len(fs) : B!Ends(fs)[i] <= n}
             T == {Len(fs) - i : i \in P}
  <1>1. Len(fs) \in Nat /\ 0 \in P
    BY EndsContent
  <1>2. T \subseteq Nat /\ T # {}
    BY <1>1
  <1>3. PICK m \in T : \A k \in T : m <= k
    <2> HIDE DEF T
    <2> QED BY <1>2, LeastLength
  <1>4. PICK j \in P : m = Len(fs) - j
    BY <1>3
  <1>5. \A k \in P : k <= j
    <2>1. ASSUME NEW k \in P PROVE k <= j
      <3>1. Len(fs) - k \in T
        OBVIOUS
      <3>2. Len(fs) - j <= Len(fs) - k
        BY <3>1, <1>3, <1>4
      <3> QED BY <3>2, <1>1
    <2> QED BY <2>1
  <1>6. B!Skipped(fs, n) = CHOOSE i \in P : \A k \in P : k <= i
    BY DEF B!Skipped
  <1>7. B!Skipped(fs, n) \in P /\ \A k \in P : k <= B!Skipped(fs, n)
    <2> HIDE DEF P
    <2> QED BY <1>5, <1>6
  <1>8. ASSUME B!Skipped(fs, n) # Len(fs)
        PROVE  n < B!Ends(fs)[B!Skipped(fs, n) + 1]
    <2>1. PICK i \in 0 .. Len(fs) : i = B!Skipped(fs, n)
      BY <1>7
    <2>2. i + 1 \in 0 .. Len(fs) /\ i + 1 \notin P
      BY <1>1, <1>7, <1>8, <2>1
    <2>3. B!Ends(fs)[i + 1] \in Nat /\ ~(B!Ends(fs)[i + 1] <= n)
      BY <2>2, EndsContent
    <2> QED BY <2>1, <2>3
  <1> QED BY <1>7, <1>8

\* A list of one fragment.
LEMMA ContentOne ==
  ASSUME NEW f \in Frags
  PROVE  /\ <<f>> \in Seq(Frags)
         /\ Len(<<f>>) = 1
         /\ f.data \in Bytes
         /\ B!Content(<<f>>) = f.data
  <1>1. PICK fs \in Seq(Frags) : fs = <<f>>
    <2>1. <<f>> \in Seq(Frags)
      OBVIOUS
    <2> QED BY <2>1
  <1>2. Len(fs) = 1 /\ fs[1] = f
    BY <1>1
  <1>3. f.data \in Bytes
    BY DEF Frags
  <1> DEFINE g == [i \in 0 .. 1 |-> IF i = 0 THEN << >> ELSE f.data]
  <1>4. g[0] = << >> /\ g[1] = f.data
    OBVIOUS
  <1>5. g \in [0 .. 1 -> Bytes]
    BY <1>3, EmptySeq DEF Bytes
  <1>6. Grows(g, fs, 1)
    <2> HIDE DEF g
    <2>1. g[1] = g[0] \o fs[1].data
      BY <1>2, <1>3, <1>4, BytesConcat
    <2>2. \A i \in 1 .. 1 : i = 1 /\ i - 1 = 0
      OBVIOUS
    <2> QED BY <2>1, <2>2, <1>4 DEF Grows
  <1> HIDE DEF g
  <1>7. B!Content(fs) = g[1]
    BY <1>2, <1>5, <1>6, ContentIs
  <1> QED BY <1>1, <1>2, <1>3, <1>4, <1>7

\* A list and its two parts.
LEMMA ListParts ==
  ASSUME NEW fs \in Seq(Frags), NEW i \in 0 .. Len(fs)
  PROVE  /\ B!Prefix(fs, i) \in Seq(Frags) /\ B!Suffix(fs, i) \in Seq(Frags)
         /\ Len(B!Prefix(fs, i)) = i /\ Len(B!Suffix(fs, i)) = Len(fs) - i
         /\ \A k \in 1 .. i : B!Prefix(fs, i)[k] = fs[k]
         /\ \A k \in 1 .. Len(fs) - i : B!Suffix(fs, i)[k] = fs[i + k]
         /\ fs = B!Prefix(fs, i) \o B!Suffix(fs, i)
         /\ B!Content(fs) = B!Content(B!Prefix(fs, i)) \o B!Content(B!Suffix(fs, i))
         /\ B!Ends(fs)[i] = Len(B!Content(B!Prefix(fs, i)))
  <1>1. PICK m \in Nat : m = Len(fs)
    OBVIOUS
  <1>2. i \in Nat /\ i <= m /\ 0 + 1 = 1
    BY <1>1
  <1>3. PICK p \in Seq(Frags), q \in Seq(Frags) : p = SubSeq(fs, 0 + 1, i) /\ q = SubSeq(fs, i + 1, m)
    <2>1. m \in 0 .. Len(fs) /\ 0 \in Nat
      BY <1>1
    <2>2. SubSeq(fs, 0 + 1, i) \in Seq(Frags)
      BY <2>1, PartType
    <2>3. SubSeq(fs, i + 1, m) \in Seq(Frags)
      BY <2>1, <1>2, PartType
    <2> QED BY <2>2, <2>3
  <1>4. p = B!Prefix(fs, i) /\ q = B!Suffix(fs, i)
    BY <1>1, <1>2, <1>3 DEF B!Prefix, B!Suffix
  <1>5. /\ Len(p) = (IF 0 <= i THEN i - 0 ELSE 0)
        /\ \A k \in 1 .. i - 0 : p[k] = fs[0 + k]
    BY <1>1, <1>2, <1>3, PartType
  <1>6. /\ Len(q) = (IF i <= m THEN m - i ELSE 0)
        /\ \A k \in 1 .. m - i : q[k] = fs[i + k]
    <2>1. m \in 0 .. Len(fs)
      BY <1>1
    <2> QED BY <2>1, <1>2, <1>3, PartType
  <1>7. p \o q = fs
    <2>1. 1 \in 1 .. Len(fs) + 1 /\ i \in 1 - 1 .. Len(fs) /\ m \in i .. Len(fs)
      BY <1>1, <1>2
    <2>2. SubSeq(fs, 1, i) \o SubSeq(fs, i + 1, m) = SubSeq(fs, 1, m)
      BY <2>1, ConcatAdjacentSubSeq
    <2>3. SubSeq(fs, 1, m) = fs
      BY <1>1, SubSeqFull
    <2> QED BY <2>2, <2>3, <1>2, <1>3
  <1>8. B!Content(fs) = B!Content(p) \o B!Content(q)
    BY <1>7, ContentConcat
  <1>9. B!Ends(fs)[i] = Len(B!Content(p))
    BY <1>2, <1>3, EndsContent
  <1>10. Len(p) = i /\ Len(q) = m - i /\ \A k \in 1 .. i : p[k] = fs[k]
    BY <1>1, <1>2, <1>5, <1>6
  <1> QED BY <1>1, <1>4, <1>6, <1>7, <1>8, <1>9, <1>10

\* A list at one of its fragments.
LEMMA ListAt ==
  ASSUME NEW fs \in Seq(Frags), NEW i \in 0 .. Len(fs), i # Len(fs)
  PROVE  /\ i + 1 \in 0 .. Len(fs) /\ i + 1 \in 1 .. Len(fs)
         /\ fs[i + 1] \in Frags
         /\ B!Suffix(fs, i + 1) \in Seq(Frags)
         /\ B!Suffix(fs, i) = <<fs[i + 1]>> \o B!Suffix(fs, i + 1)
         /\ B!Content(B!Suffix(fs, i)) = fs[i + 1].data \o B!Content(B!Suffix(fs, i + 1))
  <1>1. i + 1 \in 0 .. Len(fs) /\ i + 1 \in 1 .. Len(fs)
    OBVIOUS
  <1>2. fs[i + 1] \in Frags
    BY <1>1, ElementOfSeq
  <1>3. B!Suffix(fs, i + 1) \in Seq(Frags)
    BY <1>1, ListParts
  <1>4. B!Suffix(fs, i) = <<fs[i + 1]>> \o B!Suffix(fs, i + 1)
    <2>1. Len(fs) \in i + 1 .. Len(fs)
      BY <1>1
    <2> QED BY <2>1, <1>1, SubSeqRecursiveFirst DEF B!Suffix
  <1>5. B!Content(<<fs[i + 1]>>) = fs[i + 1].data /\ <<fs[i + 1]>> \in Seq(Frags)
    BY <1>2, ContentOne
  <1>6. B!Content(<<fs[i + 1]>> \o B!Suffix(fs, i + 1))
          = B!Content(<<fs[i + 1]>>) \o B!Content(B!Suffix(fs, i + 1))
    BY <1>3, <1>5, ContentConcat
  <1> QED BY <1>1, <1>2, <1>3, <1>4, <1>5, <1>6

\* Four sequences of bytes, joined in two ways.
Regroups(a, x, y, q) ==
  /\ a \o ((x \o y) \o q) = (a \o x) \o (y \o q)
  /\ (a \o (x \o y)) \o q = (a \o x) \o (y \o q)

\* However four parts are joined.
LEMMA BytesFour ==
  ASSUME NEW a \in Bytes, NEW x \in Bytes, NEW y \in Bytes, NEW q \in Bytes
  PROVE  Regroups(a, x, y, q)
  <1>1. PICK w \in Bytes : w = y \o q
    BY BytesConcat
  <1>2. PICK u \in Bytes : u = a \o x
    BY BytesConcat
  <1>3. (x \o y) \o q = x \o w
    <2>1. (x \o y) \o q = x \o (y \o q)
      BY BytesAssociative, SMTT(30)
    <2> QED BY <2>1, <1>1
  <1>4. a \o (x \o w) = u \o w
    <2>1. (a \o x) \o w = a \o (x \o w)
      BY BytesAssociative, SMTT(30)
    <2> QED BY <2>1, <1>2
  <1>5. a \o (x \o y) = u \o y
    <2>1. (a \o x) \o y = a \o (x \o y)
      BY BytesAssociative, SMTT(30)
    <2> QED BY <2>1, <1>2
  <1>6. (u \o y) \o q = u \o w
    <2>1. (u \o y) \o q = u \o (y \o q)
      BY BytesAssociative
    <2> QED BY <2>1, <1>1
  <1> QED BY <1>1, <1>2, <1>3, <1>4, <1>5, <1>6 DEF Regroups

\* What a cut at n between x and y leaves of them.
CutAt(a, x, y, q, n) ==
  /\ n = Len(a) + Len(x) =>
       /\ B!First(a \o ((x \o y) \o q), n) = a \o x
       /\ B!After(a \o ((x \o y) \o q), n) = y \o q
  /\ n = Len(q) + Len(y) => B!Without((a \o (x \o y)) \o q, n) = a \o x

\* A cut between the second and the third of four parts.
LEMMA BytesCutFour ==
  ASSUME NEW a \in Bytes, NEW x \in Bytes, NEW y \in Bytes, NEW q \in Bytes, NEW n \in Nat
  PROVE  CutAt(a, x, y, q, n)
  <1>1. PICK u \in Bytes : u = a \o x /\ Len(u) = Len(a) + Len(x)
    BY BytesConcat
  <1>2. PICK w \in Bytes : w = y \o q /\ Len(w) = Len(y) + Len(q)
    BY BytesConcat
  <1>3. Len(y) + Len(q) = Len(q) + Len(y)
    BY BytesConcat
  <1>4. a \o ((x \o y) \o q) = u \o w /\ (a \o (x \o y)) \o q = u \o w
    <2>1. Regroups(a, x, y, q)
      BY BytesFour
    <2> QED BY <2>1, <1>1, <1>2 DEF Regroups
  <1>5. /\ n = Len(u) => B!First(u \o w, n) = u /\ B!After(u \o w, n) = w
        /\ n = Len(w) => B!Without(u \o w, n) = u
    BY BytesCut
  <1> QED BY <1>1, <1>2, <1>3, <1>4, <1>5 DEF CutAt

\* A cut r bytes into the middle one of three sequences, from either end.
CutsInside(a, d, q, r, n) ==
  /\ B!First(a \o (d \o q), n) = a \o B!First(d, r)
  /\ B!After(a \o (d \o q), n) = B!After(d, r) \o q

DropsInside(a, d, q, r, n) ==
  B!Without((a \o d) \o q, n) = a \o B!Without(d, r)

\* A cut inside the second of three parts, and the end dropped from there.
LEMMA BytesCutInside ==
  ASSUME NEW a \in Bytes, NEW d \in Bytes, NEW q \in Bytes,
         NEW r \in 0 .. Len(d), NEW n \in Nat
  PROVE  n = Len(a) + r => CutsInside(a, d, q, r, n)
  <1>1. PICK x \in Bytes, y \in Bytes :
          x = B!First(d, r) /\ y = B!After(d, r) /\ x \o y = d /\ Len(x) = r
    BY BytesParts
  <1>2. n = Len(a) + Len(x) =>
          /\ B!First(a \o ((x \o y) \o q), n) = a \o x
          /\ B!After(a \o ((x \o y) \o q), n) = y \o q
    <2>1. CutAt(a, x, y, q, n)
      BY BytesCutFour
    <2> QED BY <2>1 DEF CutAt
  <1> QED BY <1>1, <1>2 DEF CutsInside

LEMMA BytesWithoutInside ==
  ASSUME NEW a \in Bytes, NEW d \in Bytes, NEW q \in Bytes,
         NEW r \in 0 .. Len(d), NEW n \in Nat
  PROVE  n = Len(q) + r => DropsInside(a, d, q, r, n)
  <1>1. PICK m \in 0 .. Len(d) : m = Len(d) - r
    <2>1. Len(d) \in Nat
      BY BytesConcat
    <2>2. Len(d) - r \in 0 .. Len(d)
      BY <2>1
    <2> QED BY <2>2
  <1>2. PICK x \in Bytes, y \in Bytes :
          x = B!First(d, m) /\ y = B!After(d, m) /\ x \o y = d /\ Len(y) = Len(d) - m
    BY BytesParts
  <1>3. Len(d) \in Nat /\ Len(y) = r /\ r \in Nat
    <2>1. Len(d) \in Nat
      BY BytesConcat
    <2> QED BY <2>1, <1>1, <1>2
  <1>4. B!Without(d, r) = x
    <2>1. B!Without(x \o y, r) = x
      BY <1>3, BytesCut
    <2> QED BY <2>1, <1>2
  <1>5. n = Len(q) + Len(y) => B!Without((a \o (x \o y)) \o q, n) = a \o x
    <2>1. CutAt(a, x, y, q, n)
      BY BytesCutFour
    <2> QED BY <2>1 DEF CutAt
  <1> QED BY <1>2, <1>3, <1>4, <1>5 DEF DropsInside

\* Where an offset is in a list.
LEMMA AtOffset ==
  ASSUME NEW fs \in Seq(Frags), NEW n \in Nat
  PROVE  /\ B!Skipped(fs, n) \in 0 .. Len(fs)
         /\ B!Remainder(fs, n) \in Nat
         /\ n = Len(B!Content(B!Prefix(fs, B!Skipped(fs, n)))) + B!Remainder(fs, n)
         /\ B!Skipped(fs, n) = Len(fs) =>
              /\ Len(B!Content(fs)) <= n
              /\ n = Len(B!Content(fs)) + B!Remainder(fs, n)
         /\ B!Skipped(fs, n) # Len(fs) =>
              /\ B!Remainder(fs, n) < Len(fs[B!Skipped(fs, n) + 1].data)
              /\ n < Len(B!Content(fs))
  <1>1. PICK i \in 0 .. Len(fs) : i = B!Skipped(fs, n)
    BY SkippedIs
  <1>2. PICK e \in Nat : e = B!Ends(fs)[i]
    BY <1>1, EndsContent
  <1>3. e <= n /\ (i # Len(fs) => n < B!Ends(fs)[i + 1])
    BY <1>1, <1>2, SkippedIs
  <1>4. B!Remainder(fs, n) = n - e
    BY <1>1, <1>2 DEF B!Remainder
  <1>5. e = Len(B!Content(B!Prefix(fs, i)))
    BY <1>2, ListParts
  <1>6. ASSUME i = Len(fs) PROVE e = Len(B!Content(fs))
    BY <1>2, <1>6, EndsContent
  <1>7. ASSUME i # Len(fs)
        PROVE  n - e < Len(fs[i + 1].data) /\ n < Len(B!Content(fs))
    <2>1. i + 1 \in 1 .. Len(fs) /\ (i + 1) - 1 = i
      BY <1>7
    <2>2. B!Ends(fs)[i + 1] = e + B!Size(fs[i + 1]) /\ B!Size(fs[i + 1]) \in Nat
      BY <2>1, <1>2, EndsContent, FragmentType
    <2>3. B!Size(fs[i + 1]) = Len(fs[i + 1].data)
      BY DEF B!Size
    <2>4. PICK a \in Bytes, d \in Bytes, q \in Bytes :
            /\ a = B!Content(B!Prefix(fs, i)) /\ d = fs[i + 1].data
            /\ q = B!Content(B!Suffix(fs, i + 1))
            /\ B!Content(fs) = a \o (d \o q)
      <3>1. B!Content(B!Prefix(fs, i)) \in Bytes
        BY ListParts, ContentType
      <3>2. B!Content(B!Suffix(fs, i + 1)) \in Bytes
        BY <1>7, ListAt, ContentType
      <3>3. fs[i + 1].data \in Bytes
        BY <2>1, FragmentType
      <3>4. B!Content(fs) = B!Content(B!Prefix(fs, i)) \o B!Content(B!Suffix(fs, i))
        BY ListParts
      <3>5. B!Content(B!Suffix(fs, i)) = fs[i + 1].data \o B!Content(B!Suffix(fs, i + 1))
        BY <1>7, ListAt
      <3> QED BY <3>1, <3>2, <3>3, <3>4, <3>5
    <2>5. Len(B!Content(fs)) = Len(a) + (Len(d) + Len(q)) /\ Len(q) \in Nat
      <3>1. d \o q \in Bytes /\ Len(d \o q) = Len(d) + Len(q) /\ Len(q) \in Nat
        BY BytesConcat
      <3>2. Len(a \o (d \o q)) = Len(a) + Len(d \o q)
        BY <3>1, BytesConcat
      <3> QED BY <3>1, <3>2, <2>4
    <2>6. PICK l \in Nat, k \in Nat : l = Len(d) /\ k = Len(q)
      BY <2>2, <2>3, <2>4, <2>5
    <2>7. n < e + l /\ Len(B!Content(fs)) = e + (l + k)
      BY <2>2, <2>3, <2>4, <2>5, <2>6, <1>3, <1>5, <1>7
    <2>8. n - e < l /\ n < e + (l + k)
      BY <2>6, <2>7
    <2> QED BY <2>4, <2>6, <2>7, <2>8
  <1>8. n - e \in Nat /\ n = e + (n - e)
    BY <1>3
  <1> QED BY <1>1, <1>3, <1>4, <1>5, <1>6, <1>7, <1>8

\* The operations on a fragment, for as many bytes as it has.
LEMMA FragmentParts ==
  ASSUME NEW f \in Frags, NEW n \in 0 .. Len(f.data)
  PROVE  /\ B!FragmentSkip(f, n) \in Frags
         /\ B!FragmentSkip(f, n).data = B!After(f.data, n)
         /\ B!SplitFront(f, n) \in Frags
         /\ B!SplitFront(f, n).data = B!First(f.data, n)
         /\ B!SplitBack(f, n) \in Frags
         /\ B!SplitBack(f, n).data = B!After(f.data, n)
         /\ B!FragmentIgnore(f, n) \in Frags
         /\ B!FragmentIgnore(f, n).data = B!Without(f.data, n)
  <1>1. /\ f.data \in Bytes /\ f.tail \in Nat /\ f.shared \in BOOLEAN
        /\ f = [data |-> f.data, tail |-> f.tail, shared |-> f.shared]
    BY DEF Frags
  <1>2. PICK x \in Bytes, y \in Bytes, z \in Bytes :
          x = B!First(f.data, n) /\ y = B!After(f.data, n) /\ z = B!Without(f.data, n)
    BY <1>1, BytesParts
  <1>3. PICK m \in Nat : m = B!Least(n, B!Size(f))
    <2>1. Len(f.data) \in Nat
      BY <1>1, BytesConcat
    <2>2. B!Least(n, Len(f.data)) \in Nat
      BY <2>1 DEF B!Least
    <2> QED BY <2>2 DEF B!Size
  <1>4. /\ B!FragmentSkip(f, n) = [f EXCEPT !.data = y]
        /\ B!SplitFront(f, n) = [f EXCEPT !.data = x, !.tail = 0]
        /\ B!SplitBack(f, n) = [f EXCEPT !.data = y]
        /\ B!FragmentIgnore(f, n) = [f EXCEPT !.tail = f.tail + m, !.data = z]
    BY <1>2, <1>3 DEF B!FragmentSkip, B!SplitFront, B!SplitBack, B!FragmentIgnore
  <1>5. /\ [f EXCEPT !.data = y] \in Frags /\ [f EXCEPT !.data = y].data = y
        /\ [f EXCEPT !.data = x, !.tail = 0] \in Frags
        /\ [f EXCEPT !.data = x, !.tail = 0].data = x
    BY <1>1 DEF Frags
  <1>6. PICK k \in Nat : k = f.tail + m
    BY <1>1
  <1>7. /\ [f EXCEPT !.tail = k, !.data = z] \in Frags
        /\ [f EXCEPT !.tail = k, !.data = z].data = z
    BY <1>1 DEF Frags
  <1> QED BY <1>2, <1>4, <1>5, <1>6, <1>7

\* All the bytes of a fragment are dropped.
LEMMA FragmentDrained ==
  ASSUME NEW f \in Frags
  PROVE  /\ B!FragmentSkip(f, B!Size(f)) \in Frags
         /\ B!FragmentSkip(f, B!Size(f)).data = << >>
         /\ B!FragmentIgnore(f, B!Size(f)) \in Frags
         /\ B!FragmentIgnore(f, B!Size(f)).data = << >>
  <1>1. f.data \in Bytes
    BY DEF Frags
  <1>2. Len(f.data) \in Nat /\ Len(f.data) \in 0 .. Len(f.data)
    BY <1>1, BytesConcat
  <1>3. B!Size(f) = Len(f.data)
    BY DEF B!Size
  <1>4. B!After(f.data, Len(f.data)) = << >> /\ B!Without(f.data, Len(f.data)) = << >>
    BY <1>1, <1>2, BytesAll
  <1> QED BY <1>2, <1>3, <1>4, FragmentParts

\* What skip_bytes leaves behind the fragments it has passed.
Rest(fs, n) ==
  IF B!Skipped(fs, n) = Len(fs) THEN << >>
  ELSE <<B!FragmentSkip(fs[B!Skipped(fs, n) + 1], B!Remainder(fs, n))>>
         \o B!Suffix(fs, B!Skipped(fs, n) + 1)

\* skip_bytes leaves the bytes behind offset n.
LEMMA RestContent ==
  ASSUME NEW fs \in Seq(Frags), NEW n \in Nat
  PROVE  /\ Rest(fs, n) \in Seq(Frags)
         /\ B!Content(Rest(fs, n)) = B!After(B!Content(fs), n)
         /\ Len(B!After(B!Content(fs), n)) =
              IF B!Skipped(fs, n) = Len(fs) THEN 0 ELSE Len(B!Content(fs)) - n
  <1>1. PICK c \in Bytes : c = B!Content(fs)
    BY ContentType
  <1>2. PICK i \in 0 .. Len(fs), r \in Nat :
          i = B!Skipped(fs, n) /\ r = B!Remainder(fs, n)
    BY AtOffset
  <1>3. CASE i = Len(fs)
    <2>1. Len(c) <= n
      BY <1>1, <1>2, <1>3, AtOffset
    <2>2. B!After(c, n) = << >>
      BY <2>1, BytesAll
    <2>3. Rest(fs, n) = << >> /\ << >> \in Seq(Frags) /\ Len(<< >>) = 0
      BY <1>2, <1>3, EmptySeq DEF Rest
    <2> QED BY <2>2, <2>3, <1>1, <1>2, <1>3, ContentEmpty
  <1>4. CASE i # Len(fs)
    <2>1. fs[i + 1] \in Frags /\ B!Suffix(fs, i + 1) \in Seq(Frags)
      BY <1>4, ListAt
    <2>2. PICK f \in Frags, S \in Seq(Frags) : f = fs[i + 1] /\ S = B!Suffix(fs, i + 1)
      BY <2>1
    <2>3. PICK a \in Bytes, d \in Bytes, q \in Bytes :
            /\ a = B!Content(B!Prefix(fs, i)) /\ d = f.data /\ q = B!Content(S)
      <3>1. B!Content(B!Prefix(fs, i)) \in Bytes
        BY ListParts, ContentType
      <3>2. f.data \in Bytes
        BY DEF Frags
      <3>3. B!Content(S) \in Bytes
        BY ContentType
      <3> QED BY <3>1, <3>2, <3>3
    <2>4. c = a \o (d \o q)
      <3>1. B!Content(fs) = B!Content(B!Prefix(fs, i)) \o B!Content(B!Suffix(fs, i))
        BY ListParts
      <3>2. B!Content(B!Suffix(fs, i)) = fs[i + 1].data \o B!Content(B!Suffix(fs, i + 1))
        BY <1>4, ListAt
      <3> QED BY <3>1, <3>2, <1>1, <2>2, <2>3
    <2>5. r < Len(d) /\ n < Len(c) /\ n = Len(a) + r
      BY <1>1, <1>2, <1>4, <2>2, <2>3, AtOffset
    <2>6. r \in 0 .. Len(d)
      BY <2>5, BytesConcat
    <2>7. CutsInside(a, d, q, r, n)
      BY <2>5, <2>6, BytesCutInside
    <2>8. B!After(c, n) = B!After(d, r) \o q
      BY <2>4, <2>7 DEF CutsInside
    <2>9. B!FragmentSkip(f, r) \in Frags /\ B!FragmentSkip(f, r).data = B!After(d, r)
      BY <2>3, <2>6, FragmentParts
    <2>10. PICK g \in Frags : g = B!FragmentSkip(f, r) /\ g.data = B!After(d, r)
      BY <2>9
    <2>11. Rest(fs, n) = <<g>> \o S
      BY <1>2, <1>4, <2>2, <2>10 DEF Rest
    <2>12. <<g>> \in Seq(Frags) /\ B!Content(<<g>>) = g.data
      BY ContentOne
    <2>13. <<g>> \o S \in Seq(Frags) /\ B!Content(<<g>> \o S) = g.data \o q
      BY <2>3, <2>12, ContentConcat
    <2>14. Len(B!After(c, n)) = Len(c) - n
      <3>1. n \in 0 .. Len(c)
        BY <2>5, BytesConcat
      <3> QED BY <3>1, BytesParts
    <2> QED BY <1>1, <1>2, <1>4, <2>8, <2>10, <2>11, <2>13, <2>14
  <1> QED BY <1>3, <1>4

\* Lists joined and cut again.
LEMMA ListJoined ==
  ASSUME NEW fs \in Seq(Frags), NEW gs \in Seq(Frags)
  PROVE  /\ fs \o gs \in Seq(Frags)
         /\ Len(fs \o gs) = Len(fs) + Len(gs)
         /\ B!Prefix(fs \o gs, Len(fs)) = fs
         /\ B!Suffix(fs \o gs, Len(fs)) = gs
  <1>1. fs \o gs \in Seq(Frags) /\ Len(fs \o gs) = Len(fs) + Len(gs)
    BY ConcatProperties
  <1>2. /\ SubSeq(fs \o gs, 1, Len(fs)) = fs
        /\ SubSeq(fs \o gs, Len(fs) + 1, Len(fs) + Len(gs)) = gs
    BY ConcatCut
  <1> QED BY <1>1, <1>2 DEF B!Prefix, B!Suffix

\* Two fragments between two lists.
Pairs(P, g, h, S) == P \o <<g, h>> \o S = (P \o <<g>>) \o (<<h>> \o S)

\* A list with two fragments in the middle.
LEMMA ListPair ==
  ASSUME NEW P \in Seq(Frags), NEW S \in Seq(Frags), NEW g \in Frags, NEW h \in Frags
  PROVE  Pairs(P, g, h, S)
  <1>1. PICK x \in Seq(Frags), y \in Seq(Frags) : x = <<g>> /\ y = <<h>>
    BY ContentOne
  <1>2. <<g, h>> = x \o y
    <2>1. /\ x \o y \in Seq(Frags)
          /\ Len(x) = 1 /\ Len(y) = 1 /\ Len(x \o y) = Len(x) + Len(y)
          /\ x[1] = g /\ y[1] = h
      BY <1>1, ConcatProperties
    <2>2. \A i \in 1 .. Len(x) + Len(y) :
            (x \o y)[i] = IF i <= Len(x) THEN x[i] ELSE y[i - Len(x)]
      BY ConcatProperties
    <2>3. (x \o y)[1] = g /\ (x \o y)[2] = h
      BY <2>1, <2>2
    <2>4. PICK v \in Seq(Frags) : v = <<g, h>>
      <3>1. <<g, h>> \in Seq(Frags)
        OBVIOUS
      <3> QED BY <3>1
    <2>5. Len(v) = 2 /\ v[1] = g /\ v[2] = h
      BY <2>4
    <2>6. \A i \in 1 .. 2 : i = 1 \/ i = 2
      OBVIOUS
    <2>7. Len(x \o y) = Len(v) /\ \A i \in 1 .. Len(v) : v[i] = (x \o y)[i]
      BY <2>1, <2>3, <2>5, <2>6
    <2> QED BY <2>1, <2>4, <2>7, SeqEqual
  <1>3. PICK z \in Seq(Frags) : z = P \o x
    BY ConcatProperties
  <1>4. P \o (x \o y) = (P \o x) \o y
    BY ConcatAssociative, SMTT(30)
  <1>5. (z \o y) \o S = z \o (y \o S)
    BY ConcatAssociative, SMTT(30)
  <1> QED BY <1>1, <1>2, <1>3, <1>4, <1>5 DEF Pairs

\* Where split cuts its list.
Seam(fs, n) ==
  B!Skipped(fs, n) + (IF B!Remainder(fs, n) > 0 THEN 1 ELSE 0)

----------------------------------------------------------------------------
(***************************************************************************)
(* Buffer: what split, coalesce, ignore_bytes_at_end and skip_bytes do to  *)
(* the bytes of a list.                                                    *)
(***************************************************************************)

\* Split, if there are that many bytes.
LEMMA SplitContent ==
  ASSUME NEW fs \in Seq(Frags), NEW n \in Nat, n <= Len(B!Content(fs))
  PROVE  /\ B!Prefix(B!Cut(fs, n), Seam(fs, n)) \in Seq(Frags)
         /\ B!Suffix(B!Cut(fs, n), Seam(fs, n)) \in Seq(Frags)
         /\ B!Content(B!Prefix(B!Cut(fs, n), Seam(fs, n))) = B!First(B!Content(fs), n)
         /\ B!Content(B!Suffix(B!Cut(fs, n), Seam(fs, n))) = B!After(B!Content(fs), n)
         /\ B!Ends(B!Cut(fs, n))[Seam(fs, n)] = n
  <1>1. PICK c \in Bytes : c = B!Content(fs)
    BY ContentType
  <1>2. PICK i \in 0 .. Len(fs), r \in Nat :
          i = B!Skipped(fs, n) /\ r = B!Remainder(fs, n)
    BY AtOffset
  <1>3. PICK P \in Seq(Frags), a \in Bytes : P = B!Prefix(fs, i) /\ a = B!Content(P) /\ Len(P) = i
    <2>1. B!Prefix(fs, i) \in Seq(Frags) /\ Len(B!Prefix(fs, i)) = i
      BY ListParts
    <2>2. B!Content(B!Prefix(fs, i)) \in Bytes
      BY <2>1, ContentType
    <2> QED BY <2>1, <2>2
  <1>4. n = Len(a) + r
    BY <1>2, <1>3, AtOffset
  <1>5. CASE r = 0
    <2>1. B!Cut(fs, n) = fs /\ Seam(fs, n) = i
      BY <1>2, <1>5 DEF B!Cut, Seam
    <2>2. PICK Q \in Seq(Frags) : Q = B!Suffix(fs, i)
      BY ListParts
    <2>3. PICK q \in Bytes : q = B!Content(Q)
      BY ContentType
    <2>4. c = a \o q /\ B!Ends(fs)[i] = Len(a)
      BY <1>1, <1>3, <2>2, <2>3, ListParts
    <2>5. n = Len(a)
      BY <1>4, <1>5, BytesConcat
    <2>6. B!First(a \o q, n) = a /\ B!After(a \o q, n) = q
      BY <2>5, BytesCut
    <2> QED BY <1>1, <1>3, <2>1, <2>2, <2>3, <2>4, <2>5, <2>6
  <1>6. CASE r # 0
    <2>1. i # Len(fs)
      <3>1. i = Len(fs) => n = Len(c) + r
        BY <1>1, <1>2, AtOffset
      <3>2. Len(c) \in Nat
        BY BytesConcat
      <3> QED BY <3>1, <3>2, <1>1, <1>6
    <2>2. PICK f \in Frags, S \in Seq(Frags) : f = fs[i + 1] /\ S = B!Suffix(fs, i + 1)
      BY <2>1, ListAt
    <2>3. PICK d \in Bytes, q \in Bytes : d = f.data /\ q = B!Content(S)
      <3>1. f.data \in Bytes
        BY DEF Frags
      <3>2. B!Content(S) \in Bytes
        BY ContentType
      <3> QED BY <3>1, <3>2
    <2>4. c = a \o (d \o q)
      <3>1. B!Content(fs) = B!Content(B!Prefix(fs, i)) \o B!Content(B!Suffix(fs, i))
        BY ListParts
      <3>2. B!Content(B!Suffix(fs, i)) = fs[i + 1].data \o B!Content(B!Suffix(fs, i + 1))
        BY <2>1, ListAt
      <3> QED BY <3>1, <3>2, <1>1, <1>3, <2>2, <2>3
    <2>5. r < Len(d)
      BY <1>2, <2>1, <2>2, <2>3, AtOffset
    <2>6. r \in 0 .. Len(d)
      BY <2>5, BytesConcat
    <2>7. CutsInside(a, d, q, r, n)
      BY <1>4, <2>6, BytesCutInside
    <2>8. PICK g \in Frags, h \in Frags :
            /\ g = B!SplitFront(f, r) /\ g.data = B!First(d, r)
            /\ h = B!SplitBack(f, r) /\ h.data = B!After(d, r)
      BY <2>3, <2>6, FragmentParts
    <2>9. B!Cut(fs, n) = P \o <<g, h>> \o S /\ Seam(fs, n) = i + 1
      BY <1>2, <1>3, <1>6, <2>2, <2>8 DEF B!Cut, Seam
    <2>10. PICK F \in Seq(Frags) : F = P \o <<g>> /\ Len(F) = i + 1 /\ B!Content(F) = a \o B!First(d, r)
      <3>1. <<g>> \in Seq(Frags) /\ Len(<<g>>) = 1 /\ B!Content(<<g>>) = g.data
        BY ContentOne
      <3>2. P \o <<g>> \in Seq(Frags) /\ B!Content(P \o <<g>>) = B!Content(P) \o B!Content(<<g>>)
        BY <3>1, ContentConcat
      <3>3. Len(P \o <<g>>) = i + 1
        BY <3>1, <1>3, ListJoined
      <3> QED BY <3>1, <3>2, <3>3, <1>3, <2>8
    <2>11. PICK G \in Seq(Frags) : G = <<h>> \o S /\ B!Content(G) = B!After(d, r) \o q
      <3>1. <<h>> \in Seq(Frags) /\ B!Content(<<h>>) = h.data
        BY ContentOne
      <3>2. <<h>> \o S \in Seq(Frags) /\ B!Content(<<h>> \o S) = B!Content(<<h>>) \o B!Content(S)
        BY <3>1, ContentConcat
      <3> QED BY <3>1, <3>2, <2>3, <2>8
    <2>12. P \o <<g, h>> \o S = F \o G
      <3>1. Pairs(P, g, h, S)
        BY ListPair
      <3> QED BY <3>1, <2>10, <2>11 DEF Pairs
    <2>13. B!Prefix(F \o G, i + 1) = F /\ B!Suffix(F \o G, i + 1) = G
      <3>1. B!Prefix(F \o G, Len(F)) = F /\ B!Suffix(F \o G, Len(F)) = G
        BY ListJoined
      <3> QED BY <3>1, <2>10
    <2>14. B!Ends(F \o G)[i + 1] = n
      <3>1. F \o G \in Seq(Frags) /\ Len(F \o G) = Len(F) + Len(G) /\ Len(G) \in Nat
        BY ListJoined
      <3>2. i + 1 \in 0 .. Len(F \o G)
        BY <3>1, <2>10
      <3>3. B!Ends(F \o G)[i + 1] = Len(B!Content(B!Prefix(F \o G, i + 1)))
        BY <3>1, <3>2, ListParts
      <3>4. PICK x \in Bytes : x = B!First(d, r) /\ Len(x) = r
        BY <2>6, BytesParts
      <3>5. Len(a \o x) = Len(a) + Len(x)
        BY BytesConcat
      <3> QED BY <3>3, <3>4, <3>5, <1>4, <2>10, <2>13
    <2> QED BY <1>1, <2>4, <2>7, <2>9, <2>10, <2>11, <2>12, <2>13, <2>14 DEF CutsInside
  <1> QED BY <1>5, <1>6

\* A write that fits.
LEMMA FragmentWritten ==
  ASSUME NEW f \in Frags, NEW s \in Bytes, Len(s) <= f.tail
  PROVE  /\ B!FragmentWrite(f, s) \in Frags
         /\ B!FragmentWrite(f, s).data = f.data \o s
         /\ B!FragmentWrite(f, s).tail = f.tail - Len(s)
  <1>1. /\ f.data \in Bytes /\ f.tail \in Nat /\ f.shared \in BOOLEAN
        /\ f = [data |-> f.data, tail |-> f.tail, shared |-> f.shared]
    BY DEF Frags
  <1>2. PICK l \in Nat, t \in Nat : l = Len(s) /\ t = f.tail /\ l <= t
    BY <1>1, BytesConcat
  <1>3. B!First(s, f.tail) = s
    BY <1>1, BytesAll
  <1>4. B!Least(Len(s), f.tail) = l
    BY <1>2 DEF B!Least
  <1>5. PICK x \in Bytes, k \in Nat : x = f.data \o s /\ k = f.tail - l
    <2>1. f.data \o s \in Bytes
      BY <1>1, BytesConcat
    <2>2. f.tail - l \in Nat
      BY <1>2
    <2> QED BY <2>1, <2>2
  <1>6. B!FragmentWrite(f, s) = [f EXCEPT !.data = x, !.tail = k]
    BY <1>3, <1>4, <1>5 DEF B!FragmentWrite
  <1>7. /\ [f EXCEPT !.data = x, !.tail = k] \in Frags
        /\ [f EXCEPT !.data = x, !.tail = k].data = x
        /\ [f EXCEPT !.data = x, !.tail = k].tail = k
    BY <1>1 DEF Frags
  <1> QED BY <1>2, <1>5, <1>6, <1>7

\* into has room for m bytes of fs, and n bytes with them.
RoomFor(into, fs, m, n) ==
  /\ n = Len(into.data) + m
  /\ m <= Len(B!Content(fs))
  /\ m <= into.tail

\* n bytes are gathered in the first fragment, and no byte is lost.
GathersAll(into, fs, n) ==
  \E g \in Frags, S \in Seq(Frags) :
    /\ B!Gathered(into, fs, n) = <<g>> \o S
    /\ Len(g.data) = n
    /\ g.data \o B!Content(S) = into.data \o B!Content(fs)

\* What coalesce gathers: no byte is lost, and the first fragment has n.
LEMMA GatheredContent ==
  ASSUME NEW into \in Frags, NEW fs \in Seq(Frags), NEW m \in Nat, NEW n \in Nat,
         RoomFor(into, fs, m, n)
  PROVE  \E g \in Frags, S \in Seq(Frags) :
           /\ B!Gathered(into, fs, n) = <<g>> \o S
           /\ Len(g.data) = n
           /\ g.data \o B!Content(S) = into.data \o B!Content(fs)
  <1>1. PICK c \in Bytes, v \in Bytes : c = B!Content(fs) /\ v = into.data
    <2>1. into.data \in Bytes
      BY DEF Frags
    <2> QED BY <2>1, ContentType
  <1>2. PICK i \in 0 .. Len(fs), r \in Nat :
          i = B!Skipped(fs, m) /\ r = B!Remainder(fs, m)
    BY AtOffset
  <1>3. n - B!Size(into) = m
    <2>1. Len(v) \in Nat
      BY BytesConcat
    <2> QED BY <2>1, <1>1 DEF B!Size, RoomFor
  <1>4. PICK P \in Seq(Frags), a \in Bytes : P = B!Prefix(fs, i) /\ a = B!Content(P)
    <2>1. B!Prefix(fs, i) \in Seq(Frags)
      BY ListParts
    <2>2. B!Content(B!Prefix(fs, i)) \in Bytes
      BY <2>1, ContentType
    <2> QED BY <2>1, <2>2
  <1>5. m = Len(a) + r /\ Len(a) \in Nat
    BY <1>2, <1>4, AtOffset, BytesConcat
  <1>6. into.tail \in Nat
    BY DEF Frags
  <1>7. Len(a) <= into.tail
    BY <1>5, <1>6 DEF RoomFor
  <1>8. PICK full \in Frags : /\ full = B!FragmentWrite(into, a)
                              /\ full.data = v \o a
                              /\ full.tail = into.tail - Len(a)
    BY <1>1, <1>7, FragmentWritten
  <1>9. CASE r = 0
    <2>1. PICK Q \in Seq(Frags) : Q = B!Suffix(fs, i)
      BY ListParts
    <2>2. PICK q \in Bytes : q = B!Content(Q)
      BY ContentType
    <2>3. c = a \o q
      BY <1>1, <1>4, <2>1, <2>2, ListParts
    <2>4. B!Gathered(into, fs, n) = <<full>> \o Q
      BY <1>2, <1>3, <1>4, <1>8, <1>9, <2>1 DEF B!Gathered
    <2>5. Len(full.data) = n
      <3>1. Len(v \o a) = Len(v) + Len(a)
        BY BytesConcat
      <3>2. n = Len(v) + m
        BY <1>1 DEF RoomFor
      <3> QED BY <3>1, <3>2, <1>5, <1>8, <1>9
    <2>6. (v \o a) \o q = v \o (a \o q)
      BY BytesAssociative
    <2> QED BY <1>1, <1>8, <2>2, <2>3, <2>4, <2>5, <2>6
  <1>10. CASE r # 0
    <2>1. i # Len(fs)
      <3>1. i = Len(fs) => m = Len(c) + r
        BY <1>1, <1>2, AtOffset
      <3>2. Len(c) \in Nat
        BY BytesConcat
      <3>3. m <= Len(c)
        BY <1>1 DEF RoomFor
      <3> QED BY <3>1, <3>2, <3>3, <1>10
    <2>2. PICK f \in Frags, S \in Seq(Frags) : f = fs[i + 1] /\ S = B!Suffix(fs, i + 1)
      BY <2>1, ListAt
    <2>3. PICK d \in Bytes, q \in Bytes : d = f.data /\ q = B!Content(S)
      <3>1. f.data \in Bytes
        BY DEF Frags
      <3>2. B!Content(S) \in Bytes
        BY ContentType
      <3> QED BY <3>1, <3>2
    <2>4. c = a \o (d \o q)
      <3>1. B!Content(fs) = B!Content(B!Prefix(fs, i)) \o B!Content(B!Suffix(fs, i))
        BY ListParts
      <3>2. B!Content(B!Suffix(fs, i)) = fs[i + 1].data \o B!Content(B!Suffix(fs, i + 1))
        BY <2>1, ListAt
      <3> QED BY <3>1, <3>2, <1>1, <1>4, <2>2, <2>3
    <2>5. r < Len(d)
      BY <1>2, <2>1, <2>2, <2>3, AtOffset
    <2>6. r \in 0 .. Len(d)
      BY <2>5, BytesConcat
    <2>7. PICK x \in Bytes, y \in Bytes :
            x = B!First(d, r) /\ y = B!After(d, r) /\ x \o y = d /\ Len(x) = r
      BY <2>6, BytesParts
    <2>8. Len(x) <= full.tail
      BY <1>5, <1>6, <1>8, <2>7 DEF RoomFor
    <2>9. PICK g \in Frags : g = B!FragmentWrite(full, x) /\ g.data = (v \o a) \o x
      <3>1. /\ B!FragmentWrite(full, x) \in Frags
            /\ B!FragmentWrite(full, x).data = full.data \o x
        BY <2>8, FragmentWritten
      <3> QED BY <3>1, <1>8
    <2>10. PICK h \in Frags : h = B!FragmentSkip(f, r) /\ h.data = y
      BY <2>3, <2>6, <2>7, FragmentParts
    <2>11. B!Gathered(into, fs, n) = <<g, h>> \o S
      BY <1>2, <1>3, <1>4, <1>8, <1>10, <2>2, <2>3, <2>7, <2>9, <2>10 DEF B!Gathered
    <2>12. PICK G \in Seq(Frags) : G = <<h>> \o S /\ B!Content(G) = y \o q
      <3>1. <<h>> \in Seq(Frags) /\ B!Content(<<h>>) = h.data
        BY ContentOne
      <3>2. <<h>> \o S \in Seq(Frags) /\ B!Content(<<h>> \o S) = B!Content(<<h>>) \o B!Content(S)
        BY <3>1, ContentConcat
      <3> QED BY <3>1, <3>2, <2>3, <2>10
    <2>13. <<g, h>> \o S = <<g>> \o G
      <3>1. PICK E \in Seq(Frags) : E = << >>
        BY EmptySeq
      <3>2. Pairs(E, g, h, S)
        BY ListPair
      <3>3. << >> \o <<g, h>> = <<g, h>> /\ << >> \o <<g>> = <<g>>
        OBVIOUS
      <3> QED BY <3>1, <3>2, <3>3, <2>12 DEF Pairs
    <2>14. Len(g.data) = n
      <3>1. v \o a \in Bytes /\ Len(v \o a) = Len(v) + Len(a) /\ Len(v) \in Nat
        BY BytesConcat
      <3>2. Len((v \o a) \o x) = Len(v \o a) + Len(x)
        BY <3>1, BytesConcat
      <3>3. PICK k \in Nat, l \in Nat : k = Len(v) /\ l = Len(a)
        BY <3>1, <1>5
      <3>4. Len(g.data) = (k + l) + r
        BY <3>1, <3>2, <3>3, <2>7, <2>9
      <3>5. n = k + m /\ m = l + r
        BY <3>3, <1>1, <1>5 DEF RoomFor
      <3>6. n = (k + l) + r
        BY <3>5
      <3> QED BY <3>4, <3>6
    <2>15. ((v \o a) \o x) \o (y \o q) = v \o c
      <3>1. PICK u \in Bytes : u = y \o q
        BY BytesConcat
      <3>2. a \o ((x \o y) \o q) = (a \o x) \o (y \o q)
        <4>1. Regroups(a, x, y, q)
          BY BytesFour
        <4> QED BY <4>1 DEF Regroups
      <3>3. v \o ((a \o x) \o u) = (v \o a) \o (x \o u)
        <4>1. Regroups(v, a, x, u)
          BY BytesFour
        <4> QED BY <4>1 DEF Regroups
      <3>4. (v \o a) \in Bytes
        BY BytesConcat
      <3>5. ((v \o a) \o x) \o u = (v \o a) \o (x \o u)
        BY <3>4, BytesAssociative, ZenonT(60)
      <3> QED BY <3>1, <3>2, <3>3, <3>5, <2>4, <2>7
    <2> QED BY <1>1, <2>9, <2>11, <2>12, <2>13, <2>14, <2>15
  <1> QED BY <1>9, <1>10

LEMMA GathersThem ==
  ASSUME NEW into \in Frags, NEW fs \in Seq(Frags), NEW m \in Nat, NEW n \in Nat,
         RoomFor(into, fs, m, n)
  PROVE  GathersAll(into, fs, n)
  BY GatheredContent DEF GathersAll

\* What is asked for beyond the d bytes of the fragment fits behind them, and is there.
LEMMA RoomBehind ==
  ASSUME NEW d \in Nat, NEW r \in Nat, NEW t \in Nat, NEW q \in Nat, NEW m \in Nat, NEW n \in Nat,
         d - r + t >= n, n = d + m, n + r <= d + q
  PROVE  m <= t /\ m <= q
  OBVIOUS

\* The least of two numbers.
LEMMA LeastBounds ==
  ASSUME NEW m \in Nat, NEW n \in Nat
  PROVE  /\ B!Least(m, n) \in Nat /\ B!Least(m, n) <= n
         /\ m > 0 /\ n > 0 => B!Least(m, n) > 0
  BY DEF B!Least

\* coalesce, when it has to move bytes: p is in front of the fragment that the
\* offset is in.
Coalesces(gs, fs, offset, n) ==
  \E p \in Seq(Frags), g \in Frags, S \in Seq(Frags) :
    /\ p = B!Prefix(fs, B!Skipped(fs, offset)) /\ gs = p \o (<<g>> \o S)
    /\ Len(g.data) = n
    /\ B!Content(p) \o (g.data \o B!Content(S)) = B!Content(fs)

\* coalesce keeps the bytes and makes n of them one range, if it does not wrap.
LEMMA CoalescedContent ==
  ASSUME NEW fs \in Seq(Frags), NEW offset \in Nat, NEW n \in Nat, NEW more \in Nat,
         offset < Len(B!Content(fs)), n <= Len(B!Content(fs)) - offset, ~B!Wraps(fs, offset, n)
  PROVE  Coalesces(B!Coalesced(fs, offset, n, more), fs, offset, n)
  <1>1. PICK c \in Bytes : c = B!Content(fs)
    BY ContentType
  <1>2. PICK i \in 0 .. Len(fs), r \in Nat : i = B!Skipped(fs, offset) /\ r = B!Remainder(fs, offset)
    BY AtOffset
  <1>3. i # Len(fs)
    <2>1. i = Len(fs) => Len(c) <= offset
      BY <1>1, <1>2, AtOffset
    <2>2. Len(c) \in Nat
      BY BytesConcat
    <2> QED BY <2>1, <2>2, <1>1
  <1>4. PICK p \in Seq(Frags), a \in Bytes : p = B!Prefix(fs, i) /\ a = B!Content(p) /\ offset = Len(a) + r
    <2>1. B!Prefix(fs, i) \in Seq(Frags)
      BY ListParts
    <2>2. PICK a \in Bytes : a = B!Content(B!Prefix(fs, i))
      BY <2>1, ContentType
    <2> QED BY <1>2, <2>1, <2>2, AtOffset
  <1>5. PICK f \in Frags, S \in Seq(Frags), R \in Seq(Frags) :
          f = fs[i + 1] /\ S = B!Suffix(fs, i + 1) /\ R = B!Suffix(fs, i)
    BY <1>3, ListAt, ListParts
  <1>6. PICK d \in Bytes, q \in Bytes : d = f.data /\ q = B!Content(S)
    <2>1. f.data \in Bytes
      BY DEF Frags
    <2> QED BY <2>1, ContentType
  <1>7. PICK u \in Bytes : u = d \o q /\ c = a \o u /\ B!Content(R) = u
    <2>1. B!Content(fs) = B!Content(B!Prefix(fs, i)) \o B!Content(B!Suffix(fs, i))
      BY ListParts
    <2>2. B!Content(B!Suffix(fs, i)) = fs[i + 1].data \o B!Content(B!Suffix(fs, i + 1))
      BY <1>3, ListAt
    <2>3. PICK u \in Bytes : u = d \o q
      BY BytesConcat
    <2> QED BY <2>1, <2>2, <2>3, <1>1, <1>4, <1>5, <1>6
  <1>8. /\ Len(c) = Len(a) + Len(u) /\ Len(u) = Len(d) + Len(q)
        /\ Len(a) \in Nat /\ Len(d) \in Nat /\ Len(q) \in Nat /\ Len(u) \in Nat
    BY <1>7, BytesConcat
  <1>9. n + r <= Len(u)
    BY <1>1, <1>4, <1>8
  <1>10. f = B!There(fs, offset) /\ f.tail \in Nat /\ B!HeadSize(fs, offset) = Len(d) - r
    BY <1>2, <1>5, <1>6 DEF B!There, B!HeadSize, B!Size, Frags
  <1>11. CASE B!HasRoom(fs, offset, n)
    <2>1. Len(d) - r + f.tail >= n
      BY <1>10, <1>11 DEF B!HasRoom
    <2>2. ~(n < Len(d))
      BY <1>6, <1>10, <1>11 DEF B!Wraps, B!Size
    <2>3. PICK m \in Nat : n = Len(d) + m
      <3>1. n - Len(d) \in Nat /\ n = Len(d) + (n - Len(d))
        BY <1>8, <2>2
      <3> QED BY <3>1
    <2>4. m <= f.tail /\ m <= Len(B!Content(S))
      <3>1. n + r <= Len(d) + Len(q)
        BY <1>8, <1>9
      <3>2. m <= f.tail /\ m <= Len(q)
        <4>1. PICK t \in Nat, x \in Nat, y \in Nat : t = f.tail /\ x = Len(d) /\ y = Len(q)
          BY <1>8, <1>10
        <4>2. x - r + t >= n /\ n = x + m /\ n + r <= x + y
          BY <2>1, <2>3, <3>1, <4>1
        <4> QED BY <4>1, <4>2, RoomBehind
      <3> QED BY <1>6, <3>2
    <2>5. PICK g \in Frags, T \in Seq(Frags) :
            /\ B!Gathered(f, S, n) = <<g>> \o T
            /\ Len(g.data) = n
            /\ g.data \o B!Content(T) = f.data \o B!Content(S)
      <3>1. RoomFor(f, S, m, n)
        BY <1>6, <2>3, <2>4 DEF RoomFor
      <3>2. GathersAll(f, S, n)
        BY <3>1, GathersThem
      <3> QED BY <3>2 DEF GathersAll
    <2>6. B!Coalesced(fs, offset, n, more) = p \o (<<g>> \o T)
      BY <1>2, <1>4, <1>5, <1>10, <1>11, <2>5 DEF B!Coalesced
    <2> QED BY <1>1, <1>2, <1>4, <1>6, <1>7, <2>5, <2>6 DEF Coalesces
  <1>12. CASE ~B!HasRoom(fs, offset, n)
    <2>1. PICK z \in Frags : z = B!Allocated(n, more) /\ z.data = << >> /\ z.tail = n + more
      <3>1. << >> \in Bytes /\ n + more \in Nat
        BY EmptySeq DEF Bytes
      <3>2. B!Allocated(n, more) \in Frags
        BY <3>1 DEF B!Allocated, Frags
      <3> QED BY <3>2 DEF B!Allocated
    <2>2. n = Len(z.data) + n /\ n <= z.tail /\ n <= Len(B!Content(R))
      <3>1. Len(z.data) = 0 /\ n <= z.tail
        BY <2>1
      <3>2. n <= Len(u)
        BY <1>8, <1>9
      <3> QED BY <1>7, <3>1, <3>2
    <2>3. PICK g \in Frags, T \in Seq(Frags) :
            /\ B!Gathered(z, R, n) = <<g>> \o T
            /\ Len(g.data) = n
            /\ g.data \o B!Content(T) = z.data \o B!Content(R)
      <3>1. RoomFor(z, R, n, n)
        BY <2>2 DEF RoomFor
      <3>2. GathersAll(z, R, n)
        BY <3>1, GathersThem
      <3> QED BY <3>2 DEF GathersAll
    <2>4. B!Coalesced(fs, offset, n, more) = p \o (<<g>> \o T)
      BY <1>2, <1>4, <1>5, <1>12, <2>1, <2>3 DEF B!Coalesced
    <2>5. << >> \o u = u
      BY BytesConcat
    <2>6. B!Content(p) \o (g.data \o B!Content(T)) = B!Content(fs)
      BY <1>1, <1>4, <1>7, <2>1, <2>3, <2>5
    <2> QED BY <1>2, <1>4, <2>3, <2>4, <2>6 DEF Coalesces
  <1> QED BY <1>11, <1>12

\* A list from its other end.
LEMMA ReverseList ==
  ASSUME NEW fs \in Seq(Frags)
  PROVE  /\ B!Reverse(fs) \in Seq(Frags)
         /\ Len(B!Reverse(fs)) = Len(fs)
         /\ \A i \in 1 .. Len(fs) : B!Reverse(fs)[i] = fs[Len(fs) - i + 1]
         /\ B!Reverse(B!Reverse(fs)) = fs
  <1>1. PICK n \in Nat : n = Len(fs)
    OBVIOUS
  <1>2. \A i \in 1 .. n : n - i + 1 \in 1 .. n /\ n - (n - i + 1) + 1 = i
    OBVIOUS
  <1>3. \A i \in 1 .. n : fs[n - i + 1] \in Frags
    BY <1>1, <1>2, ElementOfSeq
  <1>4. B!Reverse(fs) = [i \in 1 .. n |-> fs[n - i + 1]]
    BY <1>1 DEF B!Reverse
  <1>5. PICK rs \in Seq(Frags) : rs = [i \in 1 .. n |-> fs[n - i + 1]]
    <2>1. [i \in 1 .. n |-> fs[n - i + 1]] \in Seq(Frags)
      BY <1>3
    <2> QED BY <2>1
  <1>6. Len(rs) = n /\ \A i \in 1 .. n : rs[i] = fs[n - i + 1]
    BY <1>5
  <1>7. B!Reverse(rs) = [i \in 1 .. n |-> rs[n - i + 1]]
    BY <1>6 DEF B!Reverse
  <1>8. \A i \in 1 .. n : rs[n - i + 1] = fs[i]
    BY <1>2, <1>6
  <1>9. [i \in 1 .. n |-> rs[n - i + 1]] = fs
    <2>1. fs \in [1 .. n -> Frags]
      BY <1>1, LenProperties
    <2>2. \A i \in 1 .. n : [k \in 1 .. n |-> rs[n - k + 1]][i] = fs[i]
      BY <1>8
    <2> QED BY <2>1, <2>2
  <1> QED BY <1>1, <1>4, <1>5, <1>6, <1>7, <1>9

LEMMA ReverseConcat ==
  ASSUME NEW fs \in Seq(Frags), NEW gs \in Seq(Frags)
  PROVE  B!Reverse(fs \o gs) = B!Reverse(gs) \o B!Reverse(fs)
  <1>1. PICK m \in Nat, n \in Nat : m = Len(fs) /\ n = Len(gs)
    OBVIOUS
  <1>2. PICK hs \in Seq(Frags) : hs = fs \o gs
    BY ConcatProperties
  <1>3. /\ Len(hs) = m + n
        /\ \A i \in 1 .. m + n : hs[i] = IF i <= m THEN fs[i] ELSE gs[i - m]
    BY <1>1, <1>2, ConcatProperties
  <1>4. PICK x \in Seq(Frags) : /\ x = B!Reverse(fs) /\ Len(x) = m
                                /\ \A i \in 1 .. m : x[i] = fs[m - i + 1]
    BY <1>1, ReverseList
  <1>5. PICK y \in Seq(Frags) : /\ y = B!Reverse(gs) /\ Len(y) = n
                                /\ \A i \in 1 .. n : y[i] = gs[n - i + 1]
    BY <1>1, ReverseList
  <1>6. PICK z \in Seq(Frags) : /\ z = B!Reverse(hs) /\ Len(z) = m + n
                                /\ \A i \in 1 .. m + n : z[i] = hs[(m + n) - i + 1]
    <2>1. /\ B!Reverse(hs) \in Seq(Frags) /\ Len(B!Reverse(hs)) = Len(hs)
          /\ \A i \in 1 .. Len(hs) : B!Reverse(hs)[i] = hs[Len(hs) - i + 1]
      BY ReverseList
    <2> QED BY <2>1, <1>3
  <1>7. PICK w \in Seq(Frags) : w = y \o x
    BY ConcatProperties
  <1>8. /\ Len(w) = n + m
        /\ \A i \in 1 .. n + m : w[i] = IF i <= n THEN y[i] ELSE x[i - n]
    <2>1. /\ Len(y \o x) = Len(y) + Len(x)
          /\ \A i \in 1 .. Len(y) + Len(x) :
               (y \o x)[i] = IF i <= Len(y) THEN y[i] ELSE x[i - Len(y)]
      BY ConcatProperties
    <2> QED BY <2>1, <1>4, <1>5, <1>7
  <1>9. ASSUME NEW i \in 1 .. m + n PROVE z[i] = w[i]
    <2>1. (m + n) - i + 1 \in 1 .. m + n
      OBVIOUS
    <2>2. CASE i <= n
      <3>1. ~((m + n) - i + 1 <= m) /\ (m + n) - i + 1 - m = n - i + 1 /\ i \in 1 .. n
        BY <2>2
      <3>2. z[i] = gs[n - i + 1]
        BY <1>3, <1>6, <2>1, <3>1
      <3> QED BY <1>5, <1>8, <2>2, <3>1, <3>2
    <2>3. CASE ~(i <= n)
      <3>1. (m + n) - i + 1 <= m /\ i - n \in 1 .. m /\ m - (i - n) + 1 = (m + n) - i + 1
        BY <2>3
      <3>2. z[i] = fs[(m + n) - i + 1]
        BY <1>3, <1>6, <2>1, <3>1
      <3>3. w[i] = x[i - n]
        BY <1>8, <2>3
      <3>4. x[i - n] = fs[m - (i - n) + 1]
        BY <1>4, <3>1
      <3> QED BY <3>1, <3>2, <3>3, <3>4
    <2> QED BY <2>2, <2>3
  <1>10. z = w
    <2>1. Len(z) = Len(w) /\ \A i \in 1 .. Len(z) : z[i] = w[i]
      BY <1>6, <1>8, <1>9
    <2> QED BY <2>1, SeqEqual
  <1> QED BY <1>2, <1>4, <1>5, <1>6, <1>7, <1>10

LEMMA ReverseOne ==
  ASSUME NEW f \in Frags
  PROVE  B!Reverse(<<f>>) = <<f>>
  <1>1. PICK fs \in Seq(Frags) : fs = <<f>> /\ Len(fs) = 1
    BY ContentOne
  <1>2. fs[1] = f
    BY <1>1
  <1>3. PICK rs \in Seq(Frags) : rs = B!Reverse(fs)
    BY ReverseList
  <1>4. Len(rs) = 1 /\ rs[1] = fs[1]
    <2>1. /\ Len(B!Reverse(fs)) = Len(fs)
          /\ \A i \in 1 .. Len(fs) : B!Reverse(fs)[i] = fs[Len(fs) - i + 1]
      BY ReverseList
    <2>2. 1 \in 1 .. Len(fs) /\ Len(fs) - 1 + 1 = 1
      BY <1>1
    <2>3. rs[1] = fs[Len(fs) - 1 + 1]
      BY <2>1, <2>2, <1>3
    <2> QED BY <2>1, <2>2, <2>3, <1>1, <1>3
  <1>5. \A i \in 1 .. 1 : i = 1
    OBVIOUS
  <1>6. Len(rs) = Len(fs) /\ \A i \in 1 .. Len(rs) : rs[i] = fs[i]
    BY <1>1, <1>4, <1>5
  <1> QED BY <1>1, <1>3, <1>6, SeqEqual

\* A list has as many bytes from either end.
LEMMA ReverseBytes ==
  ASSUME NEW fs \in Seq(Frags)
  PROVE  Len(B!Content(B!Reverse(fs))) = Len(B!Content(fs))
  <1>1. PICK n \in Nat : n = Len(fs)
    OBVIOUS
  <1>2. PICK rs \in Seq(Frags) : /\ rs = B!Reverse(fs) /\ Len(rs) = n
                                 /\ \A i \in 1 .. n : rs[i] = fs[n - i + 1]
    BY <1>1, ReverseList
  <1>3. /\ \A i \in 0 .. n : B!Ends(fs)[i] \in Nat
        /\ B!Ends(fs)[0] = 0 /\ B!Ends(fs)[n] = Len(B!Content(fs))
        /\ \A i \in 1 .. n : B!Ends(fs)[i] = B!Ends(fs)[i - 1] + B!Size(fs[i])
    BY <1>1, EndsContent
  <1> DEFINE e == [i \in 0 .. n |-> B!Ends(fs)[n] - B!Ends(fs)[n - i]]
  <1>4. \A i \in 0 .. n : e[i] = B!Ends(fs)[n] - B!Ends(fs)[n - i]
    OBVIOUS
  <1>5. \A i \in 0 .. n : n - i \in 0 .. n
    OBVIOUS
  <1>6. e \in [0 .. n -> Int]
    BY <1>3, <1>5
  <1> HIDE DEF e
  <1>7. e[0] = 0 /\ e[n] = Len(B!Content(fs))
    <2>1. n - 0 = n /\ n - n = 0 /\ 0 \in 0 .. n /\ n \in 0 .. n
      OBVIOUS
    <2> QED BY <2>1, <1>3, <1>4
  <1>8. ASSUME NEW i \in 1 .. n PROVE e[i] = e[i - 1] + B!Size(rs[i])
    <2>1. n - i + 1 \in 1 .. n /\ n - (i - 1) = n - i + 1 /\ (n - i + 1) - 1 = n - i
      OBVIOUS
    <2>2. i \in 0 .. n /\ i - 1 \in 0 .. n /\ n - i \in 0 .. n /\ n - i + 1 \in 0 .. n
      BY <2>1
    <2>3. B!Ends(fs)[n - i + 1] = B!Ends(fs)[n - i] + B!Size(fs[n - i + 1])
      BY <2>1, <1>3
    <2>4. B!Size(fs[n - i + 1]) \in Nat
      BY <2>1, <1>1, FragmentType
    <2>5. PICK x \in Nat, y \in Nat, z \in Nat, s \in Nat :
            /\ x = B!Ends(fs)[n - i + 1] /\ y = B!Ends(fs)[n - i] /\ z = B!Ends(fs)[n]
            /\ s = B!Size(fs[n - i + 1])
      <3>1. /\ B!Ends(fs)[n - i + 1] \in Nat
            /\ B!Ends(fs)[n - i] \in Nat
            /\ B!Ends(fs)[n] \in Nat
        BY <2>2, <1>3
      <3> QED BY <3>1, <2>4
    <2>6. e[i] = z - y /\ e[i - 1] = z - x /\ x = y + s /\ rs[i] = fs[n - i + 1]
      BY <2>1, <2>2, <2>3, <2>5, <1>2, <1>4
    <2>7. z - y = (z - x) + s
      BY <2>6
    <2> QED BY <2>5, <2>6, <2>7
  <1>9. Counts(e, rs, Len(rs)) /\ e \in [0 .. Len(rs) -> Int]
    BY <1>2, <1>6, <1>7, <1>8 DEF Counts
  <1>10. B!Ends(rs)[n] = e[n]
    <2>1. \A i \in 0 .. Len(rs) : B!Ends(rs)[i] = e[i]
      BY <1>9, EndsIs
    <2> QED BY <2>1, <1>2
  <1>11. B!Ends(rs)[n] = Len(B!Content(rs))
    BY <1>2, EndsContent
  <1> QED BY <1>2, <1>7, <1>10, <1>11

\* What ignore_bytes_at_end leaves of a list, read from the end.
Left(rs, n) ==
  IF B!Skipped(rs, n) = Len(rs) THEN << >>
  ELSE <<B!FragmentIgnore(rs[B!Skipped(rs, n) + 1], B!Remainder(rs, n))>>
         \o B!Suffix(rs, B!Skipped(rs, n) + 1)

\* ignore_bytes_at_end leaves all but the last n bytes.
LEMMA LeftContent ==
  ASSUME NEW fs \in Seq(Frags), NEW n \in Nat
  PROVE  /\ Left(B!Reverse(fs), n) \in Seq(Frags)
         /\ B!Content(B!Reverse(Left(B!Reverse(fs), n))) = B!Without(B!Content(fs), n)
         /\ Len(B!Without(B!Content(fs), n)) =
              IF B!Skipped(B!Reverse(fs), n) = Len(B!Reverse(fs)) THEN 0
              ELSE Len(B!Content(fs)) - n
  <1>1. PICK c \in Bytes : c = B!Content(fs)
    BY ContentType
  <1>2. PICK rs \in Seq(Frags) : rs = B!Reverse(fs) /\ B!Reverse(rs) = fs
    BY ReverseList
  <1>3. Len(B!Content(rs)) = Len(c)
    BY <1>1, <1>2, ReverseBytes
  <1>4. PICK i \in 0 .. Len(rs), r \in Nat :
          i = B!Skipped(rs, n) /\ r = B!Remainder(rs, n)
    BY AtOffset
  <1>5. CASE i = Len(rs)
    <2>1. Len(c) <= n
      BY <1>3, <1>4, <1>5, AtOffset
    <2>2. B!Without(c, n) = << >>
      BY <2>1, BytesAll
    <2>3. Left(rs, n) = << >> /\ << >> \in Seq(Frags) /\ Len(<< >>) = 0
      BY <1>4, <1>5, EmptySeq DEF Left
    <2>4. B!Reverse(<< >>) = << >>
      <3>1. PICK E \in Seq(Frags) : E = << >>
        BY EmptySeq
      <3>2. B!Reverse(E) \in Seq(Frags) /\ Len(B!Reverse(E)) = 0
        BY <3>1, ReverseList
      <3> QED BY <3>1, <3>2, EmptySeq
    <2> QED BY <2>2, <2>3, <2>4, <1>1, <1>2, <1>4, <1>5, ContentEmpty
  <1>6. CASE i # Len(rs)
    <2>1. PICK f \in Frags, S \in Seq(Frags), P \in Seq(Frags) :
            f = rs[i + 1] /\ S = B!Suffix(rs, i + 1) /\ P = B!Prefix(rs, i)
      <3>1. rs[i + 1] \in Frags /\ B!Suffix(rs, i + 1) \in Seq(Frags)
        BY <1>6, ListAt
      <3>2. B!Prefix(rs, i) \in Seq(Frags)
        BY ListParts
      <3> QED BY <3>1, <3>2
    <2>2. PICK one \in Seq(Frags) : one = <<f>> /\ B!Content(one) = f.data /\ B!Reverse(one) = one
      <3>1. <<f>> \in Seq(Frags) /\ B!Content(<<f>>) = f.data
        BY ContentOne
      <3>2. B!Reverse(<<f>>) = <<f>>
        BY ReverseOne
      <3> QED BY <3>1, <3>2
    <2>3. PICK SS \in Seq(Frags), PP \in Seq(Frags) : SS = B!Reverse(S) /\ PP = B!Reverse(P)
      BY ReverseList
    <2>4. PICK a \in Bytes, d \in Bytes, q \in Bytes :
            a = B!Content(SS) /\ d = f.data /\ q = B!Content(PP)
      <3>1. f.data \in Bytes
        BY DEF Frags
      <3> QED BY <3>1, ContentType
    <2>5. fs = (SS \o one) \o PP
      <3>1. PICK R \in Seq(Frags) : R = one \o S
        BY ConcatProperties
      <3>2. rs = P \o R
        <4>1. rs = B!Prefix(rs, i) \o B!Suffix(rs, i)
          BY ListParts
        <4>2. B!Suffix(rs, i) = <<rs[i + 1]>> \o B!Suffix(rs, i + 1)
          BY <1>6, ListAt
        <4> QED BY <4>1, <4>2, <2>1, <2>2, <3>1
      <3>3. B!Reverse(P \o R) = B!Reverse(R) \o B!Reverse(P)
        BY ReverseConcat
      <3>4. B!Reverse(one \o S) = B!Reverse(S) \o B!Reverse(one)
        BY ReverseConcat
      <3> QED BY <3>1, <3>2, <3>3, <3>4, <1>2, <2>2, <2>3
    <2>6. c = (a \o d) \o q
      <3>1. SS \o one \in Seq(Frags) /\ B!Content(SS \o one) = B!Content(SS) \o B!Content(one)
        BY ContentConcat
      <3>2. B!Content((SS \o one) \o PP) = B!Content(SS \o one) \o B!Content(PP)
        BY <3>1, ContentConcat
      <3> QED BY <3>1, <3>2, <1>1, <2>2, <2>4, <2>5
    <2>7. n = Len(q) + r /\ r < Len(d) /\ n < Len(c)
      <3>1. /\ n = Len(B!Content(P)) + r /\ r < Len(rs[i + 1].data)
            /\ n < Len(B!Content(rs))
        BY <1>4, <1>6, <2>1, AtOffset
      <3>2. Len(B!Content(PP)) = Len(B!Content(P))
        BY <2>3, ReverseBytes
      <3> QED BY <3>1, <3>2, <1>3, <2>1, <2>4
    <2>8. r \in 0 .. Len(d)
      BY <2>7, BytesConcat
    <2>9. DropsInside(a, d, q, r, n)
      BY <2>7, <2>8, BytesWithoutInside
    <2>10. PICK g \in Frags : g = B!FragmentIgnore(f, r) /\ g.data = B!Without(d, r)
      BY <2>4, <2>8, FragmentParts
    <2>11. PICK new \in Seq(Frags) : new = <<g>> /\ B!Content(new) = g.data /\ B!Reverse(new) = new
      <3>1. <<g>> \in Seq(Frags) /\ B!Content(<<g>>) = g.data
        BY ContentOne
      <3>2. B!Reverse(<<g>>) = <<g>>
        BY ReverseOne
      <3> QED BY <3>1, <3>2
    <2>12. Left(rs, n) = new \o S
      BY <1>4, <1>6, <2>1, <2>10, <2>11 DEF Left
    <2>13. new \o S \in Seq(Frags) /\ B!Reverse(new \o S) = SS \o new
      BY <2>3, <2>11, ReverseConcat, ConcatProperties
    <2>14. B!Content(SS \o new) = a \o B!Without(d, r)
      <3>1. B!Content(SS \o new) = B!Content(SS) \o B!Content(new)
        BY ContentConcat
      <3> QED BY <3>1, <2>4, <2>10, <2>11
    <2>15. Len(B!Without(c, n)) = Len(c) - n
      <3>1. n \in 0 .. Len(c)
        BY <2>7, BytesConcat
      <3> QED BY <3>1, BytesParts
    <2> QED BY <1>1, <1>2, <1>4, <1>6, <2>6, <2>9, <2>12, <2>13, <2>14, <2>15 DEF DropsInside
  <1> QED BY <1>5, <1>6

\* Fragments that were emptied.
Emptied(fs) == \A i \in 1 .. Len(fs) : fs[i].data = << >>

\* ignore_bytes_at_end, whether or not it frees what it has passed.
LEMMA IgnoreContent ==
  ASSUME NEW fs \in Seq(Frags), NEW n \in Nat, NEW back \in Seq(Frags), Emptied(back)
  PROVE  /\ B!Reverse(back \o Left(B!Reverse(fs), n)) \in Seq(Frags)
         /\ B!Content(B!Reverse(back \o Left(B!Reverse(fs), n)))
              = B!Without(B!Content(fs), n)
  <1>1. PICK l \in Seq(Frags) : l = Left(B!Reverse(fs), n)
    BY LeftContent
  <1>2. PICK bb \in Seq(Frags), ll \in Seq(Frags) : bb = B!Reverse(back) /\ ll = B!Reverse(l)
    BY ReverseList
  <1>3. B!Reverse(back \o l) = ll \o bb
    BY <1>2, ReverseConcat
  <1>4. B!Content(bb) = << >>
    <2>1. /\ Len(B!Reverse(back)) = Len(back)
          /\ \A i \in 1 .. Len(back) : B!Reverse(back)[i] = back[Len(back) - i + 1]
      BY ReverseList
    <2>2. PICK k \in Nat : k = Len(back)
      OBVIOUS
    <2>3. ASSUME NEW i \in 1 .. Len(bb) PROVE bb[i].data = << >>
      <3>1. i \in 1 .. k /\ k - i + 1 \in 1 .. k
        BY <2>1, <2>2, <1>2
      <3>2. bb[i] = back[k - i + 1]
        BY <2>1, <2>2, <3>1, <1>2
      <3> QED BY <2>2, <3>1, <3>2 DEF Emptied
    <2> QED BY <2>3, ContentDrained
  <1>5. ll \o bb \in Seq(Frags) /\ B!Content(ll \o bb) = B!Content(ll) \o << >>
    BY <1>4, ContentConcat
  <1>6. B!Content(ll) \o << >> = B!Content(ll)
    <2>1. PICK x \in Bytes : x = B!Content(ll)
      BY ContentType
    <2> QED BY <2>1, BytesConcat
  <1>7. B!Content(ll) = B!Without(B!Content(fs), n)
    BY <1>1, <1>2, LeftContent
  <1> QED BY <1>1, <1>3, <1>5, <1>6, <1>7

\* skip_bytes, whether or not it frees what it has passed.
LEMMA SkipContent ==
  ASSUME NEW fs \in Seq(Frags), NEW n \in Nat, NEW front \in Seq(Frags), Emptied(front)
  PROVE  /\ front \o Rest(fs, n) \in Seq(Frags)
         /\ B!Content(front \o Rest(fs, n)) = B!After(B!Content(fs), n)
  <1>1. PICK s \in Seq(Frags) : s = Rest(fs, n)
    BY RestContent
  <1>2. B!Content(front) = << >>
    BY ContentDrained DEF Emptied
  <1>3. front \o s \in Seq(Frags) /\ B!Content(front \o s) = << >> \o B!Content(s)
    BY <1>2, ContentConcat
  <1>4. << >> \o B!Content(s) = B!Content(s)
    <2>1. PICK x \in Bytes : x = B!Content(s)
      BY ContentType
    <2> QED BY <2>1, BytesConcat
  <1> QED BY <1>1, <1>3, <1>4, RestContent

\* The fragments that skip_bytes and ignore_bytes_at_end pass.
LEMMA PassedFragments ==
  ASSUME NEW fs \in Seq(Frags), NEW i \in 0 .. Len(fs)
  PROVE  /\ [j \in 1 .. i |-> B!FragmentSkip(fs[j], B!Size(fs[j]))] \in Seq(Frags)
         /\ Emptied([j \in 1 .. i |-> B!FragmentSkip(fs[j], B!Size(fs[j]))])
         /\ [j \in 1 .. i |-> B!FragmentIgnore(fs[j], B!Size(fs[j]))] \in Seq(Frags)
         /\ Emptied([j \in 1 .. i |-> B!FragmentIgnore(fs[j], B!Size(fs[j]))])
         /\ << >> \in Seq(Frags) /\ Emptied(<< >>)
  <1>1. i \in Nat
    OBVIOUS
  <1>2. ASSUME NEW j \in 1 .. i
        PROVE  /\ B!FragmentSkip(fs[j], B!Size(fs[j])) \in Frags
               /\ B!FragmentSkip(fs[j], B!Size(fs[j])).data = << >>
               /\ B!FragmentIgnore(fs[j], B!Size(fs[j])) \in Frags
               /\ B!FragmentIgnore(fs[j], B!Size(fs[j])).data = << >>
    <2>1. j \in 1 .. Len(fs)
      OBVIOUS
    <2>2. fs[j] \in Frags
      BY <2>1, ElementOfSeq
    <2> QED BY <2>2, FragmentDrained
  <1> DEFINE x == [j \in 1 .. i |-> B!FragmentSkip(fs[j], B!Size(fs[j]))]
             y == [j \in 1 .. i |-> B!FragmentIgnore(fs[j], B!Size(fs[j]))]
  <1>3. x \in Seq(Frags) /\ Len(x) = i
    BY <1>1, <1>2
  <1>4. y \in Seq(Frags) /\ Len(y) = i
    BY <1>1, <1>2
  <1>5. Emptied(x)
    BY <1>2, <1>3 DEF Emptied
  <1>6. Emptied(y)
    BY <1>2, <1>4 DEF Emptied
  <1>7. << >> \in Seq(Frags) /\ Emptied(<< >>)
    <2>1. PICK e \in Seq(Frags) : e = << >> /\ Len(e) = 0
      BY EmptySeq
    <2>2. Emptied(e)
      BY <2>1 DEF Emptied
    <2> QED BY <2>1, <2>2
  <1> QED BY <1>3, <1>4, <1>5, <1>6, <1>7

----------------------------------------------------------------------------
(***************************************************************************)
(* Buffer: the inductive invariant, and one lemma for each operation.      *)
(***************************************************************************)

\* The inductive invariant: what the variables are, and HoldsStream itself,
\* from which the operators' lemmas compute the bytes after every step.
BufferTypes ==
  /\ fragments \in [Buffers -> Seq(Frags)]
  /\ sizes \in [Buffers -> Nat]
  /\ written \in Nat
  /\ stream \in [Buffers -> Bytes]

\* A list and a size that are right for the bytes s.
Holds(fs, z, s) ==
  /\ fs \in Seq(Frags) /\ s \in Bytes
  /\ B!Content(fs) = s /\ z = Len(s)

BufferInv == BufferTypes /\ B!HoldsStream

\* What the invariant says of one buffer.
LEMMA HoldsEach ==
  ASSUME BufferInv, NEW b \in Buffers
  PROVE  Holds(fragments[b], sizes[b], stream[b])
  BY DEF BufferInv, BufferTypes, B!HoldsStream, Holds

\* One buffer changes.
LEMMA OneChanges ==
  ASSUME BufferInv, NEW b \in Buffers, NEW fs, NEW z, NEW s, Holds(fs, z, s),
         fragments' = [fragments EXCEPT ![b] = fs],
         sizes' = [sizes EXCEPT ![b] = z],
         stream' = [stream EXCEPT ![b] = s],
         written' \in Nat
  PROVE  BufferInv'
  <1>1. fs \in Seq(Frags) /\ s \in Bytes /\ z = Len(s) /\ z \in Nat /\ B!Content(fs) = s
    BY BytesConcat DEF Holds
  <1>2. BufferTypes'
    BY <1>1 DEF BufferInv, BufferTypes
  <1>3. ASSUME NEW c \in Buffers
        PROVE  B!Content(fragments'[c]) = stream'[c] /\ sizes'[c] = Len(stream'[c])
    <2>1. CASE c = b
      BY <1>1, <2>1 DEF BufferInv, BufferTypes
    <2>2. CASE c # b
      <3>1. fragments'[c] = fragments[c] /\ sizes'[c] = sizes[c] /\ stream'[c] = stream[c]
        BY <2>2 DEF BufferInv, BufferTypes
      <3> QED BY <3>1 DEF BufferInv, B!HoldsStream
    <2> QED BY <2>1, <2>2
  <1> QED BY <1>2, <1>3 DEF BufferInv, B!HoldsStream

\* Two buffers change.
LEMMA TwoChange ==
  ASSUME BufferInv, NEW b \in Buffers, NEW fs, NEW z, NEW s, Holds(fs, z, s),
         NEW c \in Buffers, c # b, NEW gs, NEW y, NEW t, Holds(gs, y, t),
         fragments' = [fragments EXCEPT ![b] = fs, ![c] = gs],
         sizes' = [sizes EXCEPT ![b] = z, ![c] = y],
         stream' = [stream EXCEPT ![b] = s, ![c] = t],
         written' \in Nat
  PROVE  BufferInv'
  <1>1. fs \in Seq(Frags) /\ s \in Bytes /\ z = Len(s) /\ z \in Nat /\ B!Content(fs) = s
    BY BytesConcat DEF Holds
  <1>2. gs \in Seq(Frags) /\ t \in Bytes /\ y = Len(t) /\ y \in Nat /\ B!Content(gs) = t
    BY BytesConcat DEF Holds
  <1>3. BufferTypes'
    BY <1>1, <1>2 DEF BufferInv, BufferTypes
  <1>4. ASSUME NEW a \in Buffers
        PROVE  B!Content(fragments'[a]) = stream'[a] /\ sizes'[a] = Len(stream'[a])
    <2>1. CASE a = b
      BY <1>1, <2>1 DEF BufferInv, BufferTypes
    <2>2. CASE a = c
      BY <1>2, <2>2 DEF BufferInv, BufferTypes
    <2>3. CASE a # b /\ a # c
      <3>1. fragments'[a] = fragments[a] /\ sizes'[a] = sizes[a] /\ stream'[a] = stream[a]
        BY <2>3 DEF BufferInv, BufferTypes
      <3> QED BY <3>1 DEF BufferInv, B!HoldsStream
    <2> QED BY <2>1, <2>2, <2>3
  <1> QED BY <1>3, <1>4 DEF BufferInv, B!HoldsStream

\* An empty buffer, and two that are joined.
LEMMA HoldsNothing == Holds(<< >>, 0, << >>)
  BY EmptySeq, ContentEmpty DEF Holds, Bytes

LEMMA HoldsJoined ==
  ASSUME NEW fs, NEW z, NEW s, Holds(fs, z, s), NEW gs, NEW y, NEW t, Holds(gs, y, t)
  PROVE  Holds(fs \o gs, z + y, s \o t)
  BY ContentConcat, BytesConcat DEF Holds

LEMMA BufferInitial ==
  ASSUME B!Init
  PROVE  BufferInv
  <1>1. << >> \in Bytes /\ << >> \in Seq(Frags) /\ Len(<< >>) = 0 /\ B!Content(<< >>) = << >>
    BY HoldsNothing, EmptySeq DEF Holds
  <1> QED BY <1>1 DEF B!Init, BufferInv, BufferTypes, B!HoldsStream

\* push_back and push_front.
LEMMA PushBackHolds ==
  ASSUME BufferInv, NEW b \in Buffers, NEW c \in Buffers, B!PushBack(b, c)
  PROVE  BufferInv'
  <1>1. Holds(fragments[b] \o fragments[c], sizes[b] + sizes[c], stream[b] \o stream[c])
    BY HoldsEach, HoldsJoined
  <1>2. /\ c # b /\ written' \in Nat
        /\ fragments' = [fragments EXCEPT ![b] = fragments[b] \o fragments[c], ![c] = << >>]
        /\ sizes' = [sizes EXCEPT ![b] = sizes[b] + sizes[c], ![c] = 0]
        /\ stream' = [stream EXCEPT ![b] = stream[b] \o stream[c], ![c] = << >>]
    BY DEF B!PushBack, BufferInv, BufferTypes
  <1> QED BY <1>1, <1>2, HoldsNothing, TwoChange

LEMMA PushFrontHolds ==
  ASSUME BufferInv, NEW b \in Buffers, NEW c \in Buffers, B!PushFront(b, c)
  PROVE  BufferInv'
  <1>1. Holds(fragments[c] \o fragments[b], sizes[b] + sizes[c], stream[c] \o stream[b])
    <2>1. Holds(fragments[c] \o fragments[b], sizes[c] + sizes[b], stream[c] \o stream[b])
      BY HoldsEach, HoldsJoined
    <2>2. sizes[c] + sizes[b] = sizes[b] + sizes[c]
      BY DEF BufferInv, BufferTypes
    <2> QED BY <2>1, <2>2
  <1>2. /\ c # b /\ written' \in Nat
        /\ fragments' = [fragments EXCEPT ![b] = fragments[c] \o fragments[b], ![c] = << >>]
        /\ sizes' = [sizes EXCEPT ![b] = sizes[b] + sizes[c], ![c] = 0]
        /\ stream' = [stream EXCEPT ![b] = stream[c] \o stream[b], ![c] = << >>]
    BY DEF B!PushFront, BufferInv, BufferTypes
  <1> QED BY <1>1, <1>2, HoldsNothing, TwoChange

\* The destructor.
LEMMA DestroyHolds ==
  ASSUME BufferInv, NEW b \in Buffers, B!Destroy(b)
  PROVE  BufferInv'
  <1>1. /\ written' \in Nat
        /\ fragments' = [fragments EXCEPT ![b] = << >>]
        /\ sizes' = [sizes EXCEPT ![b] = 0]
        /\ stream' = [stream EXCEPT ![b] = << >>]
    BY DEF B!Destroy, BufferInv, BufferTypes
  <1> QED BY <1>1, HoldsNothing, OneChanges

\* One buffer's list changes, and what it holds does not.
LEMMA ListChanges ==
  ASSUME BufferInv, NEW b \in Buffers, NEW fs, fs \in Seq(Frags),
         B!Content(fs) = stream[b],
         fragments' = [fragments EXCEPT ![b] = fs],
         UNCHANGED <<sizes, stream, written>>
  PROVE  BufferInv'
  <1>1. Holds(fs, sizes[b], stream[b])
    BY HoldsEach DEF Holds
  <1>2. /\ sizes' = [sizes EXCEPT ![b] = sizes[b]]
        /\ stream' = [stream EXCEPT ![b] = stream[b]]
        /\ written' \in Nat
    BY DEF BufferInv, BufferTypes
  <1> QED BY <1>1, <1>2, OneChanges

\* One more fragment at the end.
LEMMA ContentAppend ==
  ASSUME NEW fs \in Seq(Frags), NEW f \in Frags
  PROVE  /\ Append(fs, f) \in Seq(Frags)
         /\ B!Content(Append(fs, f)) = B!Content(fs) \o f.data
  <1>1. Append(fs, f) = fs \o <<f>>
    BY AppendIsConcat
  <1>2. <<f>> \in Seq(Frags) /\ B!Content(<<f>>) = f.data
    BY ContentOne
  <1>3. fs \o <<f>> \in Seq(Frags) /\ B!Content(fs \o <<f>>) = B!Content(fs) \o B!Content(<<f>>)
    BY <1>2, ContentConcat
  <1> QED BY <1>1, <1>2, <1>3

\* allocate.
LEMMA AllocateHolds ==
  ASSUME BufferInv, NEW b \in Buffers, NEW n \in Nat, NEW more \in Nat, B!Allocate(b, n, more)
  PROVE  BufferInv'
  <1>1. PICK f \in Frags : f = B!Allocated(n, more) /\ f.data = << >>
    <2>1. << >> \in Bytes /\ n + more \in Nat
      BY EmptySeq DEF Bytes
    <2>2. B!Allocated(n, more) \in Frags
      BY <2>1 DEF B!Allocated, Frags
    <2> QED BY <2>2 DEF B!Allocated
  <1>2. PICK fs \in Seq(Frags), s \in Bytes :
          fs = fragments[b] /\ s = stream[b] /\ B!Content(fs) = s
    BY HoldsEach DEF Holds
  <1>3. /\ Append(fs, f) \in Seq(Frags)
        /\ B!Content(Append(fs, f)) = s \o << >>
    BY <1>1, <1>2, ContentAppend
  <1>4. s \o << >> = s
    BY BytesConcat
  <1>5. /\ fragments' = [fragments EXCEPT ![b] = Append(fs, f)]
        /\ UNCHANGED <<sizes, stream, written>>
    BY <1>1, <1>2 DEF B!Allocate
  <1> QED BY <1>2, <1>3, <1>4, <1>5, ListChanges

\* The next n bytes, as far as there is room for them.
LEMMA FreshBytes ==
  ASSUME NEW w \in Nat, NEW n \in Nat, NEW t \in Nat
  PROVE  /\ [i \in 1 .. n |-> w + i] \in Bytes
         /\ Len([i \in 1 .. n |-> w + i]) = n
         /\ B!First([i \in 1 .. n |-> w + i], t) = [i \in 1 .. B!Least(n, t) |-> w + i]
  <1>1. PICK s \in Bytes : s = [i \in 1 .. n |-> w + i]
    <2>1. [i \in 1 .. n |-> w + i] \in Seq(Nat)
      OBVIOUS
    <2> QED BY <2>1 DEF Bytes
  <1>2. Len(s) = n /\ \A i \in 1 .. n : s[i] = w + i
    BY <1>1
  <1>3. PICK m \in Nat : m = B!Least(n, t) /\ m = B!Least(t, n) /\ m <= n
    BY DEF B!Least
  <1>4. B!First(s, t) = SubSeq(s, 1, m)
    BY <1>2, <1>3 DEF B!First
  <1>5. PICK u \in Bytes : u = [i \in 1 .. m |-> w + i]
    <2>1. [i \in 1 .. m |-> w + i] \in Seq(Nat)
      OBVIOUS
    <2> QED BY <2>1 DEF Bytes
  <1>6. Len(u) = m /\ \A i \in 1 .. m : u[i] = w + i
    BY <1>5
  <1>7. \A i \in 1 .. m : s[i] \in Nat /\ i \in 1 .. n
    BY <1>2, <1>3
  <1>8. /\ SubSeq(s, 1, m) \in Seq(Nat)
        /\ Len(SubSeq(s, 1, m)) = (IF 1 <= m THEN m - 1 + 1 ELSE 0)
        /\ \A i \in 1 .. m - 1 + 1 : SubSeq(s, 1, m)[i] = s[1 + i - 1]
    BY <1>7, SubSeqProperties
  <1>9. PICK v \in Bytes : v = SubSeq(s, 1, m) /\ Len(v) = m /\ \A i \in 1 .. m : v[i] = s[i]
    <2>1. SubSeq(s, 1, m) \in Bytes
      BY <1>8 DEF Bytes
    <2>2. Len(SubSeq(s, 1, m)) = m /\ \A i \in 1 .. m : SubSeq(s, 1, m)[i] = s[i]
      BY <1>8
    <2> QED BY <2>1, <2>2
  <1>10. Len(v) = Len(u) /\ \A i \in 1 .. Len(v) : v[i] = u[i]
    BY <1>2, <1>6, <1>7, <1>9
  <1>11. v = u
    BY <1>10, SeqEqual DEF Bytes
  <1> QED BY <1>1, <1>2, <1>3, <1>4, <1>5, <1>9, <1>11

\* A write into a fragment, whether or not all of it fits.
LEMMA FragmentGrown ==
  ASSUME NEW f \in Frags, NEW s \in Bytes, NEW u \in Bytes, u = B!First(s, f.tail)
  PROVE  /\ B!FragmentWrite(f, s) \in Frags
         /\ B!FragmentWrite(f, s).data = f.data \o u
  <1>1. /\ f.data \in Bytes /\ f.tail \in Nat /\ f.shared \in BOOLEAN
        /\ f = [data |-> f.data, tail |-> f.tail, shared |-> f.shared]
    BY DEF Frags
  <1>2. PICK x \in Bytes, k \in Nat :
          x = f.data \o u /\ k = f.tail - B!Least(Len(s), f.tail)
    <2>1. f.data \o u \in Bytes
      BY <1>1, BytesConcat
    <2>2. Len(s) \in Nat
      BY BytesConcat
    <2>3. f.tail - B!Least(Len(s), f.tail) \in Nat
      BY <1>1, <2>2 DEF B!Least
    <2> QED BY <2>1, <2>3
  <1>3. B!FragmentWrite(f, s) = [f EXCEPT !.data = x, !.tail = k]
    BY <1>2 DEF B!FragmentWrite
  <1>4. /\ [f EXCEPT !.data = x, !.tail = k] \in Frags
        /\ [f EXCEPT !.data = x, !.tail = k].data = x
    BY <1>1 DEF Frags
  <1> QED BY <1>2, <1>3, <1>4

\* The last fragment of a list.
LEMMA LastFragment ==
  ASSUME NEW fs \in Seq(Frags), fs # << >>
  PROVE  /\ B!Last(fs) \in Frags /\ B!Front(fs) \in Seq(Frags)
         /\ B!Content(fs) = B!Content(B!Front(fs)) \o B!Last(fs).data
  <1>1. PICK n \in Nat : n = Len(fs) /\ n # 0
    BY EmptySeq
  <1>2. n - 1 \in 0 .. Len(fs) /\ n - 1 # Len(fs) /\ (n - 1) + 1 = n
    BY <1>1
  <1>3. PICK p \in Seq(Frags), q \in Seq(Frags) : p = B!Prefix(fs, n - 1) /\ q = B!Suffix(fs, n)
    <2>1. B!Prefix(fs, n - 1) \in Seq(Frags)
      BY <1>2, ListParts
    <2>2. B!Suffix(fs, (n - 1) + 1) \in Seq(Frags)
      BY <1>2, ListAt
    <2> QED BY <1>2, <2>1, <2>2
  <1>4. PICK f \in Frags : f = fs[n]
    BY <1>1, ElementOfSeq
  <1>5. B!Content(fs) = B!Content(p) \o (f.data \o B!Content(q))
    <2>1. B!Content(fs) = B!Content(B!Prefix(fs, n - 1)) \o B!Content(B!Suffix(fs, n - 1))
      BY <1>2, ListParts
    <2>2. B!Content(B!Suffix(fs, n - 1))
            = fs[(n - 1) + 1].data \o B!Content(B!Suffix(fs, (n - 1) + 1))
      BY <1>2, ListAt
    <2> QED BY <1>2, <1>3, <1>4, <2>1, <2>2
  <1>6. B!Content(q) = << >>
    <2>1. q = SubSeq(fs, n + 1, n)
      BY <1>1, <1>3 DEF B!Suffix
    <2>2. n + 1 \in Int /\ n \in Int /\ n < n + 1
      OBVIOUS
    <2>3. q = << >>
      BY <2>1, <2>2, SubSeqEmpty
    <2> QED BY <2>3, ContentEmpty
  <1>7. f.data \o << >> = f.data
    <2>1. f.data \in Bytes
      BY DEF Frags
    <2> QED BY <2>1, BytesConcat
  <1>8. B!Last(fs) = f /\ B!Front(fs) = p
    BY <1>1, <1>3, <1>4 DEF B!Last, B!Front, B!Prefix
  <1> QED BY <1>5, <1>6, <1>7, <1>8

\* Write and ReportWritten.
LEMMA ExtendHolds ==
  ASSUME BufferInv, NEW b \in Buffers, NEW n \in Nat, fragments[b] # << >>,
         B!Extend(b, n, B!FragmentWrite(B!Last(fragments[b]), B!Fresh(n)))
  PROVE  BufferInv'
  <1>1. PICK fs \in Seq(Frags), s \in Bytes :
          fs = fragments[b] /\ s = stream[b] /\ B!Content(fs) = s /\ sizes[b] = Len(s)
    BY HoldsEach DEF Holds
  <1>2. PICK f \in Frags, p \in Seq(Frags) :
          f = B!Last(fs) /\ p = B!Front(fs) /\ s = B!Content(p) \o f.data
    BY <1>1, LastFragment
  <1>3. PICK w \in Nat : w = written
    BY DEF BufferInv, BufferTypes
  <1>4. f.tail \in Nat /\ f.data \in Bytes
    BY DEF Frags
  <1>5. PICK m \in Nat : m = B!Least(n, f.tail)
    BY <1>4 DEF B!Least
  <1>6. PICK t \in Bytes, u \in Bytes :
          /\ t = B!Fresh(n) /\ u = B!Fresh(m) /\ Len(u) = m /\ u = B!First(t, f.tail)
    <2>1. B!Fresh(n) = [i \in 1 .. n |-> w + i] /\ B!Fresh(m) = [i \in 1 .. m |-> w + i]
      BY <1>3 DEF B!Fresh
    <2>2. /\ [i \in 1 .. n |-> w + i] \in Bytes
          /\ B!First([i \in 1 .. n |-> w + i], f.tail) = [i \in 1 .. m |-> w + i]
      BY <1>4, <1>5, FreshBytes
    <2>3. [i \in 1 .. m |-> w + i] \in Bytes /\ Len([i \in 1 .. m |-> w + i]) = m
      BY FreshBytes
    <2> QED BY <2>1, <2>2, <2>3
  <1>7. PICK g \in Frags : g = B!FragmentWrite(f, t) /\ g.data = f.data \o u
    <2>1. B!FragmentWrite(f, t) \in Frags /\ B!FragmentWrite(f, t).data = f.data \o u
      BY <1>6, FragmentGrown
    <2> QED BY <2>1
  <1>8. /\ Append(p, g) \in Seq(Frags)
        /\ B!Content(Append(p, g)) = B!Content(p) \o g.data
    BY ContentAppend
  <1>9. B!Content(p) \o (f.data \o u) = s \o u
    <2>1. PICK a \in Bytes : a = B!Content(p)
      BY ContentType
    <2>2. (a \o f.data) \o u = a \o (f.data \o u)
      BY <1>4, BytesAssociative
    <2> QED BY <1>2, <2>1, <2>2
  <1>10. Holds(Append(p, g), sizes[b] + m, s \o u)
    <2>1. s \o u \in Bytes /\ Len(s \o u) = Len(s) + Len(u)
      BY BytesConcat
    <2> QED BY <2>1, <1>1, <1>6, <1>7, <1>8, <1>9 DEF Holds
  <1>11. /\ fragments' = [fragments EXCEPT ![b] = Append(p, g)]
         /\ sizes' = [sizes EXCEPT ![b] = sizes[b] + m]
         /\ stream' = [stream EXCEPT ![b] = s \o u]
         /\ written' = w + m
    BY <1>1, <1>2, <1>3, <1>5, <1>6, <1>7 DEF B!Extend
  <1>12. written' \in Nat
    BY <1>11
  <1> QED BY <1>10, <1>11, <1>12, OneChanges

\* clone.
LEMMA CloneHolds ==
  ASSUME BufferInv, NEW b \in Buffers, NEW c \in Buffers, B!Clone(b, c)
  PROVE  BufferInv'
  <1>1. PICK fs \in Seq(Frags), s \in Bytes :
          fs = fragments[b] /\ s = stream[b] /\ B!Content(fs) = s /\ sizes[b] = Len(s)
    BY HoldsEach DEF Holds
  <1>2. DOMAIN fs = 1 .. Len(fs) /\ Len(fs) \in Nat
    BY LenProperties
  <1>3. ASSUME NEW i \in 1 .. Len(fs)
        PROVE  B!FragmentClone(fs[i]) \in Frags /\ B!FragmentClone(fs[i]).data = fs[i].data
    <2>1. PICK f \in Frags : f = fs[i]
      BY ElementOfSeq
    <2>2. [f EXCEPT !.shared = TRUE] \in Frags /\ [f EXCEPT !.shared = TRUE].data = f.data
      BY DEF Frags
    <2> QED BY <2>1, <2>2 DEF B!FragmentClone
  <1>4. PICK gs \in Seq(Frags) : gs = [i \in 1 .. Len(fs) |-> B!FragmentClone(fs[i])]
    <2>1. [i \in 1 .. Len(fs) |-> B!FragmentClone(fs[i])] \in Seq(Frags)
      BY <1>2, <1>3
    <2> QED BY <2>1
  <1>5. Len(gs) = Len(fs) /\ \A i \in 1 .. Len(fs) : gs[i] = B!FragmentClone(fs[i])
    BY <1>2, <1>4
  <1>6. SameData(fs, gs, Len(fs))
    BY <1>3, <1>5 DEF SameData
  <1>7. B!Content(gs) = s
    BY <1>1, <1>5, <1>6, ContentSame
  <1>8. Holds(gs, sizes[b], s)
    BY <1>1, <1>7 DEF Holds
  <1>9. /\ c # b /\ written' \in Nat
        /\ fragments' = [fragments EXCEPT ![b] = gs, ![c] = gs]
        /\ sizes' = [sizes EXCEPT ![c] = sizes[b]]
        /\ stream' = [stream EXCEPT ![c] = s]
    BY <1>1, <1>2, <1>4 DEF B!Clone, BufferInv, BufferTypes
  <1>10. /\ sizes' = [sizes EXCEPT ![b] = sizes[b], ![c] = sizes[b]]
         /\ stream' = [stream EXCEPT ![b] = s, ![c] = s]
    BY <1>1, <1>9 DEF BufferInv, BufferTypes
  <1>11. PICK z \in Nat, hs \in Seq(Frags), y \in Nat, t \in Bytes :
           /\ z = sizes[b] /\ hs = gs /\ y = z /\ t = s
           /\ Holds(gs, z, s) /\ Holds(hs, y, t)
    BY <1>8 DEF BufferInv, BufferTypes
  <1>12. /\ fragments' = [fragments EXCEPT ![b] = gs, ![c] = hs]
         /\ sizes' = [sizes EXCEPT ![b] = z, ![c] = y]
         /\ stream' = [stream EXCEPT ![b] = s, ![c] = t]
         /\ c # b /\ written' \in Nat /\ Holds(gs, z, s) /\ Holds(hs, y, t)
    BY <1>9, <1>10, <1>11
  <1> QED BY <1>12, TwoChange

\* split.
LEMMA SplitHolds ==
  ASSUME BufferInv, NEW b \in Buffers, NEW c \in Buffers, NEW n \in Nat, B!Split(b, c, n)
  PROVE  BufferInv'
  <1>1. PICK fs \in Seq(Frags), s \in Bytes, z \in Nat :
          fs = fragments[b] /\ s = stream[b] /\ B!Content(fs) = s /\ z = sizes[b] /\ z = Len(s)
    BY HoldsEach DEF Holds, BufferInv, BufferTypes
  <1>2. /\ c # b /\ written' \in Nat
        /\ stream' = [stream EXCEPT ![b] = B!After(s, n), ![c] = B!First(s, n)]
    BY <1>1 DEF B!Split, BufferInv, BufferTypes
  <1>3. CASE z < n
    <2>1. /\ fragments' = [fragments EXCEPT ![b] = << >>, ![c] = fs]
          /\ sizes' = [sizes EXCEPT ![b] = 0, ![c] = z]
      BY <1>1, <1>3 DEF B!Split
    <2>2. B!After(s, n) = << >> /\ B!First(s, n) = s
      BY <1>1, <1>3, BytesAll
    <2>3. Holds(fs, z, s)
      BY <1>1 DEF Holds
    <2>4. stream' = [stream EXCEPT ![b] = << >>, ![c] = s]
      BY <1>2, <2>2
    <2> QED BY <1>2, <2>1, <2>3, <2>4, HoldsNothing, TwoChange
  <1>4. CASE ~(z < n)
    <2>1. n <= Len(B!Content(fs)) /\ n \in 0 .. Len(s)
      BY <1>1, <1>4
    <2>2. PICK F \in Seq(Frags), G \in Seq(Frags) :
            /\ F = B!Prefix(B!Cut(fs, n), Seam(fs, n))
            /\ G = B!Suffix(B!Cut(fs, n), Seam(fs, n))
            /\ B!Content(F) = B!First(s, n)
            /\ B!Content(G) = B!After(s, n)
            /\ B!Ends(B!Cut(fs, n))[Seam(fs, n)] = n
      BY <1>1, <2>1, SplitContent
    <2>3. /\ B!First(s, n) \in Bytes /\ B!After(s, n) \in Bytes
          /\ Len(B!First(s, n)) = n /\ Len(B!After(s, n)) = z - n
      BY <1>1, <2>1, BytesParts
    <2>4. /\ fragments' = [fragments EXCEPT ![b] = G, ![c] = F]
          /\ sizes' = [sizes EXCEPT ![b] = z - n, ![c] = n]
      BY <1>1, <1>4, <2>2 DEF B!Split, Seam
    <2>5. Holds(G, z - n, B!After(s, n)) /\ Holds(F, n, B!First(s, n))
      BY <2>2, <2>3 DEF Holds
    <2> QED BY <1>2, <2>4, <2>5, TwoChange
  <1> QED BY <1>3, <1>4

\* coalesce.
LEMMA CoalesceHolds ==
  ASSUME ~MayWrap, BufferInv, NEW b \in Buffers, NEW n \in Nat, NEW offset \in Nat, NEW more \in Nat,
         B!Coalesce(b, n, offset, more)
  PROVE  BufferInv'
  <1>1. PICK fs \in Seq(Frags), s \in Bytes, z \in Nat :
          fs = fragments[b] /\ s = stream[b] /\ B!Content(fs) = s /\ z = sizes[b] /\ z = Len(s)
    BY HoldsEach DEF Holds, BufferInv, BufferTypes
  <1>2. offset < z
    BY <1>1 DEF B!Coalesce, B!MustCoalesce
  <1>3. PICK m \in Nat : m = B!Asked(b, n, offset) /\ m <= z - offset
    <2>1. PICK k \in Nat : k = z - offset
      BY <1>2
    <2>2. B!Asked(b, n, offset) = B!Least(n, k)
      BY <1>1, <2>1 DEF B!Asked
    <2> QED BY <2>1, <2>2, LeastBounds
  <1>4. ~B!Wraps(fs, offset, m)
    BY <1>1, <1>3 DEF B!Coalesce
  <1>5. PICK p \in Seq(Frags), g \in Frags, S \in Seq(Frags) :
          /\ B!Coalesced(fs, offset, m, more) = p \o (<<g>> \o S)
          /\ B!Content(p) \o (g.data \o B!Content(S)) = B!Content(fs)
    <2>1. Coalesces(B!Coalesced(fs, offset, m, more), fs, offset, m)
      BY <1>1, <1>2, <1>3, <1>4, CoalescedContent
    <2> QED BY <2>1 DEF Coalesces
  <1>6. PICK T \in Seq(Frags) : T = <<g>> \o S /\ B!Content(T) = g.data \o B!Content(S)
    <2>1. <<g>> \in Seq(Frags) /\ B!Content(<<g>>) = g.data
      BY ContentOne
    <2>2. <<g>> \o S \in Seq(Frags) /\ B!Content(<<g>> \o S) = B!Content(<<g>>) \o B!Content(S)
      BY <2>1, ContentConcat
    <2> QED BY <2>1, <2>2
  <1>7. p \o T \in Seq(Frags) /\ B!Content(p \o T) = s
    <2>1. p \o T \in Seq(Frags) /\ B!Content(p \o T) = B!Content(p) \o B!Content(T)
      BY ContentConcat
    <2> QED BY <1>1, <1>5, <1>6, <2>1
  <1>8. /\ fragments' = [fragments EXCEPT ![b] = p \o T]
        /\ UNCHANGED <<sizes, stream, written>>
    BY <1>1, <1>3, <1>4, <1>5, <1>6 DEF B!Coalesce
  <1> QED BY <1>1, <1>7, <1>8, ListChanges

\* skip_bytes.
LEMMA SkipHolds ==
  ASSUME BufferInv, NEW b \in Buffers, NEW n \in Nat, NEW free, B!SkipBytes(b, n, free)
  PROVE  BufferInv'
  <1>1. PICK fs \in Seq(Frags), s \in Bytes, z \in Nat :
          fs = fragments[b] /\ s = stream[b] /\ B!Content(fs) = s /\ z = sizes[b] /\ z = Len(s)
    BY HoldsEach DEF Holds, BufferInv, BufferTypes
  <1>2. PICK i \in 0 .. Len(fs) : i = B!Skipped(fs, n)
    BY AtOffset
  <1> DEFINE passed == [j \in 1 .. i |-> B!FragmentSkip(fs[j], B!Size(fs[j]))]
  <1>3. PICK front \in Seq(Frags) :
          front = (IF free THEN << >> ELSE passed) /\ Emptied(front)
    <2>1. passed \in Seq(Frags) /\ Emptied(passed) /\ << >> \in Seq(Frags) /\ Emptied(<< >>)
      BY PassedFragments
    <2> HIDE DEF passed
    <2> QED BY <2>1
  <1>4. /\ fragments' = [fragments EXCEPT ![b] = front \o Rest(fs, n)]
        /\ sizes' = [sizes EXCEPT ![b] = IF i = Len(fs) THEN 0 ELSE z - n]
        /\ stream' = [stream EXCEPT ![b] = B!After(s, n)]
        /\ written' = written
    BY <1>1, <1>2, <1>3 DEF B!SkipBytes, B!Shrunk, Rest
  <1> HIDE DEF passed
  <1>5. /\ front \o Rest(fs, n) \in Seq(Frags)
        /\ B!Content(front \o Rest(fs, n)) = B!After(s, n)
    <2>1. /\ front \o Rest(fs, n) \in Seq(Frags)
          /\ B!Content(front \o Rest(fs, n)) = B!After(B!Content(fs), n)
      BY <1>3, SkipContent
    <2> QED BY <1>1, <2>1
  <1>6. Len(B!After(s, n)) = IF i = Len(fs) THEN 0 ELSE z - n
    <2>1. Len(B!After(B!Content(fs), n)) =
            IF B!Skipped(fs, n) = Len(fs) THEN 0 ELSE Len(B!Content(fs)) - n
      BY RestContent
    <2> QED BY <1>1, <1>2, <2>1
  <1>7. B!After(s, n) \in Bytes
    BY <1>5, ContentType
  <1>8. Holds(front \o Rest(fs, n), IF i = Len(fs) THEN 0 ELSE z - n, B!After(s, n))
    BY <1>5, <1>6, <1>7 DEF Holds
  <1>9. written' \in Nat
    BY <1>4 DEF BufferInv, BufferTypes
  <1> QED BY <1>4, <1>8, <1>9, OneChanges

\* ignore_bytes_at_end.
LEMMA IgnoreHolds ==
  ASSUME BufferInv, NEW b \in Buffers, NEW n \in Nat, NEW free, B!IgnoreBytesAtEnd(b, n, free)
  PROVE  BufferInv'
  <1>1. PICK fs \in Seq(Frags), s \in Bytes, z \in Nat :
          fs = fragments[b] /\ s = stream[b] /\ B!Content(fs) = s /\ z = sizes[b] /\ z = Len(s)
    BY HoldsEach DEF Holds, BufferInv, BufferTypes
  <1>2. PICK rs \in Seq(Frags) : rs = B!Reverse(fs)
    BY ReverseList
  <1>3. PICK i \in 0 .. Len(rs) : i = B!Skipped(rs, n)
    BY AtOffset
  <1> DEFINE passed == [j \in 1 .. i |-> B!FragmentIgnore(rs[j], B!Size(rs[j]))]
  <1>4. PICK back \in Seq(Frags) :
          back = (IF free THEN << >> ELSE passed) /\ Emptied(back)
    <2>1. passed \in Seq(Frags) /\ Emptied(passed) /\ << >> \in Seq(Frags) /\ Emptied(<< >>)
      BY PassedFragments
    <2> HIDE DEF passed
    <2> QED BY <2>1
  <1>5. /\ fragments' = [fragments EXCEPT ![b] = B!Reverse(back \o Left(rs, n))]
        /\ sizes' = [sizes EXCEPT ![b] = IF i = Len(rs) THEN 0 ELSE z - n]
        /\ stream' = [stream EXCEPT ![b] = B!Without(s, n)]
        /\ written' = written
    BY <1>1, <1>2, <1>3, <1>4 DEF B!IgnoreBytesAtEnd, Left
  <1> HIDE DEF passed
  <1>6. /\ B!Reverse(back \o Left(rs, n)) \in Seq(Frags)
        /\ B!Content(B!Reverse(back \o Left(rs, n))) = B!Without(s, n)
    <2>1. /\ B!Reverse(back \o Left(B!Reverse(fs), n)) \in Seq(Frags)
          /\ B!Content(B!Reverse(back \o Left(B!Reverse(fs), n)))
               = B!Without(B!Content(fs), n)
      BY <1>4, IgnoreContent
    <2> QED BY <1>1, <1>2, <2>1
  <1>7. Len(B!Without(s, n)) = IF i = Len(rs) THEN 0 ELSE z - n
    <2>1. Len(B!Without(B!Content(fs), n)) =
            IF B!Skipped(B!Reverse(fs), n) = Len(B!Reverse(fs)) THEN 0
            ELSE Len(B!Content(fs)) - n
      BY LeftContent
    <2> QED BY <1>1, <1>2, <1>3, <2>1
  <1>8. B!Without(s, n) \in Bytes
    BY <1>6, ContentType
  <1>9. Holds(B!Reverse(back \o Left(rs, n)), IF i = Len(rs) THEN 0 ELSE z - n, B!Without(s, n))
    BY <1>6, <1>7, <1>8 DEF Holds
  <1>10. written' \in Nat
    BY <1>5 DEF BufferInv, BufferTypes
  <1> QED BY <1>5, <1>9, <1>10, OneChanges

\* Every operation keeps the invariant.
LEMMA BufferStep ==
  ASSUME BufferAssumption, ~MayWrap, BufferInv, [B!Next]_B!vars
  PROVE  BufferInv'
  <1>1. CASE UNCHANGED B!vars
    <2>1. UNCHANGED <<fragments, sizes, written, stream>>
      BY <1>1 DEF B!vars
    <2> QED BY <2>1 DEF BufferInv, BufferTypes, B!HoldsStream
  <1>2. CASE B!Next
    <2>1. \A n \in Amounts \cup Rooms \cup Capacities : n \in Nat
      BY DEF BufferAssumption
    <2>2. PICK b \in Buffers :
            \/ \E n \in Capacities, more \in Rooms : B!Allocate(b, n, more)
            \/ \E n \in Amounts : B!Write(b, n)
            \/ \E n \in Amounts : B!ReportWritten(b, n)
            \/ B!Destroy(b)
            \/ \E n, offset \in Amounts, more \in Rooms : B!Coalesce(b, n, offset, more)
            \/ \E n \in Amounts, free \in BOOLEAN : B!SkipBytes(b, n, free)
            \/ \E n \in Amounts, free \in BOOLEAN : B!IgnoreBytesAtEnd(b, n, free)
            \/ \E n \in Amounts : B!DiscardToMark(b, n)
            \/ \E c \in Buffers :
                 \/ B!PushBack(b, c)
                 \/ B!PushFront(b, c)
                 \/ B!Clone(b, c)
                 \/ \E n \in Amounts : B!Split(b, c, n)
                 \/ \E n \in Amounts : B!ConsumeMark(b, c, n)
      BY <1>2 DEF B!Next
    <2>3. ASSUME NEW n \in Amounts PROVE B!Least(n, sizes[b]) \in Nat
      BY <2>1 DEF B!Least, BufferInv, BufferTypes
    <2>4. CASE \E n \in Capacities, more \in Rooms : B!Allocate(b, n, more)
      BY <2>1, <2>4, AllocateHolds
    <2>5. CASE \E n \in Amounts : B!Write(b, n)
      <3>1. PICK n \in Amounts : B!Write(b, n)
        BY <2>5
      <3>2. /\ fragments[b] # << >>
            /\ B!Extend(b, n, B!FragmentWrite(B!Last(fragments[b]), B!Fresh(n)))
        BY <3>1 DEF B!Write
      <3> QED BY <2>1, <3>2, ExtendHolds
    <2>6. CASE \E n \in Amounts : B!ReportWritten(b, n)
      <3>1. PICK n \in Amounts : B!ReportWritten(b, n)
        BY <2>6
      <3>2. /\ fragments[b] # << >>
            /\ B!Extend(b, n, B!FragmentWrite(B!Last(fragments[b]), B!Fresh(n)))
        BY <3>1 DEF B!ReportWritten, B!FragmentRecord
      <3> QED BY <2>1, <3>2, ExtendHolds
    <2>7. CASE B!Destroy(b)
      BY <2>7, DestroyHolds
    <2>8. CASE \E n, offset \in Amounts, more \in Rooms : B!Coalesce(b, n, offset, more)
      BY <2>1, <2>8, CoalesceHolds
    <2>9. CASE \E n \in Amounts, free \in BOOLEAN : B!SkipBytes(b, n, free)
      BY <2>1, <2>9, SkipHolds
    <2>10. CASE \E n \in Amounts, free \in BOOLEAN : B!IgnoreBytesAtEnd(b, n, free)
      BY <2>1, <2>10, IgnoreHolds
    <2>11. CASE \E n \in Amounts : B!DiscardToMark(b, n)
      BY <2>3, <2>11, SkipHolds DEF B!DiscardToMark
    <2>12. ASSUME NEW c \in Buffers,
                  \/ B!PushBack(b, c)
                  \/ B!PushFront(b, c)
                  \/ B!Clone(b, c)
                  \/ \E n \in Amounts : B!Split(b, c, n)
                  \/ \E n \in Amounts : B!ConsumeMark(b, c, n)
           PROVE  BufferInv'
      <3>1. CASE B!PushBack(b, c)
        BY <3>1, PushBackHolds
      <3>2. CASE B!PushFront(b, c)
        BY <3>2, PushFrontHolds
      <3>3. CASE B!Clone(b, c)
        BY <3>3, CloneHolds
      <3>4. CASE \E n \in Amounts : B!Split(b, c, n)
        BY <2>1, <3>4, SplitHolds
      <3>5. CASE \E n \in Amounts : B!ConsumeMark(b, c, n)
        BY <2>3, <3>5, SplitHolds DEF B!ConsumeMark
      <3> QED BY <2>12, <3>1, <3>2, <3>3, <3>4, <3>5
    <2> QED BY <2>2, <2>4, <2>5, <2>6, <2>7, <2>8, <2>9, <2>10, <2>11, <2>12
  <1> QED BY <1>1, <1>2

\* Whatever sizes programs allocate, write, cut, join, skip and ignore, and
\* whatever they coalesce from whatever offset without wrapping the length, the
\* fragments of a buffer hold the bytes it should have, in order, and _size says
\* how many (HoldsStream).  ~MayWrap is what the code does not ensure: where
\* buffer.cpp:135 wraps, coalesce loses bytes (the run coalesce_wraps).
THEOREM BuffersHold ==
  ASSUME BufferAssumption, ~MayWrap
  PROVE  B!Spec => []HoldsStream
  <1>1. B!Init => BufferInv
    BY BufferInitial
  <1>2. BufferInv /\ [B!Next]_B!vars => BufferInv'
    BY BufferStep
  <1>3. BufferInv => HoldsStream
    BY DEF BufferInv, HoldsStream
  <1> QED BY <1>1, <1>2, <1>3, PTL DEF B!Spec
----------------------------------------------------------------------------
(***************************************************************************)
(* Buffer: comparisons.  Byte k of fragment i is byte Ends[i - 1] + k of   *)
(* the list, and every byte of the list is one of a fragment.              *)
(***************************************************************************)

\* Two functions that begin alike and go on alike are alike.
GoAlike(n, g, h) ==
  /\ g[0] = h[0]
  /\ \A i \in 1 .. n : g[i - 1] = h[i - 1] => g[i] = h[i]

\* They agree everywhere: at the least place where they would not, they do.
LEMMA StepsAgree ==
  ASSUME NEW n \in Nat, NEW g, NEW h, GoAlike(n, g, h)
  PROVE  \A i \in 0 .. n : g[i] = h[i]
  <1> DEFINE T == {i \in 0 .. n : g[i] # h[i]}
  <1>1. SUFFICES ASSUME T # {} PROVE FALSE
    OBVIOUS
  <1>2. T \subseteq Nat
    OBVIOUS
  <1>3. PICK m \in T : \A i \in T : m <= i
    <2> HIDE DEF T
    <2> QED BY <1>1, <1>2, LeastLength
  <1>4. m # 0
    BY <1>3 DEF GoAlike
  <1>5. m \in 1 .. n /\ m - 1 \in 0 .. n /\ m - 1 \notin T
    BY <1>3, <1>4
  <1> QED BY <1>3, <1>5 DEF GoAlike

\* The bytes of First and After.
LEMMA BytesAt ==
  ASSUME NEW s \in Bytes, NEW n \in 0 .. Len(s)
  PROVE  /\ \A k \in 1 .. n : B!First(s, n)[k] = s[k]
         /\ \A k \in 1 .. Len(s) - n : B!After(s, n)[k] = s[n + k]
  <1>1. PICK m \in Nat : m = Len(s)
    BY LenProperties DEF Bytes
  <1>2. n \in Nat /\ n <= m /\ B!Least(n, m) = n
    BY <1>1 DEF B!Least
  <1>3. B!First(s, n) = SubSeq(s, 1, n) /\ B!After(s, n) = SubSeq(s, n + 1, m)
    BY <1>1, <1>2 DEF B!First, B!After
  <1>4. \A i \in 1 .. m : s[i] \in Nat
    BY <1>1, ElementOfSeq DEF Bytes
  <1>5. \A k \in 1 .. n - 1 + 1 : SubSeq(s, 1, n)[k] = s[1 + k - 1]
    <2>1. \A i \in 1 .. n : s[i] \in Nat
      BY <1>2, <1>4
    <2> QED BY <2>1, <1>2, SubSeqProperties
  <1>6. \A k \in 1 .. m - (n + 1) + 1 : SubSeq(s, n + 1, m)[k] = s[n + 1 + k - 1]
    <2>1. \A i \in n + 1 .. m : s[i] \in Nat
      BY <1>2, <1>4
    <2>2. n + 1 \in Int /\ m \in Int
      BY <1>2
    <2> QED BY <2>1, <2>2, SubSeqProperties
  <1>7. ASSUME NEW k \in 1 .. n PROVE SubSeq(s, 1, n)[k] = s[k]
    <2>1. k \in 1 .. n - 1 + 1 /\ 1 + k - 1 = k
      BY <1>2
    <2> QED BY <1>5, <2>1
  <1>8. ASSUME NEW k \in 1 .. m - n PROVE SubSeq(s, n + 1, m)[k] = s[n + k]
    <2>1. k \in 1 .. m - (n + 1) + 1 /\ n + 1 + k - 1 = n + k
      BY <1>2
    <2> QED BY <1>6, <2>1
  <1> QED BY <1>1, <1>3, <1>7, <1>8

\* A list around one of its fragments.
Around(fs, i, a, q) ==
  /\ a \in Bytes /\ q \in Bytes
  /\ B!Content(fs) = a \o (fs[i].data \o q)
  /\ Len(a) = B!Ends(fs)[i - 1]

\* Every fragment has such a place.
LEMMA FragmentAround ==
  ASSUME NEW fs \in Seq(Frags), NEW i \in 1 .. Len(fs)
  PROVE  \E a, q : Around(fs, i, a, q)
  <1>1. PICK j \in 0 .. Len(fs) : j # Len(fs) /\ j + 1 = i /\ i - 1 = j
    <2>1. Len(fs) \in Nat
      BY LenProperties
    <2>2. i - 1 \in 0 .. Len(fs) /\ i - 1 # Len(fs) /\ (i - 1) + 1 = i
      BY <2>1
    <2> QED BY <2>2
  <1>2. /\ B!Content(fs) = B!Content(B!Prefix(fs, j)) \o B!Content(B!Suffix(fs, j))
        /\ B!Prefix(fs, j) \in Seq(Frags)
        /\ B!Ends(fs)[j] = Len(B!Content(B!Prefix(fs, j)))
    BY ListParts
  <1>3. /\ B!Suffix(fs, j + 1) \in Seq(Frags)
        /\ B!Content(B!Suffix(fs, j)) = fs[j + 1].data \o B!Content(B!Suffix(fs, j + 1))
    BY <1>1, ListAt
  <1>4. B!Content(B!Prefix(fs, j)) \in Bytes
    BY <1>2, ContentType
  <1>5. B!Content(B!Suffix(fs, j + 1)) \in Bytes
    BY <1>3, ContentType, SMTT(30)
  <1> QED BY <1>1, <1>2, <1>3, <1>4, <1>5 DEF Around

\* Byte k of fragment i, in the list.
LEMMA ByteOfList ==
  ASSUME NEW fs \in Seq(Frags), NEW i \in 1 .. Len(fs), NEW k \in 1 .. Len(fs[i].data)
  PROVE  /\ B!Ends(fs)[i - 1] \in Nat
         /\ B!Ends(fs)[i - 1] + k \in 1 .. Len(B!Content(fs))
         /\ B!Content(fs)[B!Ends(fs)[i - 1] + k] = fs[i].data[k]
  <1>1. PICK a \in Bytes, q \in Bytes, d \in Bytes :
          /\ B!Content(fs) = a \o (d \o q)
          /\ Len(a) = B!Ends(fs)[i - 1] /\ d = fs[i].data
    <2>1. fs[i].data \in Bytes
      BY FragmentType
    <2> QED BY <2>1, FragmentAround DEF Around
  <1>2. PICK l \in Nat, m \in Nat, p \in Nat : l = Len(a) /\ m = Len(d) /\ p = Len(q)
    BY LenProperties DEF Bytes
  <1>3. PICK u \in Bytes : /\ u = d \o q /\ Len(u) = m + p
                           /\ \A j \in 1 .. m : u[j] = d[j]
    <2>1. /\ d \o q \in Bytes /\ Len(d \o q) = Len(d) + Len(q)
          /\ \A j \in 1 .. Len(d) + Len(q) : (d \o q)[j] = IF j <= Len(d) THEN d[j] ELSE q[j - Len(d)]
      BY ConcatProperties DEF Bytes
    <2>2. \A j \in 1 .. m : j \in 1 .. m + p /\ j <= m
      OBVIOUS
    <2> QED BY <1>2, <2>1, <2>2
  <1>4. PICK v \in Bytes : /\ v = a \o u /\ Len(v) = l + (m + p)
                           /\ \A j \in 1 .. l + (m + p) : v[j] = IF j <= l THEN a[j] ELSE u[j - l]
    <2>1. /\ a \o u \in Bytes /\ Len(a \o u) = Len(a) + Len(u)
          /\ \A j \in 1 .. Len(a) + Len(u) : (a \o u)[j] = IF j <= Len(a) THEN a[j] ELSE u[j - Len(a)]
      BY ConcatProperties DEF Bytes
    <2>2. Len(a) + Len(u) = l + (m + p) /\ Len(a) = l
      BY <1>2, <1>3
    <2> QED BY <2>1, <2>2
  <1>5. k \in 1 .. m /\ l + k \in 1 .. l + (m + p) /\ ~(l + k <= l) /\ (l + k) - l = k
    BY <1>1, <1>2, SMTT(30)
  <1>6. v[l + k] = u[k] /\ u[k] = d[k]
    <2>1. v[l + k] = u[(l + k) - l]
      BY <1>4, <1>5
    <2> QED BY <1>3, <1>5, <2>1
  <1> QED BY <1>1, <1>2, <1>3, <1>4, <1>5, <1>6

\* Every byte of the list is one of a fragment.
LEMMA ByteOfFragment ==
  ASSUME NEW fs \in Seq(Frags), NEW p \in 1 .. Len(B!Content(fs))
  PROVE  \E i \in 1 .. Len(fs) : \E k \in 1 .. Len(fs[i].data) :
           /\ B!Ends(fs)[i - 1] \in Nat /\ p = B!Ends(fs)[i - 1] + k
           /\ B!Content(fs)[p] = fs[i].data[k]
  <1>1. PICK n \in Nat, m \in Nat : n = p - 1 /\ m = Len(B!Content(fs)) /\ n < m
    <2>1. Len(B!Content(fs)) \in Nat
      BY ContentType
    <2>2. p - 1 \in Nat /\ p - 1 < Len(B!Content(fs))
      BY <2>1
    <2> QED BY <2>1, <2>2
  <1>2. PICK j \in 0 .. Len(fs), r \in Nat : j = B!Skipped(fs, n) /\ r = B!Remainder(fs, n)
    BY AtOffset
  <1>3. j # Len(fs)
    BY <1>1, <1>2, AtOffset
  <1>4. r < Len(fs[j + 1].data)
    BY <1>2, <1>3, AtOffset
  <1>5. PICK e \in Nat : e = B!Ends(fs)[j]
    BY EndsContent
  <1>6. n = e + r
    BY <1>1, <1>2, <1>5 DEF B!Remainder
  <1>7. PICK i \in 1 .. Len(fs) : i = j + 1 /\ i - 1 = j
    <2>1. Len(fs) \in Nat
      BY LenProperties
    <2>2. j + 1 \in 1 .. Len(fs) /\ (j + 1) - 1 = j
      BY <1>3, <2>1
    <2> QED BY <2>2
  <1>8. PICK k \in 1 .. Len(fs[i].data) : k = r + 1
    <2>1. B!Size(fs[i]) \in Nat /\ B!Size(fs[i]) = Len(fs[i].data)
      BY FragmentType DEF B!Size
    <2>2. r + 1 \in 1 .. Len(fs[i].data)
      BY <1>4, <1>7, <2>1
    <2> QED BY <2>2
  <1>9. p = e + k /\ B!Ends(fs)[i - 1] = e
    <2>1. p \in Int /\ k \in Int
      OBVIOUS
    <2>2. p - 1 = e + r /\ k = r + 1
      BY <1>1, <1>6, <1>8
    <2>3. p = e + k
      BY <2>1, <2>2
    <2> QED BY <1>5, <1>7, <2>3
  <1>10. B!Content(fs)[B!Ends(fs)[i - 1] + k] = fs[i].data[k]
    BY ByteOfList
  <1> QED BY <1>9, <1>10

\* compare with a string.
LEMMA ComparesString ==
  ASSUME NEW fs \in Seq(Frags), NEW s \in Bytes, NEW z, z = Len(B!Content(fs))
  PROVE  B!ComparesEqual(fs, z, s) <=> B!Content(fs) = s
  <1>1. PICK t \in Bytes, n \in Nat, m \in Nat : t = B!Content(fs) /\ n = Len(t) /\ m = Len(s)
    BY ContentType, LenProperties DEF Bytes
  <1>2. DOMAIN fs = 1 .. Len(fs)
    BY LenProperties
  <1>3. ASSUME B!Content(fs) = s PROVE B!ComparesEqual(fs, z, s)
    <2>1. ASSUME NEW i \in 1 .. Len(fs) 
          PROVE  B!Agree(fs[i].data, B!After(s, B!Ends(fs)[i - 1]))
      <3>1. PICK a \in Bytes, q \in Bytes, d \in Bytes :
              s = a \o (d \o q) /\ Len(a) = B!Ends(fs)[i - 1] /\ d = fs[i].data
        <4>1. fs[i].data \in Bytes
          BY FragmentType
        <4> QED BY <1>3, <4>1, FragmentAround DEF Around
      <3>2. PICK l \in Nat, c \in Nat, e \in Nat : l = Len(d) /\ c = Len(q) /\ e = Len(a)
        BY LenProperties DEF Bytes
      <3>3. PICK u \in Bytes : u = d \o q /\ Len(u) = l + c /\ \A j \in 1 .. l : u[j] = d[j]
        <4>1. /\ d \o q \in Bytes /\ Len(d \o q) = Len(d) + Len(q)
              /\ \A j \in 1 .. Len(d) + Len(q) : (d \o q)[j] = IF j <= Len(d) THEN d[j] ELSE q[j - Len(d)]
          BY ConcatProperties DEF Bytes
        <4>2. \A j \in 1 .. l : j \in 1 .. l + c /\ j <= l
          OBVIOUS
        <4> QED BY <3>2, <4>1, <4>2
      <3>4. B!After(a \o u, e) = u
        BY <3>2, BytesCut
      <3>5. B!Agree(d, u)
        <4>1. B!Least(Len(d), Len(u)) = l
          BY <3>2, <3>3 DEF B!Least
        <4> QED BY <3>3, <4>1 DEF B!Agree
      <3> QED BY <3>1, <3>2, <3>3, <3>4, <3>5
    <2> QED BY <1>1, <1>2, <1>3, <2>1 DEF B!ComparesEqual
  <1>4. ASSUME B!ComparesEqual(fs, z, s) PROVE t = s
    <2>1. n = m
      BY <1>1, <1>4 DEF B!ComparesEqual
    <2>2. ASSUME NEW p \in 1 .. n PROVE t[p] = s[p]
      <3>1. PICK i \in 1 .. Len(fs) : \E k \in 1 .. Len(fs[i].data) :
              /\ B!Ends(fs)[i - 1] \in Nat /\ p = B!Ends(fs)[i - 1] + k
              /\ t[p] = fs[i].data[k]
        BY <1>1, ByteOfFragment
      <3>2. PICK d \in Bytes, l \in Nat, e \in Nat :
              d = fs[i].data /\ l = Len(d) /\ e = B!Ends(fs)[i - 1]
        BY <3>1, FragmentType, LenProperties DEF Bytes
      <3>3. PICK k \in 1 .. l : p = e + k /\ t[p] = d[k]
        BY <3>1, <3>2
      <3>4. e < m /\ e \in 0 .. m /\ k \in 1 .. m - e
        BY <2>1, <3>3
      <3>5. B!Agree(d, B!After(s, e))
        <4>1. B!Ends(fs)[i - 1] < Len(s) => B!Agree(fs[i].data, B!After(s, B!Ends(fs)[i - 1]))
          BY <1>2, <1>4 DEF B!ComparesEqual
        <4> QED BY <1>1, <3>2, <3>4, <4>1
      <3>6. Len(B!After(s, e)) = m - e
        BY <1>1, <3>4, BytesParts
      <3>7. k \in 1 .. B!Least(Len(d), Len(B!After(s, e)))
        BY <3>2, <3>4, <3>6 DEF B!Least
      <3>8. d[k] = B!After(s, e)[k]
        BY <3>5, <3>7 DEF B!Agree
      <3>9. B!After(s, e)[k] = s[e + k]
        BY <1>1, <3>4, BytesAt
      <3> QED BY <3>3, <3>8, <3>9
    <2> QED BY <1>1, <2>1, <2>2, SeqEqual DEF Bytes
  <1> QED BY <1>1, <1>3, <1>4

\* compare with another fragment string.
LEMMA ComparesStrings ==
  ASSUME NEW fs \in Seq(Frags), NEW gs \in Seq(Frags), B!Content(fs) = B!Content(gs), NEW z
  PROVE  B!ComparesEqualTo(fs, z, gs, z)
  <1>1. PICK m \in Nat, n \in Nat : m = Len(fs) /\ n = Len(gs)
    BY LenProperties
  <1>2. PICK c \in Nat : c = B!Least(m, n) /\ c <= m /\ c <= n
    BY DEF B!Least
  <1>3. ASSUME NEW i \in 1 .. c,
               \A j \in {k \in 1 .. c : B!Size(fs[k]) # B!Size(gs[k])} : i <= j
        PROVE  B!Agree(fs[i].data, gs[i].data)
    <2>1. \A j \in 1 .. i - 1 : B!Size(fs[j]) = B!Size(gs[j])
      <3>1. ASSUME NEW j \in 1 .. i - 1, B!Size(fs[j]) # B!Size(gs[j]) PROVE FALSE
        <4>1. j \in 1 .. c /\ ~(i <= j)
          BY <1>3
        <4> QED BY <1>3, <3>1, <4>1
      <3> QED BY <3>1
    <2>2. PICK g, h : g = B!Ends(fs) /\ h = B!Ends(gs)
      OBVIOUS
    <2>3. PICK l \in Nat : l = i - 1 /\ l <= m /\ l <= n
      BY <1>2
    <2>4. \A j \in 1 .. l : g[j] = g[j - 1] + B!Size(fs[j])
      <3>1. \A j \in 1 .. Len(fs) : B!Ends(fs)[j] = B!Ends(fs)[j - 1] + B!Size(fs[j])
        BY EndsContent
      <3>2. \A j \in 1 .. l : j \in 1 .. m
        BY <2>3
      <3> QED BY <1>1, <2>2, <3>1, <3>2
    <2>5. \A j \in 1 .. l : h[j] = h[j - 1] + B!Size(gs[j])
      <3>1. \A j \in 1 .. Len(gs) : B!Ends(gs)[j] = B!Ends(gs)[j - 1] + B!Size(gs[j])
        BY EndsContent
      <3>2. \A j \in 1 .. l : j \in 1 .. n
        BY <2>3
      <3> QED BY <1>1, <2>2, <3>1, <3>2
    <2>6. g[0] = h[0]
      <3>1. B!Ends(fs)[0] = 0
        BY EndsContent
      <3>2. B!Ends(gs)[0] = 0
        BY EndsContent
      <3> QED BY <2>2, <3>1, <3>2
    <2>7. \A j \in 1 .. l : g[j - 1] = h[j - 1] => g[j] = h[j]
      <3>1. ASSUME NEW j \in 1 .. l, g[j - 1] = h[j - 1] PROVE g[j] = h[j]
        <4>1. j \in 1 .. i - 1
          BY <2>3
        <4>2. B!Size(fs[j]) = B!Size(gs[j])
          BY <2>1, <4>1
        <4>3. g[j] = g[j - 1] + B!Size(fs[j])
          BY <2>4
        <4>4. h[j] = h[j - 1] + B!Size(gs[j])
          BY <2>5
        <4> QED BY <3>1, <4>2, <4>3, <4>4
      <3> QED BY <3>1
    <2>8. \A j \in 0 .. l : g[j] = h[j]
      <3>1. GoAlike(l, g, h)
        BY <2>6, <2>7 DEF GoAlike
      <3> QED BY <3>1, StepsAgree
    <2>9. g[i - 1] = h[i - 1]
      BY <2>3, <2>8
    <2>10. i \in 1 .. Len(fs) /\ i \in 1 .. Len(gs)
      BY <1>1, <1>2
    <2>11. ASSUME NEW k \in 1 .. B!Least(Len(fs[i].data), Len(gs[i].data))
           PROVE  fs[i].data[k] = gs[i].data[k]
      <3>1. Len(fs[i].data) \in Nat
        BY <2>10, FragmentType DEF B!Size
      <3>2. Len(gs[i].data) \in Nat
        BY <2>10, FragmentType DEF B!Size
      <3>3. k \in 1 .. Len(fs[i].data) /\ k \in 1 .. Len(gs[i].data)
        BY <2>11, <3>1, <3>2 DEF B!Least
      <3>4. B!Content(fs)[B!Ends(fs)[i - 1] + k] = fs[i].data[k]
        BY <2>10, <3>3, ByteOfList
      <3>5. B!Content(gs)[B!Ends(gs)[i - 1] + k] = gs[i].data[k]
        BY <2>10, <3>3, ByteOfList
      <3> QED BY <2>2, <2>9, <3>4, <3>5
    <2> QED BY <2>11 DEF B!Agree
  <1> QED BY <1>1, <1>2, <1>3 DEF B!ComparesEqualTo

\* The inductive invariant implies ComparesBytes.
LEMMA BuffersCompare ==
  ASSUME BufferInv PROVE B!ComparesBytes
  <1>1. ASSUME NEW b \in Buffers, NEW c \in Buffers
        PROVE  /\ B!ComparesEqual(fragments[b], sizes[b], stream[c]) <=> stream[b] = stream[c]
               /\ stream[b] = stream[c] =>
                    B!ComparesEqualTo(fragments[b], sizes[b], fragments[c], sizes[c])
    <2>1. PICK fs, s, z :
            /\ fs = fragments[b] /\ s = stream[b] /\ z = sizes[b] /\ B!Content(fs) = s
            /\ z = Len(s) /\ fs \in Seq(Frags) /\ s \in Bytes
      BY HoldsEach DEF Holds
    <2>2. PICK gs, t, y :
            /\ gs = fragments[c] /\ t = stream[c] /\ y = sizes[c] /\ B!Content(gs) = t
            /\ y = Len(t) /\ gs \in Seq(Frags) /\ t \in Bytes
      BY HoldsEach DEF Holds
    <2>3. B!ComparesEqual(fs, z, t) <=> B!Content(fs) = t
      BY <2>1, <2>2, ComparesString
    <2>4. ASSUME s = t PROVE B!ComparesEqualTo(fs, z, gs, y)
      BY <2>1, <2>2, <2>4, ComparesStrings
    <2> QED BY <2>1, <2>2, <2>3, <2>4
  <1> QED BY <1>1 DEF B!ComparesBytes

\* A fragment string equals a string exactly if it has its bytes, and two with
\* the same bytes are equal however they are cut (fragment_string::compare), as
\* long as no call of coalesce has wrapped its length.
THEOREM BuffersEqual ==
  ASSUME BufferAssumption, ~MayWrap
  PROVE  B!Spec => []ComparesBytes
  <1>1. B!Init => BufferInv
    BY BufferInitial
  <1>2. BufferInv /\ [B!Next]_B!vars => BufferInv'
    BY BufferStep
  <1>3. BufferInv => ComparesBytes
    BY BuffersCompare DEF ComparesBytes
  <1> QED BY <1>1, <1>2, <1>3, PTL DEF B!Spec

----------------------------------------------------------------------------
(***************************************************************************)
(* Buffer: readers.  A reader at an offset has a list of fragments before  *)
(* it (Views); read, the searches and fill_readable_iovec are recursive    *)
(* functions over that list, which are shown to be defined and to compute  *)
(* what they would for one contiguous range.                               *)
(***************************************************************************)

\* gs is what a reader at offset n has before it: the rest of the fragment
\* where skip_offset stops, and the others.
Views(gs, fs, n) ==
  /\ Len(gs) = Len(fs) - B!Skipped(fs, n) /\ Len(gs) > 0
  /\ \A k \in 1 .. Len(gs) :
       gs[k].data = B!After(fs[B!Skipped(fs, n) + k].data,
                            IF k = 1 THEN B!Remainder(fs, n) ELSE 0)
  /\ B!Content(gs) = B!After(B!Content(fs), n)
  /\ Len(gs[1].data) > 0

\* Behind the first 0 bytes there are all.
LEMMA BytesBehind ==
  ASSUME NEW s \in Bytes
  PROVE  B!After(s, 0) = s /\ B!First(s, 0) = << >>
  <1>1. PICK e \in Bytes : e = << >> /\ Len(e) = 0
    BY EmptySeq DEF Bytes
  <1>2. e \o s = s
    BY <1>1, BytesConcat
  <1>3. B!First(e \o s, 0) = e /\ B!After(e \o s, 0) = s
    BY <1>1, BytesCut
  <1> QED BY <1>1, <1>2, <1>3

\* A reader before the end has such a list.
LEMMA ViewAt ==
  ASSUME NEW fs \in Seq(Frags), NEW n \in Nat, n < Len(B!Content(fs))
  PROVE  \E gs \in Seq(Frags) : Views(gs, fs, n)
  <1>1. PICK i \in 0 .. Len(fs), r \in Nat : i = B!Skipped(fs, n) /\ r = B!Remainder(fs, n)
    BY AtOffset
  <1>2. PICK l \in Nat : l = Len(fs)
    BY LenProperties
  <1>3. i # Len(fs)
    <2>1. i = Len(fs) => Len(B!Content(fs)) <= n
      BY <1>1, AtOffset
    <2>2. Len(B!Content(fs)) \in Nat
      BY ContentType
    <2> QED BY <2>1, <2>2
  <1>4. PICK f \in Frags, S \in Seq(Frags) : f = fs[i + 1] /\ S = B!Suffix(fs, i + 1)
    BY <1>3, ListAt
  <1>5. f.data \in Bytes /\ Len(f.data) \in Nat
    BY LenProperties DEF Frags, Bytes
  <1>6. r < Len(f.data)
    BY <1>1, <1>3, <1>4, AtOffset
  <1>7. r \in 0 .. Len(f.data)
    BY <1>5, <1>6
  <1>8. PICK g \in Frags : g = B!FragmentSkip(f, r) /\ g.data = B!After(f.data, r)
    BY <1>7, FragmentParts
  <1>9. PICK gs \in Seq(Frags) : gs = <<g>> \o S /\ gs = Rest(fs, n)
    <2>1. Rest(fs, n) = <<g>> \o S
      BY <1>1, <1>3, <1>4, <1>8 DEF Rest
    <2>2. Rest(fs, n) \in Seq(Frags)
      BY RestContent
    <2> QED BY <2>1, <2>2
  <1>10. B!Content(gs) = B!After(B!Content(fs), n)
    BY <1>9, RestContent
  <1>11. /\ Len(S) = l - (i + 1)
         /\ \A k \in 1 .. l - (i + 1) : S[k] = fs[(i + 1) + k]
    <2>1. i + 1 \in 0 .. Len(fs)
      BY <1>3, ListAt
    <2>2. /\ Len(B!Suffix(fs, i + 1)) = Len(fs) - (i + 1)
          /\ \A k \in 1 .. Len(fs) - (i + 1) : B!Suffix(fs, i + 1)[k] = fs[(i + 1) + k]
      BY <2>1, ListParts
    <2> QED BY <1>2, <1>4, <2>2
  <1>12. /\ Len(gs) = 1 + Len(S)
         /\ \A k \in 1 .. 1 + Len(S) : gs[k] = IF k <= 1 THEN <<g>>[k] ELSE S[k - 1]
    <2>1. <<g>> \in Seq(Frags) /\ Len(<<g>>) = 1
      BY ContentOne
    <2>2. /\ Len(<<g>> \o S) = Len(<<g>>) + Len(S)
          /\ \A k \in 1 .. Len(<<g>>) + Len(S) :
               (<<g>> \o S)[k] = IF k <= Len(<<g>>) THEN <<g>>[k] ELSE S[k - Len(<<g>>)]
      BY <2>1, ConcatProperties
    <2> QED BY <1>9, <2>1, <2>2
  <1>13. Len(gs) = l - i /\ l - i > 0
    BY <1>2, <1>3, <1>11, <1>12
  <1>14. gs[1] = g
    BY <1>2, <1>3, <1>11, <1>12
  <1>15. Len(g.data) > 0
    <2>1. Len(B!After(f.data, r)) = Len(f.data) - r
      BY <1>5, <1>7, BytesParts
    <2> QED BY <1>5, <1>6, <1>8, <2>1
  <1>16. ASSUME NEW k \in 1 .. Len(gs)
         PROVE  gs[k].data = B!After(fs[i + k].data, IF k = 1 THEN r ELSE 0)
    <2>1. CASE k = 1
      BY <1>4, <1>8, <1>14, <2>1
    <2>2. CASE k # 1
      <3>1. k - 1 \in 1 .. l - (i + 1) /\ (i + 1) + (k - 1) = i + k /\ ~(k <= 1)
        BY <1>13, <1>2, <2>2
      <3>2. k \in 1 .. 1 + Len(S)
        BY <1>12
      <3>3. gs[k] = S[k - 1]
        BY <1>12, <3>1, <3>2
      <3>4. S[k - 1] = fs[(i + 1) + (k - 1)]
        BY <1>11, <3>1
      <3>5. gs[k] = fs[i + k]
        BY <3>1, <3>3, <3>4
      <3>6. gs[k].data \in Bytes
        BY FragmentType
      <3>7. B!After(gs[k].data, 0) = gs[k].data
        BY <3>6, BytesBehind
      <3> QED BY <2>2, <3>5, <3>7
    <2> QED BY <2>1, <2>2
  <1>17. Views(gs, fs, n)
    BY <1>1, <1>2, <1>10, <1>13, <1>14, <1>15, <1>16 DEF Views
  <1> QED BY <1>17

\* The first n of the bytes of two sequences.
LEMMA FirstConcat ==
  ASSUME NEW s \in Bytes, NEW d \in Bytes, NEW n \in Nat
  PROVE  /\ B!First(s, n) \in Bytes
         /\ n - Len(B!First(s, n)) \in Nat
         /\ B!First(s \o d, n) = B!First(s, n) \o B!First(d, n - Len(B!First(s, n)))
  <1>1. PICK l \in Nat, m \in Nat : l = Len(s) /\ m = Len(d)
    BY LenProperties DEF Bytes
  <1>2. s \o d \in Bytes /\ Len(s \o d) = l + m
    BY <1>1, BytesConcat
  <1>3. CASE n <= l
    <2>1. n \in 0 .. Len(s)
      BY <1>1, <1>3
    <2>2. PICK u \in Bytes, v \in Bytes : u = B!First(s, n) /\ u \o v = s /\ Len(u) = n
      <3>1. /\ B!First(s, n) \in Bytes /\ B!After(s, n) \in Bytes
            /\ B!First(s, n) \o B!After(s, n) = s /\ Len(B!First(s, n)) = n
        BY <2>1, BytesParts
      <3> QED BY <3>1
    <2>3. v \o d \in Bytes
      BY BytesConcat
    <2>4. s \o d = u \o (v \o d)
      <3>1. (u \o v) \o d = u \o (v \o d)
        BY BytesAssociative
      <3> QED BY <2>2, <3>1
    <2>5. B!First(u \o (v \o d), n) = u
      BY <2>2, <2>3, BytesCut
    <2>6. B!First(d, 0) = << >> /\ u \o << >> = u /\ n - Len(u) = 0
      BY <2>2, BytesBehind, BytesConcat
    <2>7. B!First(d, n - Len(B!First(s, n))) = << >>
      BY <2>2, <2>6
    <2>8. B!First(s, n) \in Bytes /\ n - Len(B!First(s, n)) \in Nat
      BY <2>2, <2>6
    <2>9. B!First(s \o d, n) = u
      BY <2>4, <2>5
    <2> QED BY <2>2, <2>6, <2>7, <2>8, <2>9
  <1>4. CASE l < n
    <2>1. B!First(s, n) = s
      BY <1>1, <1>4, BytesAll
    <2>2. PICK c \in Nat : c = n - l
      BY <1>4
    <2>3. CASE c <= m
      <3>1. c \in 0 .. Len(d)
        BY <1>1, <2>3
      <3>2. PICK u \in Bytes, v \in Bytes : u = B!First(d, c) /\ u \o v = d /\ Len(u) = c
        <4>1. /\ B!First(d, c) \in Bytes /\ B!After(d, c) \in Bytes
              /\ B!First(d, c) \o B!After(d, c) = d /\ Len(B!First(d, c)) = c
          BY <3>1, BytesParts
        <4> QED BY <4>1
      <3>3. s \o u \in Bytes /\ Len(s \o u) = l + c
        <4>1. s \o u \in Bytes /\ Len(s \o u) = Len(s) + Len(u)
          BY BytesConcat
        <4> QED BY <1>1, <3>2, <4>1
      <3>4. s \o d = (s \o u) \o v
        <4>1. (s \o u) \o v = s \o (u \o v)
          BY BytesAssociative
        <4> QED BY <3>2, <4>1
      <3>5. n = l + c
        BY <2>2, <1>4
      <3>6. B!First((s \o u) \o v, n) = s \o u
        BY <3>3, <3>5, BytesCut
      <3> QED BY <1>1, <2>1, <2>2, <3>2, <3>4, <3>6
    <2>4. CASE m < c
      <3>1. B!First(d, c) = d
        BY <1>1, <2>4, BytesAll
      <3>2. Len(s \o d) <= n
        BY <1>2, <2>2, <2>4, <1>4
      <3>3. B!First(s \o d, n) = s \o d
        BY <1>2, <3>2, BytesAll
      <3> QED BY <1>1, <2>1, <2>2, <3>1, <3>3
    <2> QED BY <2>3, <2>4
  <1> QED BY <1>3, <1>4

\* h is what Read computes, fragment by fragment, from fragment i + 1 on.
Reads(h, fs, n, i, r) ==
  h = [k \in 0 .. Len(fs) - i |->
         IF k = 0 THEN << >>
         ELSE h[k - 1] \o B!FragmentRead(fs[i + k], n - Len(h[k - 1]),
                                         IF k = 1 THEN r ELSE 0)]

\* Read is the last value of such a function.
LEMMA ReadIsLast ==
  ASSUME NEW fs, NEW n, NEW offset, NEW i, NEW r,
         i = B!Skipped(fs, offset), r = B!Remainder(fs, offset),
         \E h : Reads(h, fs, n, i, r)
  PROVE  \E h : Reads(h, fs, n, i, r) /\ B!Read(fs, n, offset) = h[Len(fs) - i]
  <1> DEFINE g == CHOOSE h : Reads(h, fs, n, i, r)
  <1>1. Reads(g, fs, n, i, r)
    OBVIOUS
  <1>2. B!Read(fs, n, offset) = g[Len(fs) - i]
    BY DEF B!Read, Reads
  <1> QED BY <1>1, <1>2

\* What that says of each number of fragments.
Takes(h, gs, n) ==
  /\ h[0] = << >>
  /\ \A k \in 1 .. Len(gs) : h[k] = h[k - 1] \o B!First(gs[k].data, n - Len(h[k - 1]))

\* It takes from each fragment of the view what is still missing.
LEMMA ReadsTakes ==
  ASSUME NEW fs \in Seq(Frags), NEW offset \in Nat, NEW n \in Nat, NEW gs \in Seq(Frags),
         Views(gs, fs, offset), NEW h,
         Reads(h, fs, n, B!Skipped(fs, offset), B!Remainder(fs, offset))
  PROVE  Takes(h, gs, n)
  <1>1. PICK i, r : i = B!Skipped(fs, offset) /\ r = B!Remainder(fs, offset)
    OBVIOUS
  <1>2. PICK m \in Nat : m = Len(gs) /\ m = Len(fs) - i
    BY <1>1, LenProperties DEF Views
  <1> DEFINE D == 0 .. m
             v(k) == IF k = 0 THEN << >>
                     ELSE h[k - 1] \o B!FragmentRead(fs[i + k], n - Len(h[k - 1]),
                                                     IF k = 1 THEN r ELSE 0)
  <1>3. h = [k \in D |-> v(k)]
    BY <1>1, <1>2 DEF Reads
  <1>4. \A k \in D : h[k] = v(k)
    <2> HIDE DEF D, v
    <2> QED BY <1>3
  <1>5. 0 \in D /\ \A k \in 1 .. m : k \in D /\ k # 0
    OBVIOUS
  <1>6. h[0] = << >>
    BY <1>4, <1>5
  <1>7. ASSUME NEW k \in 1 .. m
        PROVE  h[k] = h[k - 1] \o B!First(gs[k].data, n - Len(h[k - 1]))
    <2>1. h[k] = h[k - 1] \o B!FragmentRead(fs[i + k], n - Len(h[k - 1]), IF k = 1 THEN r ELSE 0)
      BY <1>4, <1>5
    <2>2. gs[k].data = B!After(fs[i + k].data, IF k = 1 THEN r ELSE 0)
      BY <1>1, <1>2 DEF Views
    <2> QED BY <2>1, <2>2 DEF B!FragmentRead
  <1> QED BY <1>2, <1>6, <1>7 DEF Takes

\* The converse.
LEMMA TakesReads ==
  ASSUME NEW fs \in Seq(Frags), NEW offset \in Nat, NEW n \in Nat, NEW gs \in Seq(Frags),
         Views(gs, fs, offset), NEW h \in [0 .. Len(gs) -> Bytes], Takes(h, gs, n)
  PROVE  Reads(h, fs, n, B!Skipped(fs, offset), B!Remainder(fs, offset))
  <1>1. PICK i, r : i = B!Skipped(fs, offset) /\ r = B!Remainder(fs, offset)
    OBVIOUS
  <1>2. PICK m \in Nat : m = Len(gs) /\ m = Len(fs) - i
    BY <1>1, LenProperties DEF Views
  <1> DEFINE v(k) == IF k = 0 THEN << >>
                     ELSE h[k - 1] \o B!FragmentRead(fs[i + k], n - Len(h[k - 1]),
                                                     IF k = 1 THEN r ELSE 0)
             w == [k \in 0 .. m |-> v(k)]
  <1>3. ASSUME NEW k \in 0 .. m PROVE h[k] = v(k)
    <2>1. CASE k = 0
      <3>1. h[0] = << >>
        BY DEF Takes
      <3> QED BY <2>1, <3>1
    <2>2. CASE k # 0
      <3>1. k \in 1 .. Len(gs)
        BY <1>2, <2>2
      <3>2. gs[k].data = B!After(fs[i + k].data, IF k = 1 THEN r ELSE 0)
        BY <1>1, <3>1 DEF Views
      <3>3. h[k] = h[k - 1] \o B!First(gs[k].data, n - Len(h[k - 1]))
        BY <3>1 DEF Takes
      <3> QED BY <2>2, <3>2, <3>3 DEF B!FragmentRead
    <2> QED BY <2>1, <2>2
  <1>4. h = w
    <2> HIDE DEF v
    <2> QED BY <1>2, <1>3
  <1> QED BY <1>1, <1>2, <1>4 DEF Reads

\* read returns the first n bytes behind the offset, however they are cut.
LEMMA ReadIs ==
  ASSUME NEW fs \in Seq(Frags), NEW offset \in Nat, NEW n \in Nat,
         offset < Len(B!Content(fs))
  PROVE  B!Read(fs, n, offset) = B!First(B!After(B!Content(fs), offset), n)
  <1>1. PICK gs \in Seq(Frags) : Views(gs, fs, offset)
    BY ViewAt
  <1>2. PICK m \in Nat : m = Len(gs)
    BY LenProperties
  <1>3. PICK g \in [0 .. m -> Bytes] : Grows(g, gs, m)
    BY <1>2, GrowsExists
  <1> DEFINE h == [k \in 0 .. m |-> B!First(g[k], n)]
  <1>4. \A k \in 0 .. m : h[k] = B!First(g[k], n) /\ g[k] \in Bytes
    BY <1>3
  <1>5. \A k \in 0 .. m : h[k] \in Bytes
    <2>1. ASSUME NEW k \in 0 .. m PROVE B!First(g[k], n) \in Bytes
      BY <1>4, FirstConcat
    <2> QED BY <1>4, <2>1
  <1>6. h \in [0 .. Len(gs) -> Bytes]
    BY <1>2, <1>5
  <1> HIDE DEF h
  <1>7. h[0] = << >>
    <2>1. h[0] = B!First(g[0], n) /\ g[0] = << >>
      BY <1>3, <1>4 DEF Grows
    <2>2. PICK e \in Bytes : e = << >> /\ Len(e) <= n
      <3>1. << >> \in Bytes /\ Len(<< >>) = 0
        BY EmptySeq DEF Bytes
      <3>2. 0 <= n
        OBVIOUS
      <3> QED BY <3>1, <3>2
    <2>3. B!First(e, n) = e
      BY <2>2, BytesAll
    <2> QED BY <2>1, <2>2, <2>3
  <1>8. ASSUME NEW k \in 1 .. m
        PROVE  h[k] = h[k - 1] \o B!First(gs[k].data, n - Len(h[k - 1]))
    <2>1. k \in 0 .. m /\ k - 1 \in 0 .. m /\ k \in 1 .. Len(gs)
      BY <1>2
    <2>2. PICK s \in Bytes, d \in Bytes : s = g[k - 1] /\ d = gs[k].data
      BY <1>4, <2>1, FragmentType
    <2>3. g[k] = s \o d
      BY <1>3, <2>2 DEF Grows
    <2>4. h[k] = B!First(s \o d, n) /\ h[k - 1] = B!First(s, n)
      BY <1>4, <2>1, <2>2, <2>3
    <2>5. B!First(s \o d, n) = B!First(s, n) \o B!First(d, n - Len(B!First(s, n)))
      BY FirstConcat
    <2> QED BY <2>2, <2>4, <2>5
  <1>9. Takes(h, gs, n)
    BY <1>2, <1>7, <1>8 DEF Takes
  <1>10. Reads(h, fs, n, B!Skipped(fs, offset), B!Remainder(fs, offset))
    BY <1>1, <1>6, <1>9, TakesReads
  <1>11. PICK f : /\ Reads(f, fs, n, B!Skipped(fs, offset), B!Remainder(fs, offset))
                  /\ B!Read(fs, n, offset) = f[Len(fs) - B!Skipped(fs, offset)]
    BY <1>10, ReadIsLast
  <1>12. Takes(f, gs, n)
    BY <1>1, <1>11, ReadsTakes
  <1>13. GoAlike(m, f, h)
    <2>1. f[0] = h[0]
      BY <1>9, <1>12 DEF Takes
    <2>2. ASSUME NEW k \in 1 .. m, f[k - 1] = h[k - 1] PROVE f[k] = h[k]
      <3>1. f[k] = f[k - 1] \o B!First(gs[k].data, n - Len(f[k - 1]))
        BY <1>2, <1>12 DEF Takes
      <3> QED BY <1>8, <2>2, <3>1
    <2> QED BY <2>1, <2>2 DEF GoAlike
  <1>14. f[m] = h[m]
    <2>1. \A k \in 0 .. m : f[k] = h[k]
      BY <1>13, StepsAgree
    <2> QED BY <2>1
  <1>15. m = Len(fs) - B!Skipped(fs, offset)
    BY <1>1, <1>2 DEF Views
  <1>16. B!Content(gs) = g[m]
    BY <1>2, <1>3, ContentIs
  <1>17. h[m] = B!First(g[m], n)
    BY <1>4
  <1> QED BY <1>1, <1>11, <1>14, <1>15, <1>16, <1>17 DEF Views

\* Reading s stops after k bytes: none of them is in stop, the next one is.
Stops(s, stop, k) ==
  /\ k \in 0 .. Len(s)
  /\ \A i \in 1 .. k : s[i] \notin stop
  /\ k < Len(s) => s[k + 1] \in stop

\* RunLength is where reading stops.
LEMMA RunLengthIs ==
  ASSUME NEW s \in Bytes, NEW stop
  PROVE  Stops(s, stop, B!RunLength(s, stop))
  <1>1. PICK l \in Nat : l = Len(s)
    BY LenProperties DEF Bytes
  <1> DEFINE P == {k \in 0 .. Len(s) : \A i \in 1 .. k : s[i] \notin stop}
             T == {l - k : k \in P}
  <1>2. 0 \in P
    BY <1>1
  <1>3. T \subseteq Nat /\ T # {}
    BY <1>1, <1>2
  <1>4. PICK m \in T : \A k \in T : m <= k
    <2> HIDE DEF T
    <2> QED BY <1>3, LeastLength
  <1>5. PICK j \in P : m = l - j
    BY <1>4
  <1>6. ASSUME NEW k \in P PROVE k <= j
    <2>1. l - k \in T
      OBVIOUS
    <2>2. l - j <= l - k
      BY <1>4, <1>5, <2>1
    <2> QED BY <1>1, <2>2
  <1>7. B!RunLength(s, stop) = CHOOSE k \in P : \A i \in P : i <= k
    BY DEF B!RunLength
  <1>8. B!RunLength(s, stop) \in P /\ \A i \in P : i <= B!RunLength(s, stop)
    <2> HIDE DEF P
    <2> QED BY <1>6, <1>7
  <1>9. PICK k \in 0 .. l : k = B!RunLength(s, stop) /\ \A i \in 1 .. k : s[i] \notin stop
    BY <1>1, <1>8
  <1>10. ASSUME k < l, s[k + 1] \notin stop PROVE FALSE
    <2>1. k + 1 \in 0 .. Len(s)
      BY <1>1, <1>10
    <2>2. \A i \in 1 .. k + 1 : s[i] \notin stop
      <3>1. ASSUME NEW i \in 1 .. k + 1 PROVE s[i] \notin stop
        <4>1. i \in 1 .. k \/ i = k + 1
          OBVIOUS
        <4> QED BY <1>9, <1>10, <4>1
      <3> QED BY <3>1
    <2>3. k + 1 \in P
      BY <2>1, <2>2
    <2>4. k + 1 <= k
      BY <1>8, <1>9, <2>3
    <2> QED BY <2>4
  <1> QED BY <1>1, <1>9, <1>10 DEF Stops

\* There is one such place.
LEMMA StopsOnce ==
  ASSUME NEW s \in Bytes, NEW stop, NEW j, NEW k, Stops(s, stop, j), Stops(s, stop, k)
  PROVE  j = k
  <1>1. PICK l \in Nat : l = Len(s)
    BY LenProperties DEF Bytes
  <1>2. j \in 0 .. l /\ k \in 0 .. l
    BY <1>1 DEF Stops
  <1>3. ASSUME j < k PROVE FALSE
    <2>1. j + 1 \in 1 .. k /\ j < l
      BY <1>2, <1>3
    <2> QED BY <1>1, <2>1 DEF Stops
  <1>4. ASSUME k < j PROVE FALSE
    <2>1. k + 1 \in 1 .. j /\ k < l
      BY <1>2, <1>4
    <2> QED BY <1>1, <2>1 DEF Stops
  <1> QED BY <1>2, <1>3, <1>4

\* The search in d goes on in t only if d has no byte where it stops.
LEMMA RunLengthConcat ==
  ASSUME NEW d \in Bytes, NEW t \in Bytes, NEW stop
  PROVE  B!RunLength(d \o t, stop) =
           IF B!RunLength(d, stop) < Len(d) THEN B!RunLength(d, stop)
           ELSE B!RunLength(d, stop) + B!RunLength(t, stop)
  <1>1. PICK l \in Nat, m \in Nat : l = Len(d) /\ m = Len(t)
    BY LenProperties DEF Bytes
  <1>2. PICK u \in Bytes : /\ u = d \o t /\ Len(u) = l + m
                           /\ \A i \in 1 .. l + m : u[i] = IF i <= l THEN d[i] ELSE t[i - l]
    <2>1. /\ d \o t \in Bytes /\ Len(d \o t) = Len(d) + Len(t)
          /\ \A i \in 1 .. Len(d) + Len(t) : (d \o t)[i] = IF i <= Len(d) THEN d[i] ELSE t[i - Len(d)]
      BY ConcatProperties DEF Bytes
    <2> QED BY <1>1, <2>1
  <1>3. PICK j \in 0 .. l : /\ j = B!RunLength(d, stop)
                            /\ \A i \in 1 .. j : d[i] \notin stop
                            /\ j < l => d[j + 1] \in stop
    BY <1>1, RunLengthIs DEF Stops
  <1>4. PICK c \in 0 .. m : /\ c = B!RunLength(t, stop)
                            /\ \A i \in 1 .. c : t[i] \notin stop
                            /\ c < m => t[c + 1] \in stop
    BY <1>1, RunLengthIs DEF Stops
  <1>5. Stops(u, stop, B!RunLength(u, stop))
    BY RunLengthIs
  <1>6. CASE j < l
    <2>1. ASSUME NEW i \in 1 .. j PROVE u[i] \notin stop
      <3>1. i \in 1 .. l + m /\ i <= l
        BY <1>6
      <3>2. u[i] = d[i]
        BY <1>2, <3>1
      <3> QED BY <1>3, <3>2
    <2>2. u[j + 1] \in stop
      <3>1. j + 1 \in 1 .. l + m /\ j + 1 <= l
        BY <1>6
      <3>2. u[j + 1] = d[j + 1]
        BY <1>2, <3>1
      <3> QED BY <1>3, <1>6, <3>2
    <2>3. j \in 0 .. Len(u)
      BY <1>2, <1>6
    <2>4. Stops(u, stop, j)
      BY <2>1, <2>2, <2>3 DEF Stops
    <2>5. B!RunLength(u, stop) = j
      BY <1>5, <2>4, StopsOnce
    <2> QED BY <1>1, <1>2, <1>3, <1>6, <2>5
  <1>7. CASE j = l
    <2>1. ASSUME NEW i \in 1 .. l + c PROVE u[i] \notin stop
      <3>1. i \in 1 .. l + m
        OBVIOUS
      <3>2. CASE i <= l
        <4>1. u[i] = d[i] /\ i \in 1 .. j
          BY <1>2, <1>7, <3>1, <3>2
        <4> QED BY <1>3, <4>1
      <3>3. CASE ~(i <= l)
        <4>1. u[i] = t[i - l] /\ i - l \in 1 .. c
          BY <1>2, <3>1, <3>3
        <4> QED BY <1>4, <4>1
      <3> QED BY <3>2, <3>3
    <2>2. ASSUME l + c < Len(u) PROVE u[(l + c) + 1] \in stop
      <3>1. (l + c) + 1 \in 1 .. l + m /\ ~((l + c) + 1 <= l) /\ ((l + c) + 1) - l = c + 1 /\ c < m
        BY <1>2, <2>2
      <3>2. u[(l + c) + 1] = t[((l + c) + 1) - l]
        BY <1>2, <3>1
      <3> QED BY <1>4, <3>1, <3>2
    <2>3. l + c \in 0 .. Len(u)
      BY <1>2
    <2>4. Stops(u, stop, l + c)
      BY <2>1, <2>2, <2>3 DEF Stops
    <2>5. B!RunLength(u, stop) = l + c
      BY <1>5, <2>4, StopsOnce
    <2> QED BY <1>1, <1>2, <1>3, <1>4, <1>7, <2>5
  <1>8. j < l \/ j = l
    OBVIOUS
  <1> QED BY <1>6, <1>7, <1>8

\* Two functions that end alike and go back alike are alike.
GoBackAlike(a, b, g, h) ==
  /\ g[b] = h[b]
  /\ \A j \in a .. b - 1 : g[j + 1] = h[j + 1] => g[j] = h[j]

\* They agree everywhere: at the last place where they would not, they do.
LEMMA StepsBackAgree ==
  ASSUME NEW a \in Int, NEW b \in Int, NEW g, NEW h, GoBackAlike(a, b, g, h)
  PROVE  \A j \in a .. b : g[j] = h[j]
  <1> DEFINE T == {b - j : j \in {i \in a .. b : g[i] # h[i]}}
  <1>1. SUFFICES ASSUME NEW j \in a .. b, g[j] # h[j] PROVE FALSE
    OBVIOUS
  <1>2. T \subseteq Nat
    OBVIOUS
  <1>3. T # {}
    BY <1>1
  <1>4. PICK m \in T : \A i \in T : m <= i
    <2> HIDE DEF T
    <2> QED BY <1>2, <1>3, LeastLength
  <1>5. PICK i \in a .. b : m = b - i /\ g[i] # h[i]
    BY <1>4
  <1>6. i # b
    BY <1>5 DEF GoBackAlike
  <1>7. i \in a .. b - 1 /\ i + 1 \in a .. b
    BY <1>6
  <1>8. g[i + 1] # h[i + 1]
    BY <1>5, <1>7 DEF GoBackAlike
  <1>9. b - (i + 1) \in T
    BY <1>7, <1>8
  <1>10. b - i <= b - (i + 1)
    BY <1>4, <1>5, <1>9
  <1> QED BY <1>10

\* How far the search gets from a fragment with bytes d, if it gets rest
\* further behind it.
Through(d, stop, rest) ==
  IF B!RunLength(d, stop) < Len(d) THEN B!RunLength(d, stop)
  ELSE B!RunLength(d, stop) + rest

\* h is what SkipUntil computes, from fragment i + 1 on.
Searches(h, fs, stop, i, r) ==
  h = [j \in i + 1 .. Len(fs) + 1 |->
         IF j > Len(fs) THEN 0
         ELSE Through(B!After(fs[j].data, IF j = i + 1 THEN r ELSE 0), stop, h[j + 1])]

\* SkipUntil is the first value of such a function.
LEMMA SkipUntilIsFirst ==
  ASSUME NEW fs, NEW stop, NEW offset, NEW i, NEW r,
         i = B!Skipped(fs, offset), r = B!Remainder(fs, offset),
         \E h : Searches(h, fs, stop, i, r)
  PROVE  \E h : Searches(h, fs, stop, i, r) /\ B!SkipUntil(fs, stop, offset) = h[i + 1]
  <1> DEFINE g == CHOOSE h : Searches(h, fs, stop, i, r)
  <1>1. Searches(g, fs, stop, i, r)
    OBVIOUS
  <1>2. B!SkipUntil(fs, stop, offset) = g[i + 1]
    BY DEF B!SkipUntil, Searches, Through
  <1> QED BY <1>1, <1>2

\* What that says of each fragment.
Finds(h, gs, stop, i, l) ==
  /\ h[l + 1] = 0
  /\ \A j \in i + 1 .. l : h[j] = Through(gs[j - i].data, stop, h[j + 1])

\* It goes through the fragments of the view.
LEMMA SearchesFinds ==
  ASSUME NEW fs \in Seq(Frags), NEW offset \in Nat, NEW stop, NEW gs \in Seq(Frags),
         Views(gs, fs, offset), NEW i \in Nat, NEW l \in Nat,
         i = B!Skipped(fs, offset), l = Len(fs), i < l, NEW h,
         Searches(h, fs, stop, i, B!Remainder(fs, offset))
  PROVE  Finds(h, gs, stop, i, l)
  <1>1. PICK r : r = B!Remainder(fs, offset)
    OBVIOUS
  <1>2. Len(gs) = l - i
    BY DEF Views
  <1> DEFINE D == i + 1 .. l + 1
             v(j) == IF j > l THEN 0
                     ELSE Through(B!After(fs[j].data, IF j = i + 1 THEN r ELSE 0), stop, h[j + 1])
  <1>3. h = [j \in D |-> v(j)]
    BY <1>1 DEF Searches
  <1>4. \A j \in D : h[j] = v(j)
    <2> HIDE DEF D, v
    <2> QED BY <1>3
  <1>5. l + 1 \in D /\ l + 1 > l /\ \A j \in i + 1 .. l : j \in D /\ ~(j > l)
    OBVIOUS
  <1>6. h[l + 1] = 0
    BY <1>4, <1>5
  <1>7. ASSUME NEW j \in i + 1 .. l PROVE h[j] = Through(gs[j - i].data, stop, h[j + 1])
    <2>1. h[j] = Through(B!After(fs[j].data, IF j = i + 1 THEN r ELSE 0), stop, h[j + 1])
      BY <1>4, <1>5
    <2>2. PICK k \in 1 .. Len(gs) : k = j - i /\ i + k = j /\ (k = 1 <=> j = i + 1)
      <3>1. j - i \in 1 .. l - i /\ i + (j - i) = j /\ (j - i = 1 <=> j = i + 1)
        OBVIOUS
      <3> QED BY <1>2, <3>1
    <2>3. gs[k].data = B!After(fs[i + k].data, IF k = 1 THEN r ELSE 0)
      BY <1>1 DEF Views
    <2>4. gs[k].data = B!After(fs[j].data, IF j = i + 1 THEN r ELSE 0)
      <3>1. CASE k = 1
        BY <2>2, <2>3, <3>1
      <3>2. CASE k # 1
        BY <2>2, <2>3, <3>2
      <3> QED BY <3>1, <3>2
    <2> QED BY <2>1, <2>2, <2>4
  <1> QED BY <1>6, <1>7 DEF Finds

\* The converse.
LEMMA FindsSearches ==
  ASSUME NEW fs \in Seq(Frags), NEW offset \in Nat, NEW stop, NEW gs \in Seq(Frags),
         Views(gs, fs, offset), NEW i \in Nat, NEW l \in Nat,
         i = B!Skipped(fs, offset), l = Len(fs), i < l,
         NEW h \in [i + 1 .. l + 1 -> Nat], Finds(h, gs, stop, i, l)
  PROVE  Searches(h, fs, stop, i, B!Remainder(fs, offset))
  <1>1. PICK r : r = B!Remainder(fs, offset)
    OBVIOUS
  <1>2. Len(gs) = l - i
    BY DEF Views
  <1> DEFINE v(j) == IF j > l THEN 0
                     ELSE Through(B!After(fs[j].data, IF j = i + 1 THEN r ELSE 0), stop, h[j + 1])
             w == [j \in i + 1 .. l + 1 |-> v(j)]
  <1>3. ASSUME NEW j \in i + 1 .. l + 1 PROVE h[j] = v(j)
    <2>1. CASE j > l
      <3>1. j = l + 1
        BY <2>1
      <3>2. h[l + 1] = 0
        BY DEF Finds
      <3> QED BY <2>1, <3>1, <3>2
    <2>2. CASE ~(j > l)
      <3>1. j \in i + 1 .. l
        BY <2>2
      <3>2. h[j] = Through(gs[j - i].data, stop, h[j + 1])
        BY <3>1 DEF Finds
      <3>3. PICK k \in 1 .. Len(gs) : k = j - i /\ i + k = j /\ (k = 1 <=> j = i + 1)
        <4>1. j - i \in 1 .. l - i /\ i + (j - i) = j /\ (j - i = 1 <=> j = i + 1)
          BY <3>1
        <4> QED BY <1>2, <4>1
      <3>4. gs[k].data = B!After(fs[i + k].data, IF k = 1 THEN r ELSE 0)
        BY <1>1 DEF Views
      <3>5. gs[k].data = B!After(fs[j].data, IF j = i + 1 THEN r ELSE 0)
        <4>1. CASE k = 1
          BY <3>3, <3>4, <4>1
        <4>2. CASE k # 1
          BY <3>3, <3>4, <4>2
        <4> QED BY <4>1, <4>2
      <3> QED BY <2>2, <3>2, <3>3, <3>5
    <2> QED BY <2>1, <2>2
  <1>4. h = w
    <2> HIDE DEF v
    <2> QED BY <1>3
  <1> QED BY <1>1, <1>4 DEF Searches

\* The searches stop where they would in one contiguous range.
LEMMA SkipUntilIs ==
  ASSUME NEW fs \in Seq(Frags), NEW offset \in Nat, NEW stop,
         offset < Len(B!Content(fs))
  PROVE  Stops(B!After(B!Content(fs), offset), stop, B!SkipUntil(fs, stop, offset))
  <1>1. PICK gs \in Seq(Frags) : Views(gs, fs, offset)
    BY ViewAt
  <1>2. PICK i \in Nat, l \in Nat, m \in Nat :
          /\ i = B!Skipped(fs, offset) /\ l = Len(fs) /\ m = Len(gs)
          /\ m = l - i /\ i < l
    <2>1. B!Skipped(fs, offset) \in 0 .. Len(fs)
      BY AtOffset
    <2>2. Len(fs) \in Nat /\ Len(gs) \in Nat
      BY LenProperties
    <2>3. Len(gs) = Len(fs) - B!Skipped(fs, offset) /\ Len(gs) > 0
      BY <1>1 DEF Views
    <2>4. B!Skipped(fs, offset) \in Nat /\ B!Skipped(fs, offset) < Len(fs)
      BY <2>1, <2>2, <2>3
    <2> QED BY <2>2, <2>3, <2>4
  <1> DEFINE rest(j) == B!Content(B!Suffix(gs, j - (i + 1)))
             h == [j \in i + 1 .. l + 1 |-> B!RunLength(rest(j), stop)]
  <1>3. ASSUME NEW j \in i + 1 .. l + 1 PROVE j - (i + 1) \in 0 .. Len(gs)
    BY <1>2
  <1>4. ASSUME NEW j \in i + 1 .. l + 1 PROVE rest(j) \in Bytes
    <2>1. B!Suffix(gs, j - (i + 1)) \in Seq(Frags)
      BY <1>3, ListParts
    <2> QED BY <2>1, ContentType
  <1>5. ASSUME NEW j \in i + 1 .. l + 1 PROVE B!RunLength(rest(j), stop) \in Nat
    <2>1. PICK s \in Bytes : s = rest(j)
      BY <1>4
    <2>2. B!RunLength(s, stop) \in 0 .. Len(s) /\ Len(s) \in Nat
      BY RunLengthIs, LenProperties DEF Stops, Bytes
    <2>3. B!RunLength(s, stop) \in Nat
      BY <2>2
    <2> QED BY <2>1, <2>3
  <1>6. h \in [i + 1 .. l + 1 -> Nat] /\ \A j \in i + 1 .. l + 1 : h[j] = B!RunLength(rest(j), stop)
    <2> HIDE DEF rest
    <2> QED BY <1>5
  <1>7. h[l + 1] = 0
    <2>1. l + 1 \in i + 1 .. l + 1 /\ (l + 1) - (i + 1) = m /\ m \in 0 .. Len(gs)
      BY <1>2
    <2>2. B!Suffix(gs, m) = << >>
      <3>1. B!Suffix(gs, m) \in Seq(Frags) /\ Len(B!Suffix(gs, m)) = Len(gs) - m
        BY <2>1, ListParts
      <3>2. Len(B!Suffix(gs, m)) = 0
        BY <1>2, <3>1
      <3> QED BY <3>1, <3>2, EmptySeq
    <2>3. PICK e \in Bytes : e = << >> /\ Len(e) = 0
      BY EmptySeq DEF Bytes
    <2>4. B!RunLength(e, stop) \in 0 .. 0
      BY <2>3, RunLengthIs DEF Stops
    <2>5. rest(l + 1) = e
      BY <2>1, <2>2, <2>3, ContentEmpty
    <2>6. B!RunLength(e, stop) = 0
      BY <2>4
    <2> HIDE DEF rest, h
    <2> QED BY <1>6, <2>1, <2>5, <2>6
  <1>8. ASSUME NEW j \in i + 1 .. l PROVE h[j] = Through(gs[j - i].data, stop, h[j + 1])
    <2>1. PICK c \in 0 .. Len(gs) :
            c = j - (i + 1) /\ c # Len(gs) /\ c + 1 = j - i /\ c + 1 = (j + 1) - (i + 1)
      <3>1. j - (i + 1) \in 0 .. m /\ j - (i + 1) # m /\ (j - (i + 1)) + 1 = j - i
            /\ (j - (i + 1)) + 1 = (j + 1) - (i + 1)
        BY <1>2, SMTT(30)
      <3> QED BY <1>2, <3>1
    <2>2. j \in i + 1 .. l + 1 /\ j + 1 \in i + 1 .. l + 1
      OBVIOUS
    <2>3. PICK d \in Bytes, t \in Bytes : d = gs[j - i].data /\ t = rest(j + 1)
      <3>1. j - i \in 1 .. Len(gs)
        BY <1>2
      <3>2. gs[j - i].data \in Bytes
        BY <3>1, FragmentType
      <3> QED BY <1>4, <2>2, <3>2
    <2>4. B!Content(B!Suffix(gs, c)) = gs[c + 1].data \o B!Content(B!Suffix(gs, c + 1))
      BY <2>1, ListAt
    <2>5. rest(j) = d \o t
      BY <2>1, <2>3, <2>4
    <2>6. B!RunLength(d \o t, stop) = Through(d, stop, B!RunLength(t, stop))
      BY RunLengthConcat DEF Through
    <2>7. h[j] = B!RunLength(rest(j), stop)
      <3> HIDE DEF h, rest
      <3> QED BY <1>6, <2>2
    <2>8. h[j + 1] = B!RunLength(rest(j + 1), stop)
      <3> HIDE DEF h, rest
      <3> QED BY <1>6, <2>2
    <2> HIDE DEF h, rest
    <2> QED BY <2>3, <2>5, <2>6, <2>7, <2>8
  <1>9. Finds(h, gs, stop, i, l)
    <2> HIDE DEF h
    <2> QED BY <1>7, <1>8 DEF Finds
  <1>10. Searches(h, fs, stop, i, B!Remainder(fs, offset))
    <2> HIDE DEF h
    <2> QED BY <1>1, <1>2, <1>6, <1>9, FindsSearches
  <1>11. PICK f : /\ Searches(f, fs, stop, i, B!Remainder(fs, offset))
                  /\ B!SkipUntil(fs, stop, offset) = f[i + 1]
    <2> HIDE DEF h
    <2> QED BY <1>2, <1>10, SkipUntilIsFirst
  <1>12. Finds(f, gs, stop, i, l)
    BY <1>1, <1>2, <1>11, SearchesFinds
  <1>13. f[i + 1] = h[i + 1]
    <2> HIDE DEF h
    <2>1. PICK a \in Int, b \in Int : a = i + 1 /\ b = l + 1 /\ b - 1 = l /\ a \in a .. b
      BY <1>2
    <2>2. f[b] = h[b]
      BY <1>7, <1>12, <2>1 DEF Finds
    <2>3. ASSUME NEW j \in a .. b - 1, f[j + 1] = h[j + 1] PROVE f[j] = h[j]
      <3>1. j \in i + 1 .. l
        BY <2>1
      <3>2. f[j] = Through(gs[j - i].data, stop, f[j + 1])
        BY <1>12, <3>1 DEF Finds
      <3>3. h[j] = Through(gs[j - i].data, stop, h[j + 1])
        BY <1>8, <3>1
      <3> QED BY <2>3, <3>2, <3>3
    <2>4. GoBackAlike(a, b, f, h)
      BY <2>2, <2>3 DEF GoBackAlike
    <2>5. \A j \in a .. b : f[j] = h[j]
      BY <2>4, StepsBackAgree
    <2> QED BY <2>1, <2>5
  <1>14. rest(i + 1) = B!Content(gs)
    <2>1. (i + 1) - (i + 1) = 0 /\ 0 \in 0 .. Len(gs)
      BY <1>2
    <2>2. /\ B!Prefix(gs, 0) \in Seq(Frags) /\ Len(B!Prefix(gs, 0)) = 0
          /\ B!Suffix(gs, 0) \in Seq(Frags)
          /\ B!Content(gs) = B!Content(B!Prefix(gs, 0)) \o B!Content(B!Suffix(gs, 0))
      BY <2>1, ListParts
    <2>3. B!Content(B!Prefix(gs, 0)) = << >>
      BY <2>2, EmptySeq, ContentEmpty
    <2>4. << >> \o B!Content(B!Suffix(gs, 0)) = B!Content(B!Suffix(gs, 0))
      BY <2>2, ContentType, BytesConcat
    <2> QED BY <2>1, <2>2, <2>3, <2>4
  <1>15. h[i + 1] = B!RunLength(rest(i + 1), stop)
    <2>1. i + 1 \in i + 1 .. l + 1
      BY <1>2
    <2> HIDE DEF h, rest
    <2> QED BY <1>6, <2>1
  <1>16. PICK s \in Bytes : s = B!Content(gs)
    BY ContentType
  <1>17. Stops(s, stop, B!RunLength(s, stop))
    BY RunLengthIs
  <1>18. B!SkipUntil(fs, stop, offset) = B!RunLength(s, stop) /\ s = B!After(B!Content(fs), offset)
    <2> HIDE DEF h, rest
    <2> QED BY <1>1, <1>11, <1>13, <1>14, <1>15, <1>16 DEF Views
  <1> QED BY <1>17, <1>18

\* What fill_readable_iovec has after a fragment f, if it had R before.
HandsOn(R, f, max) ==
  IF B!Size(f) = 0 \/ Len(R) = max THEN R ELSE Append(R, f)

\* h is what ReadableRanges computes.
Collects(h, fs, max) ==
  h = [i \in 0 .. Len(fs) |-> IF i = 0 THEN << >> ELSE HandsOn(h[i - 1], fs[i], max)]

\* ReadableRanges is the last value of such a function.
LEMMA RangesIsLast ==
  ASSUME NEW fs, NEW max, \E h : Collects(h, fs, max)
  PROVE  \E h : Collects(h, fs, max) /\ B!ReadableRanges(fs, max) = h[Len(fs)]
  <1> DEFINE g == CHOOSE h : Collects(h, fs, max)
  <1>1. Collects(g, fs, max)
    OBVIOUS
  <1>2. B!ReadableRanges(fs, max) = g[Len(fs)]
    BY DEF B!ReadableRanges, Collects, HandsOn
  <1> QED BY <1>1, <1>2

\* It is a list of fragments.
LEMMA HandsOnType ==
  ASSUME NEW R \in Seq(Frags), NEW f \in Frags, NEW max
  PROVE  HandsOn(R, f, max) \in Seq(Frags)
  BY AppendProperties DEF HandsOn

\* There is such a function: the recursion of ReadableRanges is defined.
LEMMA CollectsExists ==
  ASSUME NEW fs \in Seq(Frags), NEW max
  PROVE  \E h : Collects(h, fs, max)
  <1>1. PICK n \in Nat : n = Len(fs)
    BY LenProperties
  <1> DEFINE A == Seq(Frags)
             step == [p \in (1 .. n) \X A |-> HandsOn(p[2], fs[p[1]], max)]
  <1>2. step \in [(1 .. n) \X A -> A]
    <2>1. ASSUME NEW p \in (1 .. n) \X A PROVE HandsOn(p[2], fs[p[1]], max) \in A
      <3>1. p[1] \in 1 .. n /\ p[2] \in A
        OBVIOUS
      <3>2. fs[p[1]] \in Frags
        BY <1>1, <3>1, FragmentType
      <3> QED BY <3>1, <3>2, HandsOnType
    <2> HIDE DEF A
    <2> QED BY <2>1
  <1>3. << >> \in A
    BY EmptySeq
  <1>4. \A i \in 1 .. n, R \in A : step[<<i, R>>] = HandsOn(R, fs[i], max)
    <2> HIDE DEF A
    <2> QED OBVIOUS
  <1>5. PICK h \in [0 .. n -> A] : Recurs(h, << >>, step, n)
    <2> HIDE DEF A, step
    <2> QED BY <1>2, <1>3, RecursionDefined
  <1> HIDE DEF A, step
  <1>6. ASSUME NEW i \in 0 .. n
        PROVE  h[i] = IF i = 0 THEN << >> ELSE HandsOn(h[i - 1], fs[i], max)
    <2>1. CASE i = 0
      BY <1>5, <2>1 DEF Recurs
    <2>2. CASE i # 0
      <3>1. i \in 1 .. n /\ i - 1 \in 0 .. n
        BY <2>2
      <3>2. h[i - 1] \in A
        BY <1>5, <3>1
      <3>3. h[i] = step[<<i, h[i - 1]>>]
        BY <1>5, <3>1 DEF Recurs
      <3>4. step[<<i, h[i - 1]>>] = HandsOn(h[i - 1], fs[i], max)
        BY <1>4, <3>1, <3>2
      <3> QED BY <2>2, <3>3, <3>4
    <2> QED BY <2>1, <2>2
  <1>7. h = [i \in 0 .. n |-> IF i = 0 THEN << >> ELSE HandsOn(h[i - 1], fs[i], max)]
    BY <1>5, <1>6
  <1> QED BY <1>1, <1>7 DEF Collects

\* R has the first bytes of s, and all of them unless it is full.
Part(R, s, max) ==
  /\ R \in Seq(Frags) /\ Len(R) <= max
  /\ \E t \in Bytes : s = B!Content(R) \o t /\ (Len(R) < max => t = << >>)

\* Another fragment keeps that.
LEMMA PartGrows ==
  ASSUME NEW R, NEW s \in Bytes, NEW max \in Nat, Part(R, s, max), NEW f \in Frags
  PROVE  Part(HandsOn(R, f, max), s \o f.data, max)
  <1>1. PICK d \in Bytes, n \in Nat : d = f.data /\ n = Len(d)
    BY LenProperties DEF Frags, Bytes
  <1>2. R \in Seq(Frags) /\ Len(R) <= max /\ Len(R) \in Nat
    BY LenProperties DEF Part
  <1>3. PICK t \in Bytes : s = B!Content(R) \o t /\ (Len(R) < max => t = << >>)
    BY DEF Part
  <1>4. PICK c \in Bytes : c = B!Content(R)
    BY <1>2, ContentType
  <1>5. s \o d = c \o (t \o d)
    <2>1. (c \o t) \o d = c \o (t \o d)
      BY BytesAssociative
    <2> QED BY <1>3, <1>4, <2>1
  <1>6. t \o d \in Bytes
    BY BytesConcat
  <1>7. CASE Len(R) = max
    <2>1. HandsOn(R, f, max) = R
      BY <1>7 DEF HandsOn
    <2>2. ~(Len(R) < max)
      BY <1>7
    <2>3. Part(R, s \o d, max)
      BY <1>2, <1>4, <1>5, <1>6, <2>2 DEF Part
    <2> QED BY <1>1, <2>1, <2>3
  <1>8. CASE Len(R) # max /\ n = 0
    <2>1. HandsOn(R, f, max) = R
      BY <1>1, <1>8 DEF HandsOn, B!Size
    <2>2. d = << >> /\ t \o << >> = t
      BY <1>1, <1>8, EmptySeq, BytesConcat DEF Bytes
    <2>3. Part(R, s \o d, max)
      <3>1. s \o d = c \o t
        BY <1>5, <2>2
      <3> QED BY <1>2, <1>3, <1>4, <3>1 DEF Part
    <2> QED BY <1>1, <2>1, <2>3
  <1>9. CASE Len(R) # max /\ n # 0
    <2>1. HandsOn(R, f, max) = Append(R, f)
      BY <1>1, <1>9 DEF HandsOn, B!Size
    <2>2. Append(R, f) \in Seq(Frags) /\ Len(Append(R, f)) = Len(R) + 1
      BY <1>2, AppendProperties
    <2>3. Len(R) < max
      BY <1>2, <1>9
    <2>4. t = << >>
      BY <1>3, <2>3
    <2>5. B!Content(Append(R, f)) = c \o d
      <3>1. B!Content(Append(R, f)) = B!Content(R) \o f.data
        BY <1>2, ContentAppend
      <3> QED BY <1>1, <1>4, <3>1
    <2>6. PICK e \in Bytes : e = << >>
      BY EmptySeq DEF Bytes
    <2>7. s \o d = (c \o d) \o e
      <3>1. t \o d = d
        BY <2>4, BytesConcat
      <3>2. c \o d \in Bytes
        BY BytesConcat
      <3>3. (c \o d) \o << >> = c \o d
        BY <3>2, BytesConcat
      <3> QED BY <1>5, <2>6, <3>1, <3>3
    <2>8. Len(R) + 1 <= max
      BY <1>2, <2>3
    <2>9. Part(Append(R, f), s \o d, max)
      BY <2>2, <2>5, <2>6, <2>7, <2>8 DEF Part
    <2> QED BY <1>1, <2>1, <2>9
  <1> QED BY <1>7, <1>8, <1>9

\* So fill_readable_iovec hands out such a part of the buffer.
LEMMA RangesPart ==
  ASSUME NEW fs \in Seq(Frags), NEW max \in Nat
  PROVE  Part(B!ReadableRanges(fs, max), B!Content(fs), max)
  <1>1. PICK h : Collects(h, fs, max) /\ B!ReadableRanges(fs, max) = h[Len(fs)]
    BY CollectsExists, RangesIsLast
  <1>2. PICK n \in Nat : n = Len(fs)
    BY LenProperties
  <1> DEFINE D == 0 .. n
             v(i) == IF i = 0 THEN << >> ELSE HandsOn(h[i - 1], fs[i], max)
  <1>3. h = [i \in D |-> v(i)]
    BY <1>1, <1>2 DEF Collects
  <1>4. \A i \in D : h[i] = v(i)
    <2> HIDE DEF D, v
    <2> QED BY <1>3
  <1>5. 0 \in D /\ \A i \in 1 .. n : i \in D /\ i # 0
    OBVIOUS
  <1>6. h[0] = << >> /\ \A i \in 1 .. n : h[i] = HandsOn(h[i - 1], fs[i], max)
    BY <1>4, <1>5
  <1>7. PICK g \in [0 .. n -> Bytes] : Grows(g, fs, n) /\ B!Content(fs) = g[n]
    BY <1>2, GrowsExists, ContentIs
  <1> HIDE DEF v, D
  <1> DEFINE T == {i \in 0 .. n : ~Part(h[i], g[i], max)}
  <1>8. SUFFICES ASSUME T # {} PROVE FALSE
    <2>1. n \notin T
      BY <1>8
    <2>2. Part(h[n], g[n], max)
      BY <2>1
    <2> QED BY <1>1, <1>2, <1>7, <2>2
  <1>9. T \subseteq Nat
    OBVIOUS
  <1>10. PICK m \in T : \A i \in T : m <= i
    <2> HIDE DEF T
    <2> QED BY <1>8, <1>9, LeastLength
  <1>11. m # 0
    <2>1. PICK e \in Bytes : e = << >>
      BY EmptySeq DEF Bytes
    <2>2. << >> \in Seq(Frags) /\ Len(<< >>) = 0 /\ 0 <= max
      BY EmptySeq
    <2>3. e = e \o e
      BY <2>1, BytesConcat
    <2>4. Part(<< >>, e, max)
      BY <2>1, <2>2, <2>3, ContentEmpty DEF Part
    <2>5. g[0] = << >>
      BY <1>7 DEF Grows
    <2> QED BY <1>6, <1>10, <2>1, <2>4, <2>5
  <1>12. m \in 1 .. n /\ m - 1 \in 0 .. n /\ m - 1 \notin T
    BY <1>10, <1>11
  <1>13. Part(h[m - 1], g[m - 1], max)
    BY <1>12
  <1>14. fs[m] \in Frags /\ g[m - 1] \in Bytes
    BY <1>2, <1>7, <1>12, FragmentType
  <1>15. Part(HandsOn(h[m - 1], fs[m], max), g[m - 1] \o fs[m].data, max)
    BY <1>13, <1>14, PartGrows
  <1>16. h[m] = HandsOn(h[m - 1], fs[m], max) /\ g[m] = g[m - 1] \o fs[m].data
    BY <1>6, <1>7, <1>12 DEF Grows
  <1>17. Part(h[m], g[m], max)
    BY <1>15, <1>16
  <1> QED BY <1>10, <1>17

\* What HandsOut says of it.
LEMMA HandsOutFirst ==
  ASSUME NEW fs \in Seq(Frags), Amounts \subseteq Nat
  PROVE  B!HandsOut(fs, B!Content(fs))
  <1>1. ASSUME NEW max \in Amounts
        PROVE  LET ranges == B!ReadableRanges(fs, max)
                   given  == B!Content(ranges)
               IN  /\ given = B!First(B!Content(fs), Len(given))
                   /\ Len(ranges) < max => given = B!Content(fs)
    <2>1. max \in Nat
      OBVIOUS
    <2>2. Part(B!ReadableRanges(fs, max), B!Content(fs), max)
      BY <2>1, RangesPart
    <2>3. PICK R \in Seq(Frags), t \in Bytes :
            /\ R = B!ReadableRanges(fs, max) /\ B!Content(fs) = B!Content(R) \o t
            /\ Len(R) < max => t = << >>
      BY <2>2 DEF Part
    <2>4. PICK c \in Bytes : c = B!Content(R) /\ Len(c) \in Nat
      BY ContentType
    <2>5. B!First(c \o t, Len(c)) = c
      BY <2>4, BytesCut
    <2>6. c \o << >> = c
      BY BytesConcat
    <2> QED BY <2>3, <2>4, <2>5, <2>6
  <1> QED BY <1>1 DEF B!HandsOut

\* What find_byte and the skips return, for a byte x.
FindsByte(rest, x, found, run) ==
  /\ IF x \in B!ToSet(rest)
     THEN /\ found + 1 \in DOMAIN rest /\ rest[found + 1] = x
          /\ \A i \in 1 .. found : rest[i] # x
     ELSE found = -1
  /\ run \in 0 .. Len(rest) /\ \A i \in 1 .. run : rest[i] = x
  /\ run = Len(rest) \/ rest[run + 1] # x

\* find_byte and the skips, from where the searches stop.
LEMMA ByteFound ==
  ASSUME NEW fs \in Seq(Frags), NEW offset \in Nat, NEW total, NEW x,
         total = Len(B!Content(fs)), offset < total
  PROVE  FindsByte(B!After(B!Content(fs), offset), x,
                   B!FindByte(fs, total, x, offset), B!SkipUntil(fs, Nat \ {x}, offset))
  <1>1. PICK z \in Nat : z = total
    BY ContentType
  <1>2. PICK s \in Bytes : s = B!After(B!Content(fs), offset) /\ Len(s) = z - offset
    <2>1. offset \in 0 .. Len(B!Content(fs))
      BY <1>1
    <2>2. B!Content(fs) \in Bytes
      BY ContentType
    <2>3. /\ B!After(B!Content(fs), offset) \in Bytes
          /\ Len(B!After(B!Content(fs), offset)) = Len(B!Content(fs)) - offset
      BY <2>1, <2>2, BytesParts
    <2> QED BY <1>1, <2>3
  <1>3. PICK l \in Nat : l = Len(s) /\ l = z - offset
    BY <1>2, LenProperties DEF Bytes
  <1>4. DOMAIN s = 1 .. l /\ \A i \in 1 .. l : s[i] \in Nat
    BY <1>3, LenProperties, ElementOfSeq DEF Bytes
  <1>5. PICK n \in 0 .. l : /\ n = B!SkipUntil(fs, {x}, offset)
                            /\ \A i \in 1 .. n : s[i] # x
                            /\ n < l => s[n + 1] = x
    <2>1. Stops(s, {x}, B!SkipUntil(fs, {x}, offset))
      BY <1>1, <1>2, SkipUntilIs
    <2> QED BY <1>3, <2>1 DEF Stops
  <1>6. PICK k \in 0 .. l : /\ k = B!SkipUntil(fs, Nat \ {x}, offset)
                            /\ \A i \in 1 .. k : s[i] \notin Nat \ {x}
                            /\ k < l => s[k + 1] \in Nat \ {x}
    <2>1. Stops(s, Nat \ {x}, B!SkipUntil(fs, Nat \ {x}, offset))
      BY <1>1, <1>2, SkipUntilIs
    <2> QED BY <1>3, <2>1 DEF Stops
  <1>7. PICK f : f = B!FindByte(fs, total, x, offset)
    OBVIOUS
  <1>8. f = IF n = l THEN -1 ELSE n
    <2>1. ~(offset >= total) /\ (offset + n = total <=> n = l)
      BY <1>1, <1>3
    <2> QED BY <1>5, <1>7, <2>1 DEF B!FindByte
  <1>9. IF x \in B!ToSet(s)
         THEN f + 1 \in DOMAIN s /\ s[f + 1] = x /\ \A i \in 1 .. f : s[i] # x
         ELSE f = -1
    <2>1. CASE n = l
      <3>1. ASSUME x \in B!ToSet(s) PROVE FALSE
        <4>1. PICK i \in 1 .. l : s[i] = x
          BY <1>4, <3>1 DEF B!ToSet
        <4> QED BY <1>5, <2>1, <4>1
      <3> QED BY <1>8, <2>1, <3>1
    <2>2. CASE n # l
      <3>1. n < l /\ n + 1 \in 1 .. l
        BY <2>2
      <3>2. s[n + 1] = x /\ f = n
        BY <1>5, <1>8, <2>2, <3>1
      <3>3. x \in B!ToSet(s)
        BY <1>4, <3>1, <3>2 DEF B!ToSet
      <3> QED BY <1>4, <1>5, <3>1, <3>2, <3>3
    <2> QED BY <2>1, <2>2
  <1>10. ASSUME NEW i \in 1 .. k PROVE s[i] = x
    <2>1. i \in 1 .. l
      OBVIOUS
    <2> QED BY <1>4, <1>6, <2>1
  <1>11. k = l \/ s[k + 1] # x
    <2>1. k = l \/ k < l
      OBVIOUS
    <2> QED BY <1>6, <2>1
  <1> QED BY <1>2, <1>3, <1>6, <1>7, <1>9, <1>10, <1>11 DEF FindsByte

\* The bytes read at once.
LEMMA ValueRead ==
  ASSUME NEW fs \in Seq(Frags), NEW offset \in Nat, NEW n \in Nat, NEW total,
         total = Len(B!Content(fs)), offset < total
  PROVE  LET rest == B!After(B!Content(fs), offset)
         IN  /\ B!Read(fs, n, offset) = B!First(rest, n)
             /\ B!ReadValue(fs, total, n, offset) = {t \in {B!First(rest, n)} : Len(t) = n}
  <1>1. PICK z \in Nat : z = total
    BY ContentType
  <1>2. PICK s \in Bytes : s = B!After(B!Content(fs), offset) /\ Len(s) = z - offset
    <2>1. offset \in 0 .. Len(B!Content(fs))
      BY <1>1
    <2>2. B!Content(fs) \in Bytes
      BY ContentType
    <2>3. /\ B!After(B!Content(fs), offset) \in Bytes
          /\ Len(B!After(B!Content(fs), offset)) = Len(B!Content(fs)) - offset
      BY <2>1, <2>2, BytesParts
    <2> QED BY <1>1, <2>3
  <1>3. B!Read(fs, n, offset) = B!First(s, n)
    BY <1>2, ReadIs
  <1>4. PICK l \in Nat : l = Len(s) /\ l = z - offset
    BY <1>2, LenProperties DEF Bytes
  <1>5. Len(B!First(s, n)) = n <=> n <= l
    <2>1. CASE n <= l
      <3>1. n \in 0 .. Len(s)
        BY <1>4, <2>1
      <3>2. Len(B!First(s, n)) = n
        BY <3>1, BytesParts
      <3> QED BY <2>1, <3>2
    <2>2. CASE ~(n <= l)
      <3>1. Len(s) <= n /\ Len(s) # n
        BY <1>4, <2>2
      <3>2. B!First(s, n) = s
        BY <3>1, BytesAll
      <3> QED BY <2>2, <3>1, <3>2
    <2> QED BY <2>1, <2>2
  <1>6. total - offset >= n <=> n <= l
    BY <1>1, <1>4
  <1>7. B!ReadValue(fs, total, n, offset) = IF n <= l THEN {B!First(s, n)} ELSE {}
    BY <1>3, <1>6 DEF B!ReadValue
  <1>8. PICK t : t = B!First(s, n)
    OBVIOUS
  <1>9. B!ReadValue(fs, total, n, offset) = {u \in {t} : Len(u) = n}
    <2>1. CASE n <= l
      BY <1>5, <1>7, <1>8, <2>1
    <2>2. CASE ~(n <= l)
      BY <1>5, <1>7, <1>8, <2>2
    <2> QED BY <2>1, <2>2
  <1> QED BY <1>2, <1>3, <1>8, <1>9

\* The next contiguous range.
LEMMA RangeSplits ==
  ASSUME NEW fs \in Seq(Frags), NEW offset \in Nat, NEW total,
         total = Len(B!Content(fs)), offset < total
  PROVE  \E d \in Bytes, u \in Bytes :
           /\ d = B!After(fs[B!Skipped(fs, offset) + 1].data, B!Remainder(fs, offset))
           /\ Len(d) > 0 /\ B!After(B!Content(fs), offset) = d \o u
  <1>1. PICK gs \in Seq(Frags) : Views(gs, fs, offset)
    BY ViewAt
  <1>2. PICK m \in Nat : m = Len(gs) /\ m > 0
    BY <1>1, LenProperties DEF Views
  <1>3. 1 \in 1 .. Len(gs)
    BY <1>2
  <1>4. PICK d \in Bytes : d = gs[1].data /\ Len(d) > 0 /\ Len(d) \in Nat
    <2>1. gs[1].data \in Bytes
      BY <1>3, FragmentType
    <2> QED BY <1>1, <2>1, LenProperties DEF Views, Bytes
  <1>5. PICK a, q : Around(gs, 1, a, q)
    BY <1>3, FragmentAround
  <1>6. PICK u \in Bytes : B!Content(gs) = d \o u
    <2>1. a \in Bytes /\ q \in Bytes /\ B!Content(gs) = a \o (d \o q) /\ Len(a) = 0
      <3>1. B!Ends(gs)[0] = 0
        BY EndsContent
      <3> QED BY <1>4, <1>5, <3>1 DEF Around
    <2>2. a = << >>
      BY <2>1, EmptySeq DEF Bytes
    <2>3. d \o q \in Bytes /\ << >> \o (d \o q) = d \o q
      BY <2>1, BytesConcat
    <2> QED BY <2>1, <2>2, <2>3
  <1>7. d = B!After(fs[B!Skipped(fs, offset) + 1].data, B!Remainder(fs, offset))
    BY <1>1, <1>3, <1>4 DEF Views
  <1>8. B!Content(gs) = B!After(B!Content(fs), offset)
    BY <1>1 DEF Views
  <1> QED BY <1>4, <1>6, <1>7, <1>8

LEMMA RangeRead ==
  ASSUME NEW fs \in Seq(Frags), NEW offset \in Nat, NEW total,
         total = Len(B!Content(fs)), offset < total
  PROVE  LET range == B!NextDataRange(fs, total, offset)
         IN  range # << >> /\ range = B!First(B!After(B!Content(fs), offset), Len(range))
  <1>1. PICK d \in Bytes, u \in Bytes :
          /\ d = B!After(fs[B!Skipped(fs, offset) + 1].data, B!Remainder(fs, offset))
          /\ Len(d) > 0 /\ B!After(B!Content(fs), offset) = d \o u
    BY RangeSplits
  <1>2. Len(d) \in Nat
    BY BytesConcat
  <1>3. B!First(d \o u, Len(d)) = d
    BY <1>2, BytesCut
  <1>4. B!NextDataRange(fs, total, offset) = d
    <2>1. total # offset
      BY ContentType
    <2> QED BY <1>1, <2>1 DEF B!NextDataRange
  <1>5. d # << >>
    BY <1>1
  <1> QED BY <1>1, <1>3, <1>4, <1>5

\* The first bytes of a part d of the bytes.
LEMMA FirstOfPart ==
  ASSUME NEW d \in Bytes, NEW u \in Bytes, Len(d) > 0, NEW n \in Nat, n > 0
  PROVE  /\ B!First(d, n) # << >> /\ B!First(d, n) = B!First(d \o u, Len(B!First(d, n)))
         /\ n <= Len(d) \/ Len(u) = 0 => B!First(d, n) = B!First(d \o u, n)
  <1>1. Len(d) \in Nat /\ Len(u) \in Nat
    BY BytesConcat
  <1>2. CASE n <= Len(d)
    <2>1. n \in 0 .. Len(d)
      BY <1>1, <1>2
    <2>2. PICK x \in Bytes, y \in Bytes : x = B!First(d, n) /\ x \o y = d /\ Len(x) = n
      <3>1. /\ B!First(d, n) \in Bytes /\ B!After(d, n) \in Bytes
            /\ B!First(d, n) \o B!After(d, n) = d /\ Len(B!First(d, n)) = n
        BY <2>1, BytesParts
      <3> QED BY <3>1
    <2>3. PICK v \in Bytes : v = y \o u
      BY BytesConcat
    <2>4. d \o u = x \o v
      <3>1. (x \o y) \o u = x \o (y \o u)
        BY BytesAssociative, ZenonT(60)
      <3> QED BY <2>2, <2>3, <3>1
    <2>5. B!First(x \o v, n) = x
      BY <2>2, BytesCut
    <2>6. x # << >>
      BY <2>2
    <2> QED BY <2>2, <2>4, <2>5, <2>6
  <1>3. CASE n > Len(d)
    <2>1. B!First(d, n) = d
      BY <1>1, <1>3, BytesAll
    <2>2. B!First(d \o u, Len(d)) = d
      BY <1>1, BytesCut
    <2>3. ASSUME Len(u) = 0 PROVE B!First(d, n) = B!First(d \o u, n)
      <3>1. u = << >>
        BY <2>3, EmptySeq DEF Bytes
      <3> QED BY <3>1, BytesConcat
    <2>4. d # << >>
      OBVIOUS
    <2> QED BY <1>1, <1>3, <2>1, <2>2, <2>3, <2>4
  <1> QED BY <1>1, <1>2, <1>3

\* What range returns is the bytes from the offset on, and all of the n that were
\* asked for if the fragment has as many.
LEMMA RangeIs ==
  ASSUME NEW fs \in Seq(Frags), NEW s \in Bytes, s = B!Content(fs), NEW offset \in Nat, offset < Len(s),
         NEW n \in Nat, n > 0
  PROVE  /\ B!RangeAt(fs, n, offset) # << >>
         /\ B!RangeAt(fs, n, offset) = B!First(B!After(s, offset), Len(B!RangeAt(fs, n, offset)))
         /\ B!HeadSize(fs, offset) >= B!Least(n, Len(s) - offset)
              => B!RangeAt(fs, n, offset) = B!First(B!After(s, offset), n)
  <1>1. PICK d \in Bytes, u \in Bytes :
          /\ d = B!After(fs[B!Skipped(fs, offset) + 1].data, B!Remainder(fs, offset))
          /\ Len(d) > 0 /\ B!After(s, offset) = d \o u
    BY RangeSplits
  <1>2. B!RangeAt(fs, n, offset) = B!First(d, n)
    BY <1>1 DEF B!RangeAt, B!There
  <1>3. Len(s) \in Nat /\ Len(d) \in Nat /\ Len(u) \in Nat /\ Len(d \o u) = Len(d) + Len(u)
    BY BytesConcat
  <1>4. Len(s) - offset = Len(d) + Len(u)
    <2>1. offset \in 0 .. Len(s)
      BY <1>3
    <2>2. Len(B!After(s, offset)) = Len(s) - offset
      BY <2>1, BytesParts
    <2> QED BY <1>1, <1>3, <2>2
  <1>5. B!HeadSize(fs, offset) = Len(d)
    <2>1. PICK i \in 0 .. Len(fs), r \in Nat : i = B!Skipped(fs, offset) /\ r = B!Remainder(fs, offset)
      BY AtOffset
    <2>2. i # Len(fs)
      BY <1>3, <2>1, AtOffset
    <2>3. PICK f \in Bytes : f = fs[i + 1].data
      <3>1. fs[i + 1] \in Frags
        BY <2>2, ListAt
      <3> QED BY <3>1 DEF Frags
    <2>4. r < Len(f) /\ Len(f) \in Nat
      BY <2>1, <2>2, <2>3, AtOffset, BytesConcat
    <2>5. r \in 0 .. Len(f)
      BY <2>4
    <2>6. Len(B!After(f, r)) = Len(f) - r
      BY <2>5, BytesParts
    <2> QED BY <1>1, <2>1, <2>3, <2>6 DEF B!HeadSize, B!There, B!Size
  <1>6. ASSUME B!HeadSize(fs, offset) >= B!Least(n, Len(s) - offset) PROVE n <= Len(d) \/ Len(u) = 0
    BY <1>3, <1>4, <1>5, <1>6 DEF B!Least
  <1>7. /\ B!First(d, n) # << >> /\ B!First(d, n) = B!First(d \o u, Len(B!First(d, n)))
        /\ n <= Len(d) \/ Len(u) = 0 => B!First(d, n) = B!First(d \o u, n)
    BY <1>1, FirstOfPart
  <1> QED BY <1>1, <1>2, <1>6, <1>7

\* Every fragment ends behind the ones before it.
LEMMA EndsMonotone ==
  ASSUME NEW fs \in Seq(Frags), NEW i \in 0 .. Len(fs), NEW j \in 0 .. Len(fs), i <= j
  PROVE  B!Ends(fs)[i] <= B!Ends(fs)[j]
  <1>1. PICK l, e : l = Len(fs) /\ e = B!Ends(fs) /\ l \in Nat
    BY LenProperties
  <1>2. \A k \in 0 .. l : e[k] \in Nat
    BY <1>1, EndsContent
  <1>3. ASSUME NEW k \in 1 .. l PROVE e[k - 1] <= e[k]
    <2>1. B!Ends(fs)[k] = B!Ends(fs)[k - 1] + B!Size(fs[k])
      BY <1>1, EndsContent
    <2>2. B!Size(fs[k]) \in Nat
      BY <1>1, FragmentType
    <2>3. e[k - 1] \in Nat /\ e[k] \in Nat
      BY <1>1, <1>2
    <2> QED BY <1>1, <2>1, <2>2, <2>3
  <1> DEFINE T == {k \in 0 .. l : i <= k /\ e[k] < e[i]}
  <1>4. SUFFICES ASSUME T # {} PROVE FALSE
    <2>1. e[i] \in Nat /\ e[j] \in Nat /\ j \in 0 .. l
      BY <1>1, <1>2
    <2>2. ~(e[j] < e[i])
      BY <1>4, <2>1
    <2> QED BY <1>1, <2>1, <2>2
  <1>5. T \subseteq Nat
    OBVIOUS
  <1>6. PICK m \in T : \A k \in T : m <= k
    <2> HIDE DEF T
    <2> QED BY <1>4, <1>5, LeastLength
  <1>7. m \in 0 .. l /\ i \in 0 .. l /\ i <= m /\ e[m] < e[i]
    BY <1>1, <1>6
  <1>8. e[i] \in Nat /\ e[m] \in Nat
    BY <1>2, <1>7
  <1>9. m # i
    BY <1>7, <1>8
  <1>10. m \in 1 .. l /\ m - 1 \in 0 .. l /\ i <= m - 1 /\ m - 1 < m
    BY <1>1, <1>7, <1>9
  <1>11. m - 1 \notin T
    BY <1>6, <1>10
  <1>12. ~(e[m - 1] < e[i])
    BY <1>10, <1>11
  <1>13. e[m - 1] \in Nat /\ e[m - 1] <= e[m]
    BY <1>2, <1>3, <1>10
  <1> QED BY <1>7, <1>8, <1>12, <1>13

\* What coalesce was asked for is one range, if a fragment starts at the offset.
LEMMA CoalescesOne ==
  ASSUME NEW fs \in Seq(Frags), NEW gs, NEW offset \in Nat, NEW n \in Nat, n > 0,
         Coalesces(gs, fs, offset, n)
  PROVE  /\ gs \in Seq(Frags) /\ B!Content(gs) = B!Content(fs)
         /\ B!Remainder(fs, offset) = 0 => B!HeadSize(gs, offset) = n
  <1>1. PICK p \in Seq(Frags), g \in Frags, S \in Seq(Frags) :
          /\ p = B!Prefix(fs, B!Skipped(fs, offset)) /\ gs = p \o (<<g>> \o S) /\ Len(g.data) = n
          /\ B!Content(p) \o (g.data \o B!Content(S)) = B!Content(fs)
    BY DEF Coalesces
  <1>2. PICK T \in Seq(Frags) : T = <<g>> \o S /\ B!Content(T) = g.data \o B!Content(S) /\ Len(T) = 1 + Len(S) /\ T[1] = g
    <2>1. <<g>> \in Seq(Frags) /\ B!Content(<<g>>) = g.data /\ Len(<<g>>) = 1
      BY ContentOne
    <2>2. <<g>> \o S \in Seq(Frags) /\ B!Content(<<g>> \o S) = B!Content(<<g>>) \o B!Content(S)
      BY <2>1, ContentConcat
    <2>3. Len(S) \in Nat
      BY LenProperties
    <2>4. /\ Len(<<g>> \o S) = Len(<<g>>) + Len(S)
          /\ \A k \in 1 .. Len(<<g>>) + Len(S) :
               (<<g>> \o S)[k] = IF k <= Len(<<g>>) THEN <<g>>[k] ELSE S[k - Len(<<g>>)]
      BY <2>1, ConcatProperties
    <2>5. 1 \in 1 .. 1 + Len(S)
      BY <2>3
    <2>6. (<<g>> \o S)[1] = g
      BY <2>1, <2>4, <2>5
    <2> QED BY <1>1, <2>1, <2>2, <2>4, <2>6
  <1>3. gs \in Seq(Frags) /\ B!Content(gs) = B!Content(fs)
    <2>1. p \o T \in Seq(Frags) /\ B!Content(p \o T) = B!Content(p) \o B!Content(T)
      BY ContentConcat
    <2> QED BY <1>1, <1>2, <2>1
  <1>4. PICK l \in Nat, c \in Nat : l = Len(p) /\ c = Len(S)
    BY LenProperties
  <1>5. Len(gs) = l + (1 + c) /\ gs[l + 1] = g /\ \A k \in 1 .. l : gs[k] = p[k]
    <2>1. /\ Len(p \o T) = Len(p) + Len(T)
          /\ \A k \in 1 .. Len(p) + Len(T) : (p \o T)[k] = IF k <= Len(p) THEN p[k] ELSE T[k - Len(p)]
      BY ConcatProperties
    <2>2. gs = p \o T /\ Len(p) + Len(T) = l + (1 + c)
      BY <1>1, <1>2, <1>4
    <2>3. l + 1 \in 1 .. l + (1 + c) /\ ~(l + 1 <= l) /\ (l + 1) - l = 1
      OBVIOUS
    <2>4. gs[l + 1] = T[(l + 1) - l]
      BY <1>4, <2>1, <2>2, <2>3
    <2>5. ASSUME NEW k \in 1 .. l PROVE gs[k] = p[k]
      <3>1. k \in 1 .. l + (1 + c) /\ k <= l
        OBVIOUS
      <3> QED BY <1>4, <2>1, <2>2, <3>1
    <2> QED BY <1>2, <2>1, <2>2, <2>3, <2>4, <2>5
  <1>10. SUFFICES ASSUME B!Remainder(fs, offset) = 0 PROVE B!HeadSize(gs, offset) = n
    BY <1>3
  <1>6. B!Ends(gs)[l] = offset
    <2>1. l \in 0 .. Len(gs)
      BY <1>5
    <2>2. B!Ends(gs)[l] = Len(B!Content(B!Prefix(gs, l)))
      BY <1>3, <2>1, ListParts
    <2>3. B!Prefix(gs, l) = p
      <3>1. /\ B!Prefix(gs, l) \in Seq(Frags) /\ Len(B!Prefix(gs, l)) = l
            /\ \A k \in 1 .. l : B!Prefix(gs, l)[k] = gs[k]
        BY <1>3, <2>1, ListParts
      <3> QED BY <1>4, <1>5, <3>1, SeqEqual
    <2>4. Len(B!Content(p)) = offset
      <3>1. PICK a \in Bytes : a = B!Content(p)
        BY ContentType
      <3>2. Len(a) \in Nat /\ offset = Len(a) + B!Remainder(fs, offset)
        BY <1>1, <3>1, AtOffset, BytesConcat
      <3> QED BY <1>10, <3>1, <3>2
    <2> QED BY <2>2, <2>3, <2>4
  <1>7. B!Ends(gs)[l + 1] = offset + n
    <2>1. l + 1 \in 1 .. Len(gs) /\ (l + 1) - 1 = l
      BY <1>5
    <2>2. B!Ends(gs)[l + 1] = B!Ends(gs)[(l + 1) - 1] + B!Size(gs[l + 1])
      BY <1>3, <2>1, EndsContent
    <2>3. B!Size(gs[l + 1]) = n
      BY <1>1, <1>5 DEF B!Size
    <2>4. B!Ends(gs)[(l + 1) - 1] = offset
      BY <1>6, <2>1
    <2> QED BY <2>2, <2>3, <2>4
  <1>8. B!Skipped(gs, offset) = l
    <2>1. PICK k \in 0 .. Len(gs) : k = B!Skipped(gs, offset) /\ B!Ends(gs)[k] <= offset
                                    /\ (k # Len(gs) => offset < B!Ends(gs)[k + 1])
      BY <1>3, SkippedIs
    <2>2. l \in 0 .. Len(gs) /\ l + 1 \in 0 .. Len(gs)
      BY <1>5
    <2>3. ASSUME k < l PROVE FALSE
      <3>1. k + 1 \in 0 .. Len(gs) /\ k + 1 <= l /\ k # Len(gs)
        BY <1>5, <2>3
      <3>2. B!Ends(gs)[k + 1] <= B!Ends(gs)[l]
        BY <1>3, <2>2, <3>1, EndsMonotone
      <3>3. B!Ends(gs)[k + 1] \in Nat
        BY <1>3, <3>1, EndsContent
      <3> QED BY <1>6, <2>1, <3>1, <3>2, <3>3
    <2>4. ASSUME l < k PROVE FALSE
      <3>1. l + 1 <= k
        BY <2>4
      <3>2. B!Ends(gs)[l + 1] <= B!Ends(gs)[k]
        BY <1>3, <2>2, <3>1, EndsMonotone
      <3>3. B!Ends(gs)[k] \in Nat
        BY <1>3, EndsContent
      <3> QED BY <1>7, <2>1, <3>2, <3>3
    <2> QED BY <1>5, <2>1, <2>3, <2>4
  <1>9. B!There(gs, offset) = g /\ B!Remainder(gs, offset) = 0
    BY <1>5, <1>6, <1>8 DEF B!There, B!Remainder
  <1> QED BY <1>1, <1>9 DEF B!HeadSize, B!Size

\* Everything a reader at an offset sees.
LEMMA ReadsAt ==
  ASSUME NEW fs \in Seq(Frags), NEW offset \in Nat, NEW total, Amounts \subseteq Nat,
         total = Len(B!Content(fs)), offset < total
  PROVE  B!ReadsRest(fs, total, B!After(B!Content(fs), offset), offset)
  <1>1. PICK rest : rest = B!After(B!Content(fs), offset)
    OBVIOUS
  <1>2. ASSUME NEW n \in Amounts
        PROVE  /\ B!Read(fs, n, offset) = B!First(rest, n)
               /\ B!ReadValue(fs, total, n, offset) = {t \in {B!First(rest, n)} : Len(t) = n}
    <2>1. n \in Nat
      OBVIOUS
    <2> QED BY <1>1, <2>1, ValueRead
  <1>3. ASSUME NEW x \in 1 .. MaxBytes
        PROVE  FindsByte(rest, x, B!FindByte(fs, total, x, offset),
                         B!SkipUntil(fs, Nat \ {x}, offset))
    BY <1>1, ByteFound
  <1>4. LET range == B!NextDataRange(fs, total, offset)
        IN  range # << >> /\ range = B!First(rest, Len(range))
    BY <1>1, RangeRead
  <1> QED BY <1>1, <1>2, <1>3, <1>4 DEF B!ReadsRest, FindsByte

\* What range returns, with coalesce before it.
LEMMA BuffersRange ==
  ASSUME BufferInv, NEW b \in Buffers, NEW offset \in Nat, offset < sizes[b],
         NEW n \in Nat, n > 0, NEW more \in Nat
  PROVE  B!Ranges(b, n, offset, more)
  <1>1. PICK fs \in Seq(Frags), s \in Bytes, z \in Nat :
          fs = fragments[b] /\ s = stream[b] /\ z = sizes[b] /\ B!Content(fs) = s /\ z = Len(s)
    BY HoldsEach DEF Holds, BufferInv, BufferTypes
  <1>2. PICK m \in Nat : m = B!Asked(b, n, offset) /\ m = B!Least(n, Len(s) - offset) /\ m > 0 /\ m <= Len(s) - offset
    <2>1. PICK k \in Nat : k = z - offset /\ k > 0
      <3>1. offset < z
        BY <1>1
      <3>2. z - offset \in Nat /\ z - offset > 0
        BY <3>1
      <3> QED BY <3>2
    <2>2. B!Asked(b, n, offset) = B!Least(n, k)
      BY <1>1, <2>1 DEF B!Asked
    <2> QED BY <1>1, <2>1, <2>2, LeastBounds
  <1>3. PICK gs : gs = IF B!MustCoalesce(b, n, offset) THEN B!Coalesced(fs, offset, m, more) ELSE fs
    OBVIOUS
  <1>4. ASSUME ~(B!MustCoalesce(b, n, offset) /\ B!Wraps(fs, offset, m))
        PROVE  /\ B!Content(gs) = s
               /\ B!RangeAt(gs, n, offset) # << >>
               /\ B!RangeAt(gs, n, offset) = B!First(B!After(s, offset), Len(B!RangeAt(gs, n, offset)))
               /\ ~B!MustCoalesce(b, n, offset) \/ B!Remainder(fs, offset) = 0
                    => B!RangeAt(gs, n, offset) = B!First(B!After(s, offset), n)
    <2>1. /\ gs \in Seq(Frags) /\ B!Content(gs) = s
          /\ ~B!MustCoalesce(b, n, offset) \/ B!Remainder(fs, offset) = 0 => B!HeadSize(gs, offset) >= m
      <3>1. CASE B!MustCoalesce(b, n, offset)
        <4>1. Coalesces(gs, fs, offset, m)
          BY <1>1, <1>2, <1>3, <1>4, <3>1, CoalescedContent
        <4>2. /\ gs \in Seq(Frags) /\ B!Content(gs) = B!Content(fs)
              /\ B!Remainder(fs, offset) = 0 => B!HeadSize(gs, offset) = m
          BY <1>2, <4>1, CoalescesOne
        <4> QED BY <1>1, <1>2, <3>1, <4>2
      <3>2. CASE ~B!MustCoalesce(b, n, offset)
        <4>1. fs # << >>
          <5>1. Len(s) > 0
            BY <1>1
          <5>2. s # << >>
            BY <5>1, LenProperties
          <5> QED BY <1>1, <5>2, ContentEmpty
        <4>2. ~(B!HeadSize(fs, offset) < m)
          BY <1>1, <1>2, <3>2, <4>1 DEF B!MustCoalesce
        <4>3. B!HeadSize(fs, offset) \in Int
          <5>1. PICK i \in 0 .. Len(fs), r \in Nat : i = B!Skipped(fs, offset) /\ r = B!Remainder(fs, offset)
            BY AtOffset
          <5>2. i # Len(fs)
            BY <1>1, <5>1, AtOffset
          <5>3. fs[i + 1] \in Frags
            BY <5>2, ListAt
          <5>4. PICK f \in Bytes : f = fs[i + 1].data /\ Len(f) \in Nat
            BY <5>3, BytesConcat DEF Frags
          <5> QED BY <5>1, <5>4 DEF B!HeadSize, B!There, B!Size
        <4> QED BY <1>1, <1>2, <1>3, <3>2, <4>2, <4>3
      <3> QED BY <3>1, <3>2
    <2>2. offset < Len(s)
      BY <1>1
    <2>3. /\ B!RangeAt(gs, n, offset) # << >>
          /\ B!RangeAt(gs, n, offset) = B!First(B!After(s, offset), Len(B!RangeAt(gs, n, offset)))
          /\ B!HeadSize(gs, offset) >= m => B!RangeAt(gs, n, offset) = B!First(B!After(s, offset), n)
      BY <1>2, <2>1, <2>2, RangeIs
    <2> QED BY <2>1, <2>3
  <1> QED BY <1>1, <1>2, <1>3, <1>4 DEF B!Ranges

\* The inductive invariant implies ReadsStream.
LEMMA BuffersReadable ==
  ASSUME BufferAssumption, BufferInv PROVE B!ReadsStream
  <1>1. Amounts \subseteq Nat /\ Rooms \subseteq Nat
    BY DEF BufferAssumption
  <1>2. ASSUME NEW b \in Buffers
        PROVE  /\ \A offset \in Amounts : offset < sizes[b] =>
                    /\ B!ReadsRest(fragments[b], sizes[b], B!After(stream[b], offset), offset)
                    /\ \A n \in Amounts \ {0}, more \in Rooms : B!Ranges(b, n, offset, more)
               /\ B!HandsOut(fragments[b], stream[b])
    <2>1. PICK fs \in Seq(Frags), s \in Bytes, z \in Nat :
            fs = fragments[b] /\ s = stream[b] /\ z = sizes[b] /\ B!Content(fs) = s /\ z = Len(s)
      BY HoldsEach DEF Holds, BufferInv, BufferTypes
    <2>2. ASSUME NEW offset \in Amounts, offset < z
          PROVE  B!ReadsRest(fs, z, B!After(s, offset), offset)
      <3>1. offset \in Nat
        BY <1>1
      <3> QED BY <1>1, <2>1, <2>2, <3>1, ReadsAt
    <2>3. B!HandsOut(fs, s)
      BY <1>1, <2>1, HandsOutFirst
    <2>4. ASSUME NEW offset \in Amounts, offset < z, NEW n \in Amounts \ {0}, NEW more \in Rooms
          PROVE  B!Ranges(b, n, offset, more)
      <3>1. offset \in Nat /\ n \in Nat /\ n > 0 /\ more \in Nat /\ offset < sizes[b]
        BY <1>1, <2>1, <2>4
      <3> QED BY <3>1, BuffersRange
    <2> QED BY <2>1, <2>2, <2>3, <2>4
  <1> QED BY <1>2 DEF B!ReadsStream

\* Readers and the kernel see through the fragments, and range, whose coalesce
\* starts at its own offset (buffer.cpp:163), hands out what is there: all it was
\* asked for from the start of a fragment, and without losing a byte, wherever
\* the call does not wrap its length (reader.h, buffer.cpp:155-166).
THEOREM BuffersRead ==
  ASSUME BufferAssumption, ~MayWrap
  PROVE  B!Spec => []ReadsStream
  <1>1. B!Init => BufferInv
    BY BufferInitial
  <1>2. BufferInv /\ [B!Next]_B!vars => BufferInv'
    BY BufferStep
  <1>3. BufferInv => ReadsStream
    BY BuffersReadable DEF ReadsStream
  <1> QED BY <1>1, <1>2, <1>3, PTL DEF B!Spec
=============================================================================
