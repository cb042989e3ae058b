----------------------------- MODULE RingBuffer -----------------------------
(***************************************************************************)
(* polymorphic_sp_sc_ring_buffer (xi/util): objects of different sizes in  *)
(* a ring of bytes, one thread that pushes and one that reads.  A block is *)
(* a word that holds its size, and the object.  The writer publishes a     *)
(* block by storing the write index, the reader gives one back by storing  *)
(* the read index; a marker, or too little room for one, sends the reader  *)
(* back to the start of the ring.                                          *)
(*                                                                         *)
(* The loads and stores of the two indices are steps of their own.  cell   *)
(* says what a reader finds at an offset; a write destroys every block     *)
(* that it overlaps.  The reader pops only what next has returned, as the  *)
(* tests do.                                                               *)
(***************************************************************************)
EXTENDS Integers, Sequences

CONSTANTS
  Objects,   \* what may be pushed
  Length,    \* per object: the size of its block, align_up(sizeof(pod), ...)
  Word,      \* sizeof(size_t)
  Sizes,     \* the sizes a ring may be constructed with
  Reserves,  \* the reserves a ring may be constructed with
  Marker,    \* 0xDEADBEEFFACEC0DE
  Junk,      \* bytes that are neither a block nor a marker
  None       \* nullptr

\* A block has room for its size and for an object; an empty ring of size 0
\* would report 2^64 - 1 bytes of room.
ASSUME RingAssumption ==
  /\ Word \in Nat \ {0}
  /\ Length \in [Objects -> Nat]
  /\ \A x \in Objects : Length[x] > Word
  /\ Sizes \subseteq Nat \ {0}
  /\ Reserves \subseteq Nat
  /\ {Marker, Junk, None} \cap Objects = {}
  /\ Marker # Junk /\ Junk # None /\ Marker # None

VARIABLES
  size,       \* _SIZE
  reserved,   \* _RESERVED_SIZE
  write_idx,  \* _write_idx
  read_idx,   \* _read_idx
  cell,       \* _data
  writer,     \* where do_push is: its object and the offset it writes to
  reader,     \* where the reader is, and what next has returned
  unread      \* history: the offset and object of each published block that
              \* was not popped, oldest first

ring == <<size, reserved>>
vars == <<ring, write_idx, read_idx, cell, writer, reader, unread>>

Offsets == 0 .. size - 1

Resting == [at |-> "idle", object |-> None, offset |-> 0]

Init ==
  /\ size \in Sizes
  /\ reserved \in Reserves
  /\ write_idx = 0
  /\ read_idx = 0
  /\ cell = [i \in Offsets |-> Junk]
  /\ writer = Resting
  /\ reader = [at |-> "idle", object |-> None]
  /\ unread = << >>

----------------------------------------------------------------------------
(***************************************************************************)
(* The bytes.                                                              *)
(***************************************************************************)

\* The intervals of n bytes at i and of m bytes at j have a byte in common.
Overlap(i, n, j, m) == i < j + m /\ j < i + n

\* The bytes of what starts at i, if it is a block.
BlockLength(c, i) == IF c[i] \in Objects THEN Length[c[i]] ELSE 1

\* n bytes are written at i, of which the first word holds x.
Written(c, i, n, x) ==
  [j \in DOMAIN c |->
     IF j = i THEN x
     ELSE IF Overlap(j, BlockLength(c, j), i, n) THEN Junk ELSE c[j]]

----------------------------------------------------------------------------
(***************************************************************************)
(* do_push.                                                                *)
(***************************************************************************)

\* write_available.  The difference may wrap as a size_t; the sum does not.
WriteAvailable(w, r) == IF w >= r THEN r - w - 1 + size ELSE r - w - 1

\* A block of n bytes at w would reach the end of the ring.
WrapsAround(w, n) == w + n >= size

\* Where a block goes that is pushed at w.
Target(w, n) == IF WrapsAround(w, n) THEN 0 ELSE w

\* Mutant: the room is not computed again after wrapping around.
FitsBeforeWrap(w, r, n) == WriteAvailable(w, r) >= n

\* There is room at w and, after wrapping around, at the start.
Fits(w, r, n) ==
  /\ WriteAvailable(w, r) >= n
  /\ WriteAvailable(Target(w, n), r) >= n

\* An unforced push leaves the reserve free.
RespectsReserve(w, r, n, force) ==
  force \/ WriteAvailable(Target(w, n), r) - n >= reserved

\* push or push_forced, up to the decision to write (a refused push changes
\* nothing); the read index is loaded here and used later.
PushBegins(x, force) ==
  /\ writer.at = "idle"
  /\ Fits(write_idx, read_idx, Length[x])
  /\ RespectsReserve(write_idx, read_idx, Length[x], force)
  /\ writer' = [at |-> "write", object |-> x,
                offset |-> Target(write_idx, Length[x])]
  /\ UNCHANGED <<ring, write_idx, read_idx, cell, reader, unread>>

\* Mutant: the marker is forgotten.
NeverMarks == FALSE

\* The writer wraps around and there is room for a marker.
Marks == writer.offset < write_idx /\ size - write_idx > Word

\* The bytes after the marker, if there is one.
MaybeMarked == IF Marks THEN Written(cell, write_idx, Word, Marker) ELSE cell

\* The marker and the block are written.
PushWrites ==
  /\ writer.at = "write"
  /\ cell' = Written(MaybeMarked, writer.offset, Length[writer.object],
                     writer.object)
  /\ writer' = [writer EXCEPT !.at = "publish"]
  /\ UNCHANGED <<ring, write_idx, read_idx, reader, unread>>

\* The constructor of the object throws: the marker is there and the object
\* is half written, but nothing was published.
PushThrows ==
  /\ writer.at = "write"
  /\ cell' = Written(MaybeMarked, writer.offset, Length[writer.object], Junk)
  /\ writer' = Resting
  /\ UNCHANGED <<ring, write_idx, read_idx, reader, unread>>

PushPublishes ==
  /\ writer.at = "publish"
  /\ write_idx' = writer.offset + Length[writer.object]
  /\ unread' = Append(unread, [at |-> writer.offset, object |-> writer.object])
  /\ writer' = Resting
  /\ UNCHANGED <<ring, read_idx, cell, reader>>

----------------------------------------------------------------------------
(***************************************************************************)
(* next and pop.                                                           *)
(***************************************************************************)

\* The reader has to go back to the start of the ring.
AtEnd(r) == cell[r] = Marker \/ size - r <= Word

\* next finds that nothing was published.
NextFindsNothing ==
  /\ reader.at # "wrap"
  /\ read_idx = write_idx
  /\ reader' = [at |-> "idle", object |-> None]
  /\ UNCHANGED <<ring, write_idx, read_idx, cell, writer, unread>>

\* next finds a block, or the end of the ring.
NextFindsBlock ==
  /\ reader.at # "wrap"
  /\ read_idx # write_idx
  /\ reader' = IF AtEnd(read_idx)
               THEN [at |-> "wrap", object |-> None]
               ELSE [at |-> "found", object |-> cell[read_idx]]
  /\ UNCHANGED <<ring, write_idx, read_idx, cell, writer, unread>>

\* next goes back to the start and returns what is there.
NextWraps ==
  /\ reader.at = "wrap"
  /\ read_idx' = 0
  /\ reader' = [at |-> "found", object |-> cell[0]]
  /\ UNCHANGED <<ring, write_idx, cell, writer, unread>>

\* pop: the object is destroyed and its block given back.
Pop ==
  /\ reader.at = "found"
  /\ read_idx # write_idx
  /\ read_idx' = IF cell[read_idx] = Marker THEN 0
                 ELSE read_idx + BlockLength(cell, read_idx)
  /\ unread' = IF cell[read_idx] = Marker THEN unread ELSE Tail(unread)
  /\ reader' = [at |-> "idle", object |-> None]
  /\ UNCHANGED <<ring, write_idx, cell, writer>>

Next ==
  \/ \E x \in Objects, force \in BOOLEAN : PushBegins(x, force)
  \/ PushWrites
  \/ PushThrows
  \/ PushPublishes
  \/ NextFindsNothing
  \/ NextFindsBlock
  \/ NextWraps
  \/ Pop

Spec == Init /\ [][Next]_vars

----------------------------------------------------------------------------
(***************************************************************************)
(* Properties.                                                             *)
(***************************************************************************)

\* What do_push writes, block and marker, lies within the ring and touches no
\* unread block, although the reader has moved on since its index was loaded.
WritesFreeSpace ==
  writer.at = "write" =>
    LET n == Length[writer.object] IN
    /\ writer.offset + n < size
    /\ \A i \in DOMAIN unread :
         LET m == Length[unread[i].object] IN
         /\ ~Overlap(writer.offset, n, unread[i].at, m)
         /\ Marks => ~Overlap(write_idx, Word, unread[i].at, m)

\* next returns the oldest unread block, whole, until it is popped.
NextIsOldest ==
  reader.at = "found" =>
    /\ unread # << >>
    /\ Head(unread).at = read_idx
    /\ reader.object = Head(unread).object
    /\ cell[read_idx] = Head(unread).object

=============================================================================
