------------------------------- MODULE Buffer -------------------------------
(***************************************************************************)
(* The I/O buffers (xi/io): a buffer is a list of fragments and the sum of *)
(* their sizes.  A fragment is a range of a block of memory that others    *)
(* may share, with room before and after its bytes.  Readers, iovec        *)
(* adapters and fragment strings look at the same list.                    *)
(*                                                                         *)
(* A fragment is [data, tail, shared]: its bytes, the room after them, and *)
(* whether another fragment has the same room (a clone).  The room before  *)
(* the bytes is left out: no operation looks at it.  An own<buffer> that   *)
(* is null is an empty buffer.                                             *)
(***************************************************************************)
EXTENDS Integers, Sequences, FiniteSets, SequencesExt

CONSTANTS
  Buffers,     \* the buffers of a program
  Capacities,  \* sizes asked of the allocator
  Rooms,       \* what malloc adds to them
  Amounts,     \* sizes given to the operations
  MaxBytes,    \* bound: how many bytes are written, all told
  MaxFragments,\* bound: how many fragments there are in all the buffers
  MayWrap      \* whether programs make the calls to coalesce that wrap

VARIABLES
  fragments,  \* per buffer: _fragments
  size,       \* per buffer: _size
  written,    \* how many bytes were written; each is given its number
  stream      \* history, per buffer: the bytes it should have

vars == <<fragments, size, written, stream>>

Init ==
  /\ fragments = [b \in Buffers |-> << >>]
  /\ size = [b \in Buffers |-> 0]
  /\ written = 0
  /\ stream = [b \in Buffers |-> << >>]

----------------------------------------------------------------------------
(***************************************************************************)
(* Fragments and lists of them.                                            *)
(***************************************************************************)

Least(m, n) == IF m < n THEN m ELSE n

Size(f) == Len(f.data)

\* The first and the last n bytes of s, and what is left without them.
First(s, n) == SubSeq(s, 1, Least(n, Len(s)))
After(s, n) == SubSeq(s, Least(n, Len(s)) + 1, Len(s))
Without(s, n) == SubSeq(s, 1, Len(s) - Least(n, Len(s)))

\* fragment::skip_bytes and ignore_bytes_at_end.
FragmentSkip(f, n) == [f EXCEPT !.data = After(@, n)]

FragmentIgnore(f, n) ==
  [f EXCEPT !.tail = @ + Least(n, Size(f)), !.data = Without(@, n)]

\* fragment::write: as much as there is room for.
FragmentWrite(f, s) ==
  [f EXCEPT !.data = @ \o First(s, f.tail), !.tail = @ - Least(Len(s), f.tail)]

\* fragment::read: up to n bytes from the offset.
FragmentRead(f, n, offset) == First(After(f.data, offset), n)

\* fragment::record_bytes: s is in the room after the bytes already.
FragmentRecord(f, s) == FragmentWrite(f, s)

\* fragment::clone: the same bytes and the same room, for both.
FragmentClone(f) == [f EXCEPT !.shared = TRUE]

\* fragment::split: the second part keeps the room after the bytes.
SplitFront(f, n) == [f EXCEPT !.data = First(@, n), !.tail = 0]
SplitBack(f, n)  == [f EXCEPT !.data = After(@, n)]

\* The bytes of a list.
Content(fs) ==
  LET upto[i \in 0 .. Len(fs)] ==
        IF i = 0 THEN << >> ELSE upto[i - 1] \o fs[i].data
  IN  upto[Len(fs)]

\* How many bytes there are up to the end of each fragment.
Ends(fs) ==
  LET end[i \in 0 .. Len(fs)] ==
        IF i = 0 THEN 0 ELSE end[i - 1] + Size(fs[i])
  IN  end

\* skip_offset: how many fragments end at or before offset n.
Skipped(fs, n) ==
  LET end    == Ends(fs)
      Passed == {i \in 0 .. Len(fs) : end[i] <= n}
  IN  CHOOSE i \in Passed : \A j \in Passed : j <= i

\* What is left of the offset in the fragment where skip_offset stops.
Remainder(fs, n) == n - Ends(fs)[Skipped(fs, n)]

\* The first i fragments of a list, and the others.
Prefix(fs, i) == SubSeq(fs, 1, i)
Suffix(fs, i) == SubSeq(fs, i + 1, Len(fs))

\* The program may have n more fragments.
MayAdd(n) ==
  Cardinality(UNION {{b} \X DOMAIN fragments[b] : b \in Buffers}) + n
    <= MaxFragments

----------------------------------------------------------------------------
(***************************************************************************)
(* Buffers.                                                                *)
(***************************************************************************)

\* push_back and push_front of a buffer: its fragments are moved.
PushBack(b, c) ==
  /\ b # c
  /\ fragments' = [fragments EXCEPT ![b] = @ \o fragments[c], ![c] = << >>]
  /\ size' = [size EXCEPT ![b] = @ + size[c], ![c] = 0]
  /\ stream' = [stream EXCEPT ![b] = @ \o stream[c], ![c] = << >>]
  /\ UNCHANGED written

PushFront(b, c) ==
  /\ b # c
  /\ fragments' = [fragments EXCEPT ![b] = fragments[c] \o @, ![c] = << >>]
  /\ size' = [size EXCEPT ![b] = @ + size[c], ![c] = 0]
  /\ stream' = [stream EXCEPT ![b] = stream[c] \o @, ![c] = << >>]
  /\ UNCHANGED written

\* basic_buffer_allocator::allocate: one fragment without bytes.
Allocated(n, more) == [data |-> << >>, tail |-> n + more, shared |-> FALSE]

\* A new buffer is pushed at the end of b; one without room is dropped.
Allocate(b, n, more) ==
  /\ MayAdd(1)
  /\ n + more > 0
  /\ fragments' = [fragments EXCEPT ![b] = Append(@, Allocated(n, more))]
  /\ UNCHANGED <<size, written, stream>>

\* The bytes with the next n numbers.
Fresh(n) == [i \in 1 .. n |-> written + i]

\* The last fragment gets up to n bytes and becomes grown.  The caller knows
\* that nobody shares its room.
Extend(b, n, grown) ==
  /\ n > 0 /\ written + n <= MaxBytes
  /\ ~Last(fragments[b]).shared
  /\ LET got == Least(n, Last(fragments[b]).tail)
     IN  /\ fragments' = [fragments EXCEPT ![b] = Append(Front(@), grown)]
         /\ size' = [size EXCEPT ![b] = @ + got]
         /\ stream' = [stream EXCEPT ![b] = @ \o Fresh(got)]
         /\ written' = written + got

\* write: bytes go to the last fragment only.
Write(b, n) ==
  /\ fragments[b] # << >>
  /\ Extend(b, n, FragmentWrite(Last(fragments[b]), Fresh(n)))

\* The kernel was given the room of the last fragment (fill_writable_iovec)
\* and has filled n bytes of it (report_written).
ReportWritten(b, n) ==
  /\ fragments[b] # << >>
  /\ n <= Last(fragments[b]).tail
  /\ Extend(b, n, FragmentRecord(Last(fragments[b]), Fresh(n)))

\* clone: the same bytes and the same room.
Clone(b, c) ==
  /\ b # c /\ fragments[c] = << >> /\ fragments[b] # << >>
  /\ MayAdd(Len(fragments[b]))
  /\ LET twins == [i \in DOMAIN fragments[b] |->
                     FragmentClone(fragments[b][i])]
     IN  fragments' = [fragments EXCEPT ![b] = twins, ![c] = twins]
  /\ size' = [size EXCEPT ![c] = size[b]]
  /\ stream' = [stream EXCEPT ![c] = stream[b]]
  /\ UNCHANGED written

\* The destructor frees the fragments.
Destroy(b) ==
  /\ fragments[b] # << >>
  /\ fragments' = [fragments EXCEPT ![b] = << >>]
  /\ size' = [size EXCEPT ![b] = 0]
  /\ stream' = [stream EXCEPT ![b] = << >>]
  /\ UNCHANGED written

\* The list after split has cut the fragment that offset n is in.
Cut(fs, n) ==
  LET i == Skipped(fs, n)
      r == Remainder(fs, n)
  IN  IF r = 0 THEN fs
      ELSE Prefix(fs, i)
             \o <<SplitFront(fs[i + 1], r), SplitBack(fs[i + 1], r)>>
             \o Suffix(fs, i + 1)

\* split: the first n bytes move to c, or all there are.
Split(b, c, n) ==
  /\ b # c /\ fragments[c] = << >>
  /\ fragments[b] # << >> /\ n # 0
  /\ MayAdd(1)
  /\ LET fs  == Cut(fragments[b], n)
         all == size[b] < n
         i   == IF all THEN Len(fragments[b])
                ELSE Skipped(fragments[b], n)
                       + (IF Remainder(fragments[b], n) > 0 THEN 1 ELSE 0)
         front == IF all THEN fragments[b] ELSE Prefix(fs, i)
     IN  /\ fragments' = [fragments EXCEPT
                            ![b] = IF all THEN << >> ELSE Suffix(fs, i),
                            ![c] = front]
         /\ size' = [size EXCEPT ![b] = IF all THEN 0 ELSE @ - Ends(fs)[i],
                                 ![c] = IF all THEN size[b] ELSE n]
  /\ stream' = [stream EXCEPT ![b] = After(@, n), ![c] = First(stream[b], n)]
  /\ UNCHANGED written

----------------------------------------------------------------------------
(***************************************************************************)
(* coalesce and range.                                                     *)
(***************************************************************************)

\* into, with bytes copied to it from fs until it has n, and what is left of
\* fs.
Gathered(into, fs, n) ==
  LET rest  == n - Size(into)
      k     == Skipped(fs, rest)
      r     == Remainder(fs, rest)
      full  == FragmentWrite(into, Content(Prefix(fs, k)))
  IN  IF r = 0 THEN <<full>> \o Suffix(fs, k)
      ELSE <<FragmentWrite(full, First(fs[k + 1].data, r)),
             FragmentSkip(fs[k + 1], r)>> \o Suffix(fs, k + 1)

\* The fragment that the offset is in, and what it has from there on.
There(fs, offset) == fs[Skipped(fs, offset) + 1]

HeadSize(fs, offset) == Size(There(fs, offset)) - Remainder(fs, offset)

\* It has room for length bytes from the offset on.
HasRoom(fs, offset, length) ==
  HeadSize(fs, offset) + There(fs, offset).tail >= length

\* length is counted from the offset, and then all that the fragment has is
\* taken from it, as if the offset were its first byte: that wraps if there is
\* more.
Wraps(fs, offset, length) ==
  HasRoom(fs, offset, length) /\ length < Size(There(fs, offset))

\* The list with length bytes made contiguous, from the start of the fragment
\* that the offset is in: in that fragment, if there is room, or in a new one
\* before it.
Coalesced(fs, offset, length, more) ==
  LET skip == Skipped(fs, offset)
  IN  Prefix(fs, skip) \o
        IF HasRoom(fs, offset, length)
        THEN Gathered(There(fs, offset), Suffix(fs, skip + 1), length)
        ELSE Gathered(Allocated(length, more), Suffix(fs, skip), length)

\* A length that has wrapped is never used up: of all the later fragments what
\* there is room for is copied, all are erased, and what is behind the end of
\* the list is taken for a fragment.  It may have bytes, 0 for each.
Overrun(fs, offset) ==
  LET skip == Skipped(fs, offset)
      rest == Content(Suffix(fs, skip + 1))
  IN  {Append(Prefix(fs, skip), FragmentWrite(There(fs, offset), rest \o junk)) :
         junk \in {<< >>, <<0>>}}

\* How many bytes n asks for, and whether coalesce has to move some.
Asked(b, n, offset) == Least(n, size[b] - offset)

MustCoalesce(b, n, offset) ==
  /\ fragments[b] # << >> /\ n # 0 /\ offset < size[b]
  /\ HeadSize(fragments[b], offset) < Asked(b, n, offset)

\* The bytes do not go where another fragment has room.
Coalesce(b, n, offset, more) ==
  /\ MustCoalesce(b, n, offset)
  /\ LET fs     == fragments[b]
         length == Asked(b, n, offset)
     IN  /\ IF HasRoom(fs, offset, length) THEN ~There(fs, offset).shared ELSE MayAdd(1)
         /\ Wraps(fs, offset, length) => MayWrap
         /\ \E joined \in IF Wraps(fs, offset, length) THEN Overrun(fs, offset)
                           ELSE {Coalesced(fs, offset, length, more)} :
              fragments' = [fragments EXCEPT ![b] = joined]
  /\ UNCHANGED <<size, written, stream>>

\* range: what is contiguous from the offset on after coalesce.
RangeAt(fs, n, offset) == First(After(There(fs, offset).data, Remainder(fs, offset)), n)

----------------------------------------------------------------------------
(***************************************************************************)
(* skip_bytes and ignore_bytes_at_end.                                     *)
(***************************************************************************)

\* Mutant: the size shrinks by what was asked, even if there is less.
ShrunkByAll(b, n) == size[b] - n

\* The size after n bytes were dropped: 0 if the end was reached.
Shrunk(b, n) ==
  IF Skipped(fragments[b], n) = Len(fragments[b]) THEN 0 ELSE size[b] - n

\* skip_bytes: n bytes are dropped at the front, with their fragments if free.
SkipBytes(b, n, free) ==
  /\ fragments[b] # << >>
  /\ LET fs    == fragments[b]
         i     == Skipped(fs, n)
         front == IF free THEN << >>
                  ELSE [j \in 1 .. i |-> FragmentSkip(fs[j], Size(fs[j]))]
         back  == IF i = Len(fs) THEN << >>
                  ELSE <<FragmentSkip(fs[i + 1], Remainder(fs, n))>>
                         \o Suffix(fs, i + 1)
     IN  fragments' = [fragments EXCEPT ![b] = front \o back]
  /\ size' = [size EXCEPT ![b] = Shrunk(b, n)]
  /\ stream' = [stream EXCEPT ![b] = After(@, n)]
  /\ UNCHANGED written

\* ignore_bytes_at_end: the same from the back.
IgnoreBytesAtEnd(b, n, free) ==
  /\ fragments[b] # << >>
  /\ LET fs   == Reverse(fragments[b])
         i    == Skipped(fs, n)
         back == IF free THEN << >>
                 ELSE [j \in 1 .. i |-> FragmentIgnore(fs[j], Size(fs[j]))]
         front == IF i = Len(fs) THEN << >>
                  ELSE <<FragmentIgnore(fs[i + 1], Remainder(fs, n))>>
                         \o Suffix(fs, i + 1)
     IN  /\ fragments' = [fragments EXCEPT ![b] = Reverse(back \o front)]
         /\ size' = [size EXCEPT ![b] = IF i = Len(fs) THEN 0 ELSE @ - n]
  /\ stream' = [stream EXCEPT ![b] = Without(@, n)]
  /\ UNCHANGED written

\* A reader marks up to n bytes (mark_offset) and drops them
\* (discard_to_mark, read_value_and_skip).
DiscardToMark(b, n) == SkipBytes(b, Least(n, size[b]), TRUE)

\* A reader marks up to n bytes and takes them (consume_mark_into_buffer,
\* consume_mark_into_string).
ConsumeMark(b, c, n) == Split(b, c, Least(n, size[b]))

----------------------------------------------------------------------------
(***************************************************************************)
(* What only looks at a list of fragments.                                 *)
(***************************************************************************)

\* buffer::read: up to n bytes from the offset, fragment by fragment.
Read(fs, n, offset) ==
  LET i == Skipped(fs, offset)
      r == Remainder(fs, offset)
      read[k \in 0 .. Len(fs) - i] ==
        IF k = 0 THEN << >>
        ELSE read[k - 1] \o FragmentRead(fs[i + k], n - Len(read[k - 1]),
                                         IF k = 1 THEN r ELSE 0)
  IN  read[Len(fs) - i]

\* reader::read_value: a value of n bytes at the mark, or none.
ReadValue(fs, total, n, mark) ==
  IF mark < total /\ total - mark >= n THEN {Read(fs, n, mark)} ELSE {}

\* How many bytes come before the first one in stop; all if there is none.
RunLength(s, stop) ==
  LET Runs == {k \in 0 .. Len(s) : \A i \in 1 .. k : s[i] \notin stop}
  IN  CHOOSE k \in Runs : \A j \in Runs : j <= k

\* Mutant: the search goes on in the next fragment.
SkipGoesOn(fs, stop, offset) ==
  LET i   == Skipped(fs, offset)
      r   == Remainder(fs, offset)
      n[j \in i .. Len(fs)] ==
        IF j = i THEN 0
        ELSE n[j - 1] + RunLength(After(fs[j].data, IF j = i + 1 THEN r ELSE 0),
                                  stop)
  IN  n[Len(fs)]

\* reader::skip_any_of_and_mark and skip_any_not_of_and_mark: fragment by
\* fragment from the offset, until a byte in stop.
SkipUntil(fs, stop, offset) ==
  LET i    == Skipped(fs, offset)
      r    == Remainder(fs, offset)
      s(j) == After(fs[j].data, IF j = i + 1 THEN r ELSE 0)
      n[j \in i + 1 .. Len(fs) + 1] ==
        IF j > Len(fs) THEN 0
        ELSE LET k == RunLength(s(j), stop)
             IN  IF k < Len(s(j)) THEN k ELSE k + n[j + 1]
  IN  n[i + 1]

\* reader::find_byte: how far it is from the offset to the next byte x; -1 if
\* there is none.
FindByte(fs, total, x, offset) ==
  LET n == SkipUntil(fs, {x}, offset)
  IN  IF offset >= total \/ offset + n = total THEN -1 ELSE n

\* reader::next_data_range: what the mark's fragment has after the mark.
NextDataRange(fs, total, mark) ==
  IF total = mark THEN << >>
  ELSE After(fs[Skipped(fs, mark) + 1].data, Remainder(fs, mark))

\* fill_readable_iovec: the fragments whose bytes are handed to the kernel, at
\* most max.
ReadableRanges(fs, max) ==
  LET ranges[i \in 0 .. Len(fs)] ==
        IF i = 0 THEN << >>
        ELSE IF Size(fs[i]) = 0 \/ Len(ranges[i - 1]) = max THEN ranges[i - 1]
        ELSE Append(ranges[i - 1], fs[i])
  IN  ranges[Len(fs)]

\* memcmp of as many bytes as both have: do they agree?
Agree(s, t) == \A i \in 1 .. Least(Len(s), Len(t)) : s[i] = t[i]

\* Mutant: every fragment is compared with the start of s.
ComparesStart(fs, total, s) ==
  total = Len(s) /\ \A i \in DOMAIN fs : Agree(fs[i].data, s)

\* fragment_string::compare with a string, as far as equality goes: the bytes
\* of each fragment against the next ones of s, while there are any, then the
\* sizes.
ComparesEqual(fs, total, s) ==
  /\ \A i \in DOMAIN fs :
       LET offset == Ends(fs)[i - 1]
       IN  offset < Len(s) => Agree(fs[i].data, After(s, offset))
  /\ total = Len(s)

\* fragment_string::compare with another one: fragments in pairs, until the
\* sizes of two differ.
ComparesEqualTo(fs, m, gs, n) ==
  LET both == 1 .. Least(Len(fs), Len(gs))
      Stop == {i \in both : Size(fs[i]) # Size(gs[i])}
  IN  /\ m = n
      /\ n = 0 \/ \A i \in both : (\A j \in Stop : i <= j)
                                    => Agree(fs[i].data, gs[i].data)

----------------------------------------------------------------------------

Next ==
  \E b \in Buffers :
    \/ \E n \in Capacities, more \in Rooms : Allocate(b, n, more)
    \/ \E n \in Amounts : Write(b, n)
    \/ \E n \in Amounts : ReportWritten(b, n)
    \/ Destroy(b)
    \/ \E n, offset \in Amounts, more \in Rooms : Coalesce(b, n, offset, more)
    \/ \E n \in Amounts, free \in BOOLEAN : SkipBytes(b, n, free)
    \/ \E n \in Amounts, free \in BOOLEAN : IgnoreBytesAtEnd(b, n, free)
    \/ \E n \in Amounts : DiscardToMark(b, n)
    \/ \E c \in Buffers :
         \/ PushBack(b, c)
         \/ PushFront(b, c)
         \/ Clone(b, c)
         \/ \E n \in Amounts : Split(b, c, n)
         \/ \E n \in Amounts : ConsumeMark(b, c, n)

Spec == Init /\ [][Next]_vars

----------------------------------------------------------------------------
(***************************************************************************)
(* Properties.                                                             *)
(***************************************************************************)

\* However a buffer was cut, joined, coalesced and drained, its fragments hold
\* the bytes it should have, in order, and _size says how many.  (With MayWrap,
\* the calls to coalesce that wrap are made as well.)
HoldsStream ==
  \A b \in Buffers : /\ Content(fragments[b]) = stream[b]
                     /\ size[b] = Len(stream[b])

\* What a reader at the offset sees is the rest of the bytes: with read and
\* read_value, with the searches, and as the next contiguous range.
ReadsRest(fs, total, rest, offset) ==
  /\ \A n \in Amounts :
       /\ Read(fs, n, offset) = First(rest, n)
       /\ ReadValue(fs, total, n, offset) = {t \in {First(rest, n)} : Len(t) = n}
  /\ \A x \in 1 .. MaxBytes :
       LET found == FindByte(fs, total, x, offset)
           run   == SkipUntil(fs, Nat \ {x}, offset)
       IN  /\ IF x \in ToSet(rest)
              THEN /\ found + 1 \in DOMAIN rest /\ rest[found + 1] = x
                   /\ \A i \in 1 .. found : rest[i] # x
              ELSE found = -1
           /\ run \in 0 .. Len(rest) /\ \A i \in 1 .. run : rest[i] = x
           /\ run = Len(rest) \/ rest[run + 1] # x
  /\ LET range == NextDataRange(fs, total, offset)
     IN  range # << >> /\ range = First(rest, Len(range))

\* What the kernel is given to write starts with the first byte, and has all
\* of them unless there are too many ranges.
HandsOut(fs, bytes) ==
  \A max \in Amounts :
    LET ranges == ReadableRanges(fs, max)
        given  == Content(ranges)
    IN  /\ given = First(bytes, Len(given))
        /\ Len(ranges) < max => given = bytes

\* What coalesce makes of a list with these bytes has them still, and range then
\* returns what they are from the offset on: at least one, and all that was
\* asked for unless the offset is inside of a fragment that had too few.
Ranges(b, n, offset, more) ==
  LET fs     == fragments[b]
      length == Asked(b, n, offset)
      must   == MustCoalesce(b, n, offset)
      joined == IF must THEN Coalesced(fs, offset, length, more) ELSE fs
      rest   == After(stream[b], offset)
      range  == RangeAt(joined, n, offset)
  IN  ~(must /\ Wraps(fs, offset, length)) =>
        /\ Content(joined) = stream[b]
        /\ range # << >> /\ range = First(rest, Len(range))
        /\ ~must \/ Remainder(fs, offset) = 0 => range = First(rest, n)

\* Readers see through the fragments: read, read_value, find_byte and the skips
\* return what they would for one contiguous range, whatever the offset, and so
\* does what is handed to the kernel.  So does range, after a coalesce that does
\* not wrap.
ReadsStream ==
  \A b \in Buffers :
    /\ \A offset \in Amounts : offset < size[b] =>
         /\ ReadsRest(fragments[b], size[b], After(stream[b], offset), offset)
         /\ \A n \in Amounts \ {0}, more \in Rooms : Ranges(b, n, offset, more)
    /\ HandsOut(fragments[b], stream[b])

\* A fragment string equals a string exactly if it has its bytes; two fragment
\* strings with the same bytes are equal however they are cut.
ComparesBytes ==
  \A b, c \in Buffers :
    /\ ComparesEqual(fragments[b], size[b], stream[c])
         <=> stream[b] = stream[c]
    /\ stream[b] = stream[c] =>
         ComparesEqualTo(fragments[b], size[b], fragments[c], size[c])
=============================================================================
