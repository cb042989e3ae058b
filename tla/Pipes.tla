------------------------------- MODULE Pipes -------------------------------
(***************************************************************************)
(* A pipe of filters (io/pipes).  A message that is read passes the filters *)
(* that take it from the front to the back, one that is written from the   *)
(* back to the front.  Each context keeps the next one in either direction *)
(* and the pipe the first; the links are found with a cast when a filter is *)
(* added and repaired when one is removed, which happens in a later task.  *)
(*                                                                         *)
(* The links of one type of message are independent of those of the others *)
(* (one base class each), so there is one type; a filter takes it in either *)
(* direction, in one (read_only, write_only) or not at all.                *)
(***************************************************************************)
EXTENDS Naturals, Sequences, SequencesExt

CONSTANTS
  Filters, None,
  MaxDeferred   \* bound: removals that are pending

VARIABLES
  ends,                  \* the pipe's own: the ends at which a message enters
  reads, writes,         \* the filters that take the message in a direction
  contexts,              \* pipe_base::_contexts
  head, tail,            \* pipe_link::_head, _tail
  nextRead, nextWrite,   \* per filter: read_link_impl, write_link_impl
  deferred,              \* removals that were deferred
  plain                  \* history: filters came at the back, and were removed
                         \* one at a time

vars == <<ends, reads, writes, contexts, head, tail, nextRead, nextWrite, deferred, plain>>

roles == <<ends, reads, writes>>

Init ==
  /\ ends \in {{"head", "tail"}, {"head"}, {"tail"}}
  /\ reads \in SUBSET Filters /\ writes \in SUBSET Filters
  /\ contexts = << >>
  /\ head = None /\ tail = None
  /\ nextRead = [f \in Filters |-> None]
  /\ nextWrite = [f \in Filters |-> None]
  /\ deferred = << >>
  /\ plain = TRUE

In == ToSet(contexts)

\* The contexts of s that are in S, in order.
Only(s, S) ==
  LET only[i \in 0 .. Len(s)] ==
        IF i = 0 THEN << >>
        ELSE IF s[i] \in S THEN Append(only[i - 1], s[i]) ELSE only[i - 1]
  IN only[Len(s)]

\* A pipe takes the message at both ends, or it is read_only or write_only.
HasHead == "head" \in ends

HasTail == "tail" \in ends

\* A context is a read_link, unless its filter is write_only, and a write_link,
\* unless it is read_only.
IsReadLink(f) == f \in reads

IsWriteLink(f) == f \in writes

\* The first of a sequence of contexts that is a write_link.
FirstWriteLink(s) ==
  LET found == Only(s, writes)
  IN IF found = << >> THEN None ELSE Head(found)

\* add_read_if_null: the contexts that are there and read on to nobody read on
\* to the new one.
AddReadIfNull(x) ==
  [f \in Filters |-> IF f = x THEN None
                     ELSE IF f \in In /\ IsReadLink(f) /\ IsReadLink(x) /\ nextRead[f] = None
                     THEN x ELSE nextRead[f]]

\* add_write_if_null, called with the contexts of s: the first one stays.
AddWriteIfNull(x, s) ==
  [nextWrite EXCEPT ![x] = IF IsWriteLink(x) THEN FirstWriteLink(s) ELSE None]

\* unlink_read and unlink_write of the contexts that are there.
Unlink(next, x) ==
  [f \in Filters |-> IF f \in In /\ next[f] = x THEN next[x] ELSE next[f]]

MaybeUpdateHead(x) ==
  /\ head' = IF HasHead /\ IsReadLink(x) THEN x ELSE head
  /\ tail' = IF HasTail /\ tail = None /\ IsWriteLink(x) THEN x ELSE tail

MaybeUpdateTail(x) ==
  /\ tail' = IF HasTail /\ IsWriteLink(x) THEN x ELSE tail
  /\ head' = IF HasHead /\ head = None /\ IsReadLink(x) THEN x ELSE head

MaybeChangeHead(x) == head' = IF head = x THEN nextRead[x] ELSE head

MaybeChangeTail(x) == tail' = IF tail = x THEN nextWrite[x] ELSE tail

----------------------------------------------------------------------------
PushBack(x) ==
  /\ x \notin In \cup ToSet(deferred)
  /\ nextRead' = AddReadIfNull(x)
  /\ nextWrite' = AddWriteIfNull(x, Reverse(contexts))
  /\ contexts' = Append(contexts, x)
  /\ MaybeUpdateTail(x)
  /\ UNCHANGED <<roles, deferred, plain>>

\* The new context gets a next writer and the others a next reader, as if it
\* came at the back.
PushFront(x) ==
  /\ x \notin In \cup ToSet(deferred)
  /\ nextRead' = AddReadIfNull(x)
  /\ nextWrite' = AddWriteIfNull(x, contexts)
  /\ contexts' = <<x>> \o contexts
  /\ MaybeUpdateHead(x)
  /\ plain' = (plain /\ contexts = << >>)
  /\ UNCHANGED <<roles, deferred>>

\* A filter removes itself, any number of times: messages that enter the pipe
\* skip it at once, the context goes in a task of its own.
RemoveContext(x) ==
  /\ x \in In /\ Len(deferred) < MaxDeferred
  /\ MaybeChangeHead(x)
  /\ MaybeChangeTail(x)
  /\ deferred' = Append(deferred, x)
  /\ plain' = (plain /\ ToSet(deferred) \subseteq {x})
  /\ UNCHANGED <<roles, contexts, nextRead, nextWrite>>

\* Bug: the links to the context that goes are left.
DoRemoveKeepingLinks ==
  /\ deferred # << >>
  /\ deferred' = Tail(deferred)
  /\ contexts' = Only(contexts, Filters \ {Head(deferred)})
  /\ UNCHANGED <<roles, head, tail, nextRead, nextWrite, plain>>

\* pipe_base::remove.
DoRemove ==
  /\ deferred # << >>
  /\ LET x == Head(deferred)
     IN /\ nextRead' = Unlink(nextRead, x)
        /\ nextWrite' = Unlink(nextWrite, x)
        /\ contexts' = Only(contexts, Filters \ {x})
  /\ deferred' = Tail(deferred)
  /\ UNCHANGED <<roles, head, tail, plain>>

Next ==
  \/ \E x \in Filters : PushBack(x) \/ PushFront(x) \/ RemoveContext(x)
  \/ DoRemove

Spec == Init /\ [][Next]_vars

----------------------------------------------------------------------------
(***************************************************************************)
(* What a message does.                                                    *)
(***************************************************************************)

\* filter_impl: a filter that does not handle a message itself passes it on to
\* the context after its own.
ForwardTo(path, next) ==
  IF path = << >> \/ next[Last(path)] = None THEN path
  ELSE Append(path, next[Last(path)])

\* The contexts that a message passes from the first one on.  (A link may lead
\* in a circle: it is followed once more than there are contexts.)
Path(first, next) ==
  LET path[n \in 0 .. Len(contexts) + 1] ==
        IF n = 0 THEN IF first = None THEN << >> ELSE <<first>>
        ELSE ForwardTo(path[n - 1], next)
  IN path[Len(contexts) + 1]

\* pipe::read and forward_read, pipe::write and forward_write.
ReadPath == Path(head, nextRead)

WritePath == Path(tail, nextWrite)

\* A message passes every filter of the pipe that takes it, once and in the
\* order of the pipe, whenever filters were added and one removed itself; a
\* filter whose removal is pending may still see it.  (Not after push_front or
\* when two removals are pending: the code then loses or keeps links.)
PassesEveryFilter ==
  LET stay == Filters \ ToSet(deferred)
  IN plain =>
       /\ ToSet(ReadPath) \cup ToSet(WritePath) \subseteq In
       /\ HasHead => Only(ReadPath, stay) = Only(contexts, reads \cap stay)
       /\ HasTail => Only(WritePath, stay) = Only(Reverse(contexts), writes \cap stay)
=============================================================================
