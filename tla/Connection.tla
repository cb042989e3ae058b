----------------------------- MODULE Connection -----------------------------
(***************************************************************************)
(* A stream connection on a shard: how the acceptor or the connector makes *)
(* it (io/net/async_channel.h), its event in the epoll loop                *)
(* (core/event_handler.cpp, core/epoll), its data_sink, and the HTTP/2     *)
(* codec as the filter on top of it.                                       *)
(*                                                                         *)
(* The shard is one thread: in each round it handles the events of the     *)
(* connection, in steps, and then runs the tasks that were there.  The peer *)
(* and the kernel go on in between.  What is written is numbered, so that  *)
(* order and loss show.                                                    *)
(***************************************************************************)
EXTENDS Http2Decoder, Integers, Sequences, SequencesExt

CONSTANTS
  ChunkSizes,   \* bytes that arrive at a time
  MaxChunks,    \* bound: how often bytes arrive that the codec gets
  MaxWrites,    \* bound: buffers that the program writes
  MaxBuffered,  \* what _write_buf may hold before the peer is too slow
  Space         \* buffers that the kernel takes before it is full

ASSUME ConnectionAssumption ==
  /\ ChunkSizes \subseteq Nat \ {0} /\ MaxChunks \in Nat /\ MaxWrites \in Nat
  /\ MaxBuffered \in Nat \ {0} /\ Space \in Nat \ {0}

VARIABLES
  conn,      \* how far the connection is, see Connecting below
  event,     \* the handler's _event: none, active, cancelled, released
  interest,  \* event::_state
  registered,\* epoll has the descriptor
  pipe,      \* the data_sink and the tasks that were deferred, see NewPipe
  budget,    \* tasks of this round that are left, -1 while it has not come to them
  flags,     \* the state that handle has still to look at
  reading,   \* the read_data that the thread is in, or NotReading
  dec,       \* the decoder
  in,        \* bytes left in decode, or -1
  sent,      \* the kernel's: what it took
  space,     \* the kernel's: how much it takes now
  avail,     \* the kernel's: bytes that arrived
  more,      \* the kernel's: more bytes arrived, which are not counted
  peer,      \* open, shut, broken
  chunks,    \* how often bytes arrived
  toWrite,   \* buffers that the program has still to write
  blocked,   \* history: the last write left something in _write_buf
  misused    \* history: epoll_ctl failed

vars == <<conn, event, interest, registered, pipe, budget, flags, reading, dec, in, sent,
          space, avail, more, peer, chunks, toWrite, blocked, misused>>

thread == <<budget, flags>>
watch == <<event, interest, registered>>
decoding == <<dec, in>>
kernel == <<sent, space, avail, more, peer, chunks>>
program == <<conn, toWrite>>

\* got is the size of the buffer that is read into; -1 while it is empty(), which
\* means that it has no fragment.
NotReading == [onIo |-> FALSE, loops |-> 0, got |-> -1, close |-> FALSE, on |-> FALSE]

\* buf, scheduled and closing are the data_sink's; owed is how much had been
\* written when close was first called, or -1.
NewPipe == [buf |-> << >>, scheduled |-> FALSE, closing |-> FALSE, tasks |-> << >>,
            written |-> 0, owed |-> -1]

Init ==
  /\ conn = "none"
  /\ event = "none" /\ interest = {} /\ registered = FALSE
  /\ pipe = NewPipe
  /\ budget = 0 /\ flags = {} /\ reading = NotReading
  /\ dec = NewDecoder /\ in = -1
  /\ sent = << >> /\ space = Space /\ avail = 0 /\ more = FALSE /\ peer = "open" /\ chunks = 0
  /\ toWrite = MaxWrites
  /\ blocked = FALSE /\ misused = FALSE

----------------------------------------------------------------------------
(***************************************************************************)
(* Connecting.  From "none" a connection is "handed" to a shard as a        *)
(* descriptor, at once or after "connecting", and is then "open" until it   *)
(* is "gone"; or it is "refused".                                          *)
(***************************************************************************)

unconnected == <<watch, pipe, thread, reading, decoding, kernel, toWrite,
                 blocked, misused>>

\* stream_server_socket::accept: a descriptor, or an error that goes to the
\* acceptor's filters, and it waits for the next connection.
AcceptResults == {"handed", "none"}

\* acceptor_pipe::handle_read.  (Its task that announces the pipe changes nothing
\* of it.)
Accept ==
  /\ conn = "none"
  /\ conn' \in AcceptResults
  /\ UNCHANGED unconnected

\* acceptor_pipe::handle_error and handle_close: no connection is accepted.
AcceptorClose ==
  /\ conn = "none"
  /\ conn' = "refused"
  /\ UNCHANGED unconnected

\* socket::connect.
ConnectResults == {"handed", "connecting", "refused"}

\* connector_pipe::connect: the descriptor is connected, has to be waited for,
\* or there was an error, and then the future of connect is never set.
Connect ==
  /\ conn = "none"
  /\ conn' \in ConnectResults
  /\ UNCHANGED unconnected

\* connecting_socket::handle_write.  The descriptor is handed on before the
\* event is cancelled: on the shard of the connecting socket it cannot be
\* registered a second time.
ConnectingWritable ==
  /\ conn = "connecting"
  /\ conn' \in {"handed", "refused"}
  /\ UNCHANGED unconnected

\* event_loop::arm_event, mod_event and del_event.
ArmEvent == registered' = TRUE

ModEvent == misused' = (misused \/ ~registered)

DelEvent == registered' = FALSE

\* event::arm.
Arm(state) ==
  /\ event' = "active" /\ interest' = state
  /\ ArmEvent

\* The state that a new event of an io_handler has.
ExpectedState == {"read"}

\* event::add_state and remove_state.
ChangeState(new) ==
  /\ interest' = new
  /\ ModEvent
  /\ UNCHANGED registered

\* io_handler::expect_read and expect_write.
ExpectRead == ChangeState(interest \cup {"read"})

ExpectWrite(flag) ==
  ChangeState(IF flag THEN interest \cup {"write"} ELSE interest \ {"write"})

\* event_handler::attach_reactor, and the reactor that holds the handler.
AttachReactor == Arm(ExpectedState)

AttachHandler == conn' = "open" /\ AttachReactor

\* The task on the shard: the pipe is made and attached.
CreatePipe ==
  /\ conn = "handed"
  /\ AttachHandler
  /\ UNCHANGED <<pipe, thread, reading, decoding, kernel, toWrite, blocked, misused>>

----------------------------------------------------------------------------
(***************************************************************************)
(* The peer and the kernel.                                                *)
(***************************************************************************)

Arrive(n) ==
  /\ conn = "open" /\ peer = "open" /\ chunks < MaxChunks /\ ~more
  /\ avail' = avail + n
  /\ chunks' = chunks + 1
  /\ UNCHANGED <<program, watch, pipe, thread, reading, decoding, sent, space,
                 more, peer, blocked, misused>>

\* The peer goes on sending while the shard reads, without end.  The bytes are
\* read like the others, but none of them is counted.
ArriveMore ==
  /\ conn = "open" /\ peer = "open" /\ ~more
  /\ reading.on /\ in = -1 /\ reading.got > 0 /\ avail = 0
  /\ more' = TRUE
  /\ UNCHANGED <<program, watch, pipe, thread, reading, decoding, sent, space,
                 avail, peer, chunks, blocked, misused>>

Leave(how) ==
  /\ conn = "open" /\ peer = "open"
  /\ peer' = how
  /\ UNCHANGED <<program, watch, pipe, thread, reading, decoding, sent, space,
                 avail, more, chunks, blocked, misused>>

Drain ==
  /\ peer # "broken" /\ space < Space
  /\ space' = Space
  /\ UNCHANGED <<program, watch, pipe, thread, reading, decoding, sent, avail,
                 more, peer, chunks, blocked, misused>>

----------------------------------------------------------------------------
(***************************************************************************)
(* Operators on the data_sink.                                             *)
(***************************************************************************)

\* Bug: closing is put before what was deferred earlier.
CloseFirst(p) ==
  [p EXCEPT !.tasks = <<"close">> \o @, !.owed = IF @ = -1 THEN p.written ELSE @]

\* socket_base::close.
Close(p) ==
  [p EXCEPT !.tasks = Append(@, "close"), !.owed = IF @ = -1 THEN p.written ELSE @]

\* data_sink::write of a buffer.  (It is never written at once: _inline_writes
\* is 1 at least.)
Write(p) ==
  LET q == [p EXCEPT !.buf = Append(@, p.written + 1), !.written = @ + 1]
  IN IF Len(q.buf) > MaxBuffered THEN Close(q)
     ELSE IF q.closing \/ q.scheduled THEN q
     ELSE [q EXCEPT !.tasks = Append(@, "write"), !.scheduled = TRUE]

\* data_socket::write: the kernel takes what it has space for.  When that is
\* not all, the next sendmsg, if the buffer is long enough for one, would block.
WriteResults ==
  IF peer = "broken" THEN {"error"}
  ELSE IF space = 0 THEN {"retry"}
  ELSE IF space < Len(pipe.buf) THEN {"ok", "retry"}
  ELSE {"ok"}

Taken == IF peer = "broken" THEN 0
         ELSE IF space < Len(pipe.buf) THEN space ELSE Len(pipe.buf)

\* The kernel takes its part of _write_buf.
WriteBuffer ==
  /\ sent' = sent \o SubSeq(pipe.buf, 1, Taken)
  /\ space' = space - Taken
  /\ blocked' = (Taken < Len(pipe.buf))
  /\ UNCHANGED <<avail, more, peer, chunks>>

Rest(p) == [p EXCEPT !.buf = SubSeq(@, Taken + 1, Len(@))]

----------------------------------------------------------------------------
(***************************************************************************)
(* The round of the shard: reactor::poll and the tasks.                    *)
(***************************************************************************)

Idle == flags = {} /\ ~reading.on /\ in = -1

\* What epoll_wait reports of the event, which is level-triggered.
Reported ==
  IF ~registered THEN {}
  ELSE {f \in {"read", "write", "error", "close"} :
          \/ f = "read" /\ f \in interest /\ (avail > 0 \/ more \/ peer # "open")
          \/ f = "write" /\ f \in interest /\ (space > 0 \/ peer = "broken")
          \/ f = "close" /\ peer # "open"
          \/ f = "error" /\ peer = "broken"}

Poll ==
  /\ conn \in {"open", "gone"} /\ Idle /\ budget = 0
  /\ Reported # {} \/ pipe.tasks # << >>
  /\ flags' = Reported
  /\ budget' = -1
  /\ UNCHANGED <<program, watch, pipe, reading, decoding, kernel, blocked, misused>>

\* The deferred poller comes after the reactor's: what the events deferred is
\* run in the same round, and what the tasks defer in the next.
RunTasks ==
  /\ Idle /\ budget = -1
  /\ budget' = Len(pipe.tasks)
  /\ UNCHANGED <<program, watch, flags, pipe, reading, decoding, kernel, blocked, misused>>

\* io_handler::handle goes through the flags in this order.
Handling(f) ==
  /\ ~reading.on /\ in = -1
  /\ f \in flags
  /\ \A g \in flags \ {f} :
       f = "read" \/ (f = "write" /\ g # "read") \/ (f = "error" /\ g = "close")
  /\ flags' = flags \ {f}

HandleRead ==
  /\ Handling("read")
  /\ reading' = [NotReading EXCEPT !.onIo = TRUE, !.on = TRUE]
  /\ UNCHANGED <<program, watch, pipe, budget, decoding, kernel, blocked, misused>>

\* handle_write, which is kWritable to the data_sink.
HandleWrite ==
  /\ Handling("write")
  /\ IF pipe.buf = << >>
     THEN UNCHANGED <<pipe, kernel, blocked, interest, registered, misused>>
     ELSE /\ WriteBuffer
          /\ pipe' = Rest(pipe)
          /\ ExpectWrite(Taken < Len(pipe.buf))
  /\ UNCHANGED <<program, event, budget, reading, decoding>>

HandleClose(f) ==
  /\ Handling(f)
  /\ pipe' = Close(pipe)
  /\ UNCHANGED <<program, watch, budget, reading, decoding, kernel, blocked, misused>>

\* A deferred task does nothing once the handler is gone.
Task(name) ==
  /\ Idle /\ budget > 0 /\ Head(pipe.tasks) = name
  /\ budget' = budget - 1

NextTask(p) == [p EXCEPT !.tasks = Tail(@)]

SkipTask ==
  /\ conn = "gone"
  /\ \E name \in {"close", "read", "write", "release"} : Task(name)
  /\ pipe' = NextTask(pipe)
  /\ UNCHANGED <<program, watch, flags, reading, decoding, kernel, blocked, misused>>

\* event_handler::cancel, which does nothing the second time.
Cancel(p) ==
  IF event = "active"
  THEN /\ event' = "cancelled"
       /\ DelEvent
       /\ pipe' = [p EXCEPT !.tasks = Append(@, "release")]
  ELSE pipe' = p /\ UNCHANGED <<event, registered>>

\* kClosing.
CloseTask ==
  /\ conn = "open" /\ Task("close")
  /\ Cancel([NextTask(pipe) EXCEPT !.closing = TRUE])
  /\ UNCHANGED <<program, interest, flags, reading, decoding, kernel, blocked, misused>>

\* The handler owns the socket: its descriptor is closed, and epoll forgets it.
SocketClose == registered' = FALSE

DetachHandler == conn' = "gone" /\ SocketClose

\* The event is released and the reactor lets go of the handler.
ReleaseTask ==
  /\ conn = "open" /\ Task("release")
  /\ event' = "released"
  /\ DetachHandler
  /\ pipe' = NextTask(pipe)
  /\ UNCHANGED <<toWrite, interest, flags, reading, decoding, kernel, blocked, misused>>

ReadTask ==
  /\ conn = "open" /\ Task("read")
  /\ reading' = [NotReading EXCEPT !.on = TRUE]
  /\ pipe' = NextTask(pipe)
  /\ UNCHANGED <<program, watch, flags, decoding, kernel, blocked, misused>>

\* data_sink::write_data.
WriteTask ==
  /\ conn = "open" /\ Task("write")
  /\ LET p == [NextTask(pipe) EXCEPT !.scheduled = FALSE]
     IN \/ /\ p.closing \/ p.buf = << >>
           /\ pipe' = p
           /\ UNCHANGED <<interest, registered, kernel, blocked, misused>>
        \/ /\ ~p.closing /\ p.buf # << >>
           /\ WriteBuffer
           /\ \/ /\ "ok" \in WriteResults
                 /\ pipe' = Rest(p)
                 /\ UNCHANGED <<interest, registered, misused>>
              \/ /\ "retry" \in WriteResults
                 /\ pipe' = Rest(p)
                 /\ ExpectWrite(TRUE)
              \/ /\ "error" \in WriteResults
                 /\ pipe' = Close(p)
                 /\ UNCHANGED <<interest, registered, misused>>
  /\ UNCHANGED <<program, event, flags, reading, decoding>>

----------------------------------------------------------------------------
(***************************************************************************)
(* data_sink::read_data and the codec it forwards to.                      *)
(***************************************************************************)

\* data_socket::read: what arrived, kRetry, or kEOF and other errors.
ReadResult ==
  IF avail > 0 \/ more THEN "data" ELSE IF peer = "open" THEN "retry" ELSE "error"

\* The buffer with another fragment, in which n bytes were read.
Grown(r, n) == [r EXCEPT !.got = (IF @ = -1 THEN 0 ELSE @) + n]

\* The end of read_data: a buffer that has a fragment goes to the codec, even
\* without a byte in it, and the pipe is closed afterwards.
Forward(r, p) ==
  /\ pipe' = p
  /\ IF r.got = -1
     THEN reading' = NotReading /\ UNCHANGED in
     ELSE in' = r.got /\ reading' = r

\* Bug: the loop has no end on I/O either.
NoLimit(r) == FALSE

\* On I/O the third read ends the loop, and the rest is deferred.
AtLimit(r) == r.onIo /\ r.loops = 2

\* A turn of the loop.
ReadTurn(closing) ==
  /\ reading.on /\ in = -1
  /\ \/ /\ closing
        /\ Forward(reading, pipe)
        /\ UNCHANGED <<avail, more, interest, registered, misused>>
     \/ /\ ~closing /\ ReadResult = "data"
        /\ avail' = 0
        /\ more' = FALSE
        /\ LET r == Grown(reading, avail)
           IN IF AtLimit(r)
              THEN Forward(r, [pipe EXCEPT !.tasks = Append(@, "read")])
              ELSE /\ reading' = [r EXCEPT !.loops = IF r.onIo /\ @ < 2 THEN @ + 1 ELSE @]
                   /\ UNCHANGED <<pipe, in>>
        /\ UNCHANGED <<interest, registered, misused>>
     \/ /\ ~closing /\ ReadResult = "retry"
        /\ ExpectRead
        /\ Forward(Grown(reading, 0), pipe)
        /\ UNCHANGED <<avail, more>>
     \/ /\ ~closing /\ ReadResult = "error"
        /\ Forward([Grown(reading, 0) EXCEPT !.close = TRUE], pipe)
        /\ UNCHANGED <<avail, more, interest, registered, misused>>
  /\ UNCHANGED <<program, event, budget, flags, dec, sent, space, peer, chunks, blocked>>

\* Bug: a deferred read does not look at _closing.
ReadsOn == ReadTurn(FALSE)

ReadLoop == ReadTurn(pipe.closing)

\* What the codec does when the decoder tells it something: a settings frame is
\* acknowledged, an error is written and the channel closed.
Told(p, what) ==
  CASE what = "end"   -> Write(p)
    [] what = "error" -> Close(Write(p))
    [] OTHER          -> p

\* A round of decode.  When it returns, what is left of the buffer goes with it,
\* and read_data ends.
Decode ==
  /\ in >= 0
  /\ \E o \in DecodeRound(dec, in) :
       /\ dec' = o.dec
       /\ IF o.loop
          THEN in' = o.in /\ pipe' = Told(pipe, o.told) /\ UNCHANGED reading
          ELSE /\ in' = -1
               /\ pipe' = IF reading.close THEN Close(Told(pipe, o.told)) ELSE Told(pipe, o.told)
               /\ reading' = NotReading
  /\ UNCHANGED <<program, watch, thread, kernel, blocked, misused>>

----------------------------------------------------------------------------
\* The program writes and closes between the shard's steps.
ProgramWrite ==
  /\ conn = "open" /\ Idle /\ toWrite > 0
  /\ toWrite' = toWrite - 1
  /\ pipe' = Write(pipe)
  /\ UNCHANGED <<conn, watch, thread, reading, decoding, kernel,
                 blocked, misused>>

ProgramClose ==
  /\ conn = "open" /\ Idle /\ pipe.owed = -1
  /\ pipe' = Close(pipe)
  /\ UNCHANGED <<program, watch, thread, reading, decoding, kernel, blocked, misused>>

Shard ==
  \/ Poll \/ RunTasks
  \/ HandleRead \/ HandleWrite \/ HandleClose("error") \/ HandleClose("close")
  \/ SkipTask \/ CloseTask \/ ReleaseTask \/ ReadTask \/ WriteTask
  \/ ReadLoop \/ Decode

Environment ==
  \/ Accept \/ AcceptorClose \/ Connect \/ ConnectingWritable \/ CreatePipe
  \/ (\E n \in ChunkSizes : Arrive(n)) \/ ArriveMore
  \/ Leave("shut") \/ Leave("broken")
  \/ ProgramWrite \/ ProgramClose

Next == Shard \/ Environment \/ Drain

\* The shard goes on, and a peer that is there takes what it is sent.
Fairness == WF_vars(Shard) /\ WF_vars(Drain)

Spec == Init /\ [][Next]_vars /\ Fairness

----------------------------------------------------------------------------
(***************************************************************************)
(* Properties.                                                             *)
(***************************************************************************)

\* The event is changed only while epoll has it, or epoll_ctl would fail and
\* throw out of the loop: not by the reads and writes that were deferred before
\* the connection was closed, nor by the events reported with the one that
\* closes it.
EventUsedWhileActive == ~misused

\* What was written before close was called, an HTTP/2 error included, is with
\* the kernel, in order and once, when the connection closes, unless the kernel
\* could not take it.
FlushedBeforeClose ==
  /\ sent \o pipe.buf = [i \in 1 .. pipe.written |-> i]
  /\ pipe.closing => Len(sent) >= pipe.owed \/ blocked

\* The decoder spins on a buffer that ends in the preface, the empty one at the
\* end of a connection included, or before a padding byte, and with it the shard.
Stuck == in >= 0 /\ Spins(dec, in)

\* A deferred read never ends: it has no limit, and the peer is never slower.
Flooded == <>[](reading.on /\ ~reading.onIo /\ in = -1)

\* However much the peer sends, the shard goes on serving the connection: output
\* that waits for the kernel drains, and a connection that is told to close is
\* gone in the end.  What the code does not prevent is named: a peer that keeps
\* one deferred read going for ever, and a buffer on which the decoder spins.
KeepsServing ==
  \/ Flooded
  \/ /\ (pipe.buf # << >> /\ "write" \in interest /\ event = "active")
          ~> (pipe.buf = << >> \/ pipe.closing \/ Stuck)
     /\ (conn = "open" /\ pipe.owed # -1) ~> (conn = "gone" \/ Stuck)
=============================================================================
