# xi: a verification project

xi is a C++14 library for asynchronous servers. It has two task runtimes
(an older one with one isolated worker per core, and `v2`, with a scheduler
that parks idle workers), channels between tasks, futures, shards with
cross-core message buses, and an I/O stack of buffers, filter pipes, sockets
and protocol decoders. This directory holds TLA+ models of it, the TLC
configurations that check them and TLAPS proofs about them.

    tlc -workers 2 -config MCScheduler.cfg MCScheduler   # a run
    tlapm SchedulerProofs.tla                             # the proofs

`PROJECT.json` lists the runs, the mutants that show each property can fail,
the source lines behind each definition, the hazards and the findings.

## Inventory

The repository's documentation is its comments, assertions and tests. Assertions are
active in the build (`-O3 -g`, no `NDEBUG`).

| Component | State | Operations | What makes it correct |
|---|---|---|---|
| v2 scheduler, workers (`scheduler.h`, `worker.cpp`, `shared_queue.h`, `worker_queue.h`, `sleep_queue.h`, `execution_budget.h`) | bit set of parked workers; per worker: state word, input, ready, port and sleep queues, spin count, budgets | spawn, pick and wake a worker, park, poll, run, sleep, reschedule | a resumable has one owner; a worker parks only when it has nothing to do and is woken when it gets something; sleepers wake; no starvation |
| v2 netpoller (`netpoller.cpp`) | epoll set, eventfd | register (one shot), poll with and without blocking, unblock | a fired event queues its task once |
| v1 workers, policy, coordinator, reactor (`worker.h`, `policy/worker_isolation.h`, `coordinator.h`, `reactor/epoll.cpp`, `resumable.cpp`) | external queue, ready and sleep queues, `next_wakeup`, epoll set, eventfd | spawn through a maker, push externally, drain, poll, run, sleep, block, unblock | no lost wakeup across threads; a task stays on its worker and is never entered twice |
| channels (`channel.h`) | spin lock, deques of blocked senders and receivers, ring of slots | put, get | each value reaches one receiver once; sender and receiver never wait for each other |
| futures, promises, latch (`future/*.h`, `latch.h`) | value or exception, callback, flags, count | set, get_future, then, via, break, count_down | a future completes once and its continuation runs once |
| ring buffer (`polymorphic_sp_sc_ring_buffer.h`) | read and write index, bytes | push, next, pop | writer and reader never overlap; FIFO |
| shards, task queue, signals, bootstrap (`shard.cpp`, `task_queue.h`, `signals.cpp`, `bootstrap.cpp`) | pollers, deferred and inbound tasks, pending signals | post, dispatch, defer, poll, shut down | a posted task runs once and in order; a shard that is told to stop stops |
| event handlers, epoll event loop (`event_handler.cpp`, `epoll/*.cpp`) | armed mask per event | arm, add and remove interest, cancel | no event is used after cancellation |
| socket pipes (`async_channel.h`) | write buffer, flags, deferred tasks | accept, connect, read, write, deferred write, close | bytes go out in order; what was written before close is sent; the connection goes on or ends |
| buffers and fragments (`buffer.cpp`, `fragment.cpp`, `buffer_reader.h`, ...) | list of fragments, size | push, split, coalesce, skip, ignore, clone, read, find, compare | the byte sequence is what the operations say |
| guards, blobs, arena (`guard.h`, `byte_blob.h`, `basic_buffer_allocator.h`) | tagged pointer, reference counts, chains | share, append, move, clone, split, allocate | memory is freed once, with its last owner |
| HTTP/2 decoder (`http2/decoder.h`) | parser state, frame | decode | every buffer is used up |
| filter pipes (`pipes/*.h`) | list of contexts, links per message type | push_back, push_front, remove, forward | a message passes every filter once, in order |
| memory allocator (`memory.cpp`) | page array, free spans, pools, list of objects freed elsewhere | malloc, free, realloc, memalign, resize, reclaim | no two objects overlap and no page is lost |
| sockets, HTTP/1 stub, kernel, libevent, extensions | | | not modelled, see below |

How they interact: any thread spawns on a runtime (a lock-free or locked queue
plus an eventfd); a worker owns its poller and is the only one to touch it; tasks
wait in pollers, sleep queues or channels, and a task of another worker releases
them with `unblock`. Shards post tasks to each other through an inbound queue,
and a continuation may run as a task of another shard. A socket pipe is driven
by its shard's epoll loop, defers its writes and its own end to the shard's tasks,
and hands what it reads through the filter pipe to the decoder.

Hard behaviours: the race between a worker that parks and a thread that
spawns; a task unblocked before it has yielded; cached deadlines; one-shot
registrations that are replaced or fail; tasks that keep a worker busy; equal
keys in an intrusive set; wrap-around arithmetic; a continuation chained while the
value is stored; deferred tasks of a connection that has been closed; links
repaired in a later task; objects freed by another thread. `PROJECT.json` lists each
with its line.

## Modules

| Module | What it is |
|---|---|
| `Lifecycle` | abstract: the stages a resumable goes through, for either runtime |
| `Scheduler` | the v2 runtime |
| `MCScheduler` | its instances for TLC |
| `SchedulerProofs` | theorems about `Scheduler` |
| `QueueLemmas` | facts about queues, recursive functions and induction that several proofs use |
| `WorkerIsolation` | the first runtime |
| `MCWorkerIsolation` | its instances for TLC |
| `WorkerIsolationProofs` | theorems about `WorkerIsolation` |
| `MessageBus` | abstract: what a channel promises |
| `Channel` | the channels |
| `MCChannel` | the tasks, channels and values of its instances |
| `ChannelProofs` | theorems about `Channel` |
| `Futures`, `MCFutures` | promises, futures, continuations and the latch |
| `FuturesProofs` | theorems about `Futures` |
| `Executor` | abstract: what shards promise those who post tasks |
| `Shard` | shards, their task queues, signals, start and shutdown |
| `MCShard` | `MCChannel` and `Shard`, side by side, for TLC |
| `ShardProofs` | that `Shard` implements `Executor`, and the theorems about `SizeClasses` and `Guards` |
| `Http2Decoder` | the decoder as operators: what one round of decode may do |
| `Connection` | a connection from accept or connect to its end, with its event, its `data_sink` and the decoder |
| `Pipes` | the links of a filter pipe |
| `PipedConnection` | `Connection` with an instance of `Pipes` |
| `MCConnection` | the two, side by side, for TLC |
| `ConnectionProofs` | theorems about `Connection` and `Pipes` |
| `RingBuffer` | the single-producer single-consumer ring buffer |
| `Buffer` | I/O buffers, fragments, readers, fragment strings |
| `Guards` | blobs of memory and the guards that free them, the arena allocator |
| `Blobs` | an instance of `Guards`, for `Containers` and for the proofs |
| `Containers` | `RingBuffer` and `Blobs` with an instance of `Buffer` |
| `BuffersProofs` | theorems about `RingBuffer` and `Buffer` |
| `SizeClasses` | the arithmetic of the allocator's size classes |
| `Memory` | the memory allocator |
| `MCBuffers` | `Containers` and `Memory`, side by side, for TLC |

"Side by side" means that the modules share a run and nothing else: the variable
`part` says which of them moves, and the others stay in their initial state.

Definitions named in a comment as mutants are used by no specification; each
replaces the definition after it to show that a property can fail.

### Scheduler

A step is one access to memory that another thread sees, with the local
computation after it. `central_enqueue` is the actions `Spawn`, `SeeParked` or
`SeeNoneParked`, `ClaimParked`, `PushInput`, `CheckState`, `UnblockOne`: its
load of the bit set, the `fetch_and`, the push, the read of the state word and the
eventfd write. `_park` is `ParkBit`, `ParkState`, the blocking poll,
`UnparkState`, `UnparkBit`. `worker::run` is `CentralSchedule`, `Poll`,
`RunPort`, `RunReady`, one action per result of `resume`, and the two budget
checks. A budget is a time stamp comparison, so any check may find it spent
or not; `LongPreemption` says whether a worker may lose its core for a
whole isolation budget between two instructions. A resumable that was released
and that nothing refers to any more (a registration replaced or refused, an
equal deadline) goes to `leaked`. Time is relative: deadlines hold what is
left and `Tick` decreases them.

### WorkerIsolation

`spawn` pushes a maker, an item `<<"make", r>>`, that creates the resumable on
the worker that runs it; `<<"run", r>>` is the resumable itself. Spawns of
tasks that are not followed only advance the round-robin counter
(`SpawnElsewhere`), so two followed tasks may share a worker or not. A push is
two steps, the queue and the eventfd. `pop` is `Drain`, `Poll` and `Pop`. A task that waits in a
synchronisation object registers (`TaskWait`) and yields later (`TaskBlock`);
in between `TaskUnblock` of another worker may schedule it. A failed
assertion ends the process: `aborted` is then true and nothing else happens.

### Channel

`put` and `get` hold the spin lock from their first look to the return or the
registration, so one pass is one step; blocking and resuming are steps of their
own. `Size` gives each channel its template parameter. A slot that was never
written holds `Garbage`. The task side assumes of `unblock` what
`WorkerIsolation` shows of it: a task unblocked before or after its yield is
resumed once for each unblock.

### RingBuffer

`do_push` is three steps: the load of the read index with the decision
(`PushBegins`), the writes of marker and block (`PushWrites`, or `PushThrows` when
the object's constructor throws), and the store of the write index
(`PushPublishes`). `next` is `NextFindsNothing`, `NextFindsBlock` and, when it goes
back to the start, `NextWraps`. `cell` says what starts at each byte; a
write turns every block it overlaps into junk, so an overlap shows up in what
the reader finds. The reader calls `pop` only after `next` returned a block, as
the tests do: `pop` itself does not recognise the end of a ring without a
marker. Rings of size 0 are excluded (`write_available` would be 2^64 - 1).

### Buffer

A fragment is its bytes, the room after them and whether a clone shares that room;
a buffer is a list of fragments and `_size`. Every byte written has its own
number, so `stream`, the bytes a buffer should hold, tells apart loss, repetition
and reordering. Operations that change a buffer are actions (`PushBack`,
`Split`, `Coalesce`, `SkipBytes`, ...); those that only look at it (`Read`,
`ReadValue`, `FindByte`, `SkipUntil`, `NextDataRange`, `ReadableRanges`, the comparisons) are
operators that two invariants compare with the same question asked of `stream`.
A program writes into room that no clone shares; `clone` itself does not prevent it.

`Coalesce` has the offset that `range` passes on. The code subtracts the whole
write fragment from a length that counts from the offset (`buffer.cpp:135`), so
the unsigned length wraps when the fragment is longer (`Wraps`): every later fragment
is then copied as far as there is room, and erased (`Overrun`). The constant `MayWrap`
says whether programs make such calls. It is `FALSE` in `buffers_and_memory` and in the
theorems, and `TRUE` in `coalesce_wraps`, which shows the loss.

### Guards

A guard is `Null`, `Raw(o)` (the tagged pointer to an object it frees itself) or
`Impl(i)`; `heap` has the impls and how often each object was freed. `Released`,
`Shared` and `Appended` are the destructor, `share` and `append`. The destructor of an
impl runs those of what it owns and of the guard after it: `ReleaseOne` takes one guard
from the stack of those to come, and `Released` takes as many as there can be. A
`Chain` is the least set of impls closed under `next`. The actions are the
operations of `byte_blob` and of the arena, which use them in the code's
order. `kept` is what each blob should keep alive. `append` walks the chain and makes an
impl of every guard that is freed directly (with the pointer of the first guard, `guard.h:148`) and
of every impl that others share (`guard.h:152`). A chain where neither happens behind its
first guard is `Appendable`; `AppendsAnywhere` says whether programs append to the others too. It is
`FALSE` in `buffers_and_memory` and in the theorem, and `TRUE` in `guard_append`. The counts are not atomic, so all
this is for blobs that stay on one thread.

### Futures

Promise `n` is made with state `n`; `own` says which state it has now, since
`set(future)` may give it another one. A thread's `stack` holds the states it has
locked: callbacks run with the lock held, so a chain completes as a
nest of `RunCallback`, `DoSet`, `CallbackDone` and `Unlock`. Values are a
value, an exception or a broken promise; what a continuation returns is
any of them or a future. A latch counts down with a compare-exchange loop in two
steps. A continuation that sets or chains the state it runs under would
wait for itself; programs of the model do not. `then` takes the future in the model, so a
state gets one continuation; in the code the future stays usable, and a second `then`
would replace the first. A callback that was called stays in the state
there (`shared_state.h:150`); it would be called again only by a second promise of the same
state, the case that the properties leave out. That setting the promise of a continuation may
itself throw out of the callback (`shared_state.h:72`) is not modelled.

### Shard and Executor

A round of `shard::poll` is cut where other threads can push to `_inbound` or write
`_running`: reactor, signals, deferred tasks, task queue, inbound tasks, the check
of `_running`. Tasks post further ones for ever (a task that has run leaves its number to
a new one: `MaxPosts` bounds how many wait, not how many are posted), throw, or shut
everything down. `told` has the
shards that were told to stop while they polled: `run` sets `_running`,
so a shutdown that comes earlier is forgotten, and the properties do not
promise it. `Executor` has one queue for every pair of threads; the refinement
maps it to the two local queues, or to one thread's part of `_inbound`. Posting to a
shard that was deleted is undefined; the model loses the task. There is at most one
shutdown hook, so one task stands for the dispatches of `bootstrap.cpp:33`. A signal between the
installation of its handler and `run` is left out.

### Connection and Http2Decoder

The shard is one thread. `Poll` takes what epoll reports; `HandleRead`, `HandleWrite` and
`HandleClose` go through the flags in the code's order; then `RunTasks` counts the
deferred tasks, those deferred by the handlers of the same round included, and that many run (`WriteTask`,
`ReadTask`, `CloseTask`, `ReleaseTask`). A read is a loop of `ReadLoop` steps,
between which the peer may send more, and hands its buffer to the decoder, a loop of
`Decode` steps. A read that an event started stops at its limit (`AtLimit`); a deferred one has
none (`async_channel.h:250`). The chunks whose bytes are counted are bounded, and beside them the
peer may go on sending without end while the shard reads (`ArriveMore`). What the decoder reads is any value of small sets;
`DecodeRound` follows its states with the number of bytes left. The codec's
answers and errors are writes and closes of the same connection. The kernel takes
`Space` buffers and drains while the peer is there. That a connecting socket is added to epoll a second
time, and what it throws when that fails, is the choice between `refused` and
`handed` of one step.

### Pipes

Links depend on the type of the message, and those of different types are
independent, so one type suffices; a filter takes it in both directions, one, or
none. `PushBack` and `PushFront` set the links as the casts of the code do,
`RemoveContext` defers, `DoRemove` repairs. `plain` holds while filters came at
the back and were removed one at a time; after `push_front`, or with two removals
pending, the code loses links, and the property does not cover it.

### Memory

Everything is counted in pages: a small object is a page, and one pool stands for all. The
size classes are a module of their own, with their real arithmetic (`SizeClassesFit`). A
call is one step except `free_cross_cpu`, whose compare-exchange is a step of its
own, as is draining the list. The page array that `resize` moves into memory allocated
from itself is part of the pages accounted for; entries past the old array
are arbitrary (`dirty`). The allocator is compiled out of this build
(`memory.cpp:56`), so the model is of the code as written. There is one `do_resize`, that of the old
array at page 0: the code's loop (`memory.cpp:757`) takes several for gigabytes, and its other
branch (`memory.cpp:748`) frees all of the old array. The check for sizes that wrap
(`memory.cpp:439`) is left out, and so is the exit of a thread that never allocated
(`memory.cpp:630` then indexes `live_cpus` with -1).

## Runs

| Run | Instance | Shows |
|---|---|---|
| `v2_safety` | 2 workers, 1 client, 2 resumables, 1 descriptor, long preemption | one owner, no parking on sleepers, cached deadline right, life cycle |
| `v2_liveness` | 1 worker, 3 resumables, an open and a closed descriptor | parks only when idle, sleepers wake, input not starved |
| `v2_lost_wakeup` | 1 worker | violated: a job enqueued while the worker parks stays in its queue |
| `v1_safety` | 2 workers, 1 client, 2 resumables, an open and a closed descriptor, sleeps of 0 and 2 | references never alias, no coroutine entered twice, tasks stay home, cached deadline right, life cycle |
| `v1_liveness` | 2 workers, 1 client, 2 resumables | whatever is handed over runs; sleepers wake |
| `channels_and_shards` | 3 tasks, an unbuffered and a two-slot channel, 1 value; 2 shards with 2 tasks waiting at a time and no end of them, a shutdown hook, a signal | nobody forgotten or scheduled twice, no mutual waiting, unbuffered channel implements `MessageBus`; shards implement `Executor`, rounds end although tasks post, and a shard told to stop stops |
| `channel_buffered` | 3 tasks, a two-slot channel, 2 values | violated: a buffered channel returns an unwritten slot |
| `futures` | 2 threads, a latch of 2, 4 states | the latch opens once, states settle once, every continuation of a ready state completes |
| `connection` | a connection with 2 chunks of 16, 24 or 40 bytes and a peer that may never stop sending, 1 write of the program, a kernel with room for 1 buffer; a pipe of 3 filters with 2 removals pending | the event is used only while registered, what was written before close is sent in order, output drains and connections end unless a deferred read never does; messages pass every filter |
| `buffers_and_memory` | rings of 1 to 20 bytes with blocks of 4 and 6, words of 2, reserves 0 and 5; two I/O buffers with 3 bytes and 3 fragments; 3 blobs and an arena with 3 objects and 3 impls; a thread that allocates and one that frees, 6 pages resized to 9, 5 allocations | pushes touch no unread block, blocks come out whole and in order; buffers hold, read, compare and coalesce the bytes they should; memory is freed once, with its last owner; no page owned twice or lost, free spans are found, small objects are in one place, size classes fit |
| `coalesce_wraps` | a buffer of 5 bytes, offsets and lengths of 2 and 3, `MayWrap` | violated: coalescing from within a fragment loses a byte of a later one |
| `guard_append` | 3 blobs, `AppendsAnywhere` | violated: appending to a chain with an object behind its first guard loses that object |

The four violated properties state what a comment of the code says; the
findings in `PROJECT.json` quote it.

### Bounds, and why they are enough

- Two workers and a client: the races are between one worker and one caller,
  and two callers (a client and the other worker) are needed to lose the race
  for a parked worker. Tasks also spawn from the worker they run on.
- Two resumables show aliasing, replaced registrations and equal deadlines;
  the v2 liveness run has three so that one may be busy, one asleep and one new.
- `DequeueMax`, `SpinsBeforeIdle` and `ReadyBound` are 1: each limit is then
  reached at once. Deadlines run at most `MaxLag` late, which bounds the state
  space (`Tick` waits for the worker); the proofs are for any `MaxLag`.
- In the first runtime the safety run has `Slack` 1, so that a drain takes
  sleepers ahead of their time, and `MaxLag` 1; both are 0 in the liveness run.
- Three tasks on a channel: two senders compete for a receiver, or two receivers
  for a sender. One value suffices in the passing run, since nothing looks at
  values but the buffer, whose unwritten slots are told apart. All three tasks
  may wait for ever, which is no deadlock there.
- Four states of futures: the latch's, a program's, and two more, so that a
  continuation has a continuation and a promise may be set to the future of
  another chain. Programs may stop, so deadlock is not checked.
- Two shards and two tasks that wait at a time: a task posts to its own shard and to the
  other, and there are two in one queue at once. Tasks that have run make room for new ones,
  so posting never ends and a round that took what its own tasks post would not end either.
  Threads end, and the last step is joining them, so deadlock is checked.
- A chunk of 24 bytes is the preface, 16 is less than it and more than a
  frame header with a setting, 40 is both; two of them reach every state of the decoder and end in
  the middle of each. Of the frame types there are DATA, SETTINGS, one
  that is skipped and one that is unknown: each state after a header, and an
  invalid header, occur. One program write and the codec's own overrun a kernel
  buffer of 1 and reach `MaxBuffered`. What the peer sends beyond the chunks is neither
  counted nor bounded. Connections end, so deadlock is not checked.
- Rings up to 20 bytes hold up to four blocks and wrap with room for a marker,
  with exactly a word left, and with less; two block sizes make the wrap fall on
  every offset. Nothing else bounds the rings: their state space is finite.
- Three bytes in up to three fragments, in two buffers: each cut falls within,
  before and after a fragment, and empty fragments occur between full ones.
  Amounts of 0, 1 and 2, with an offset and a length for `coalesce`, start and stop within a fragment, at its
  end and past it, and past the buffer.
- Three blobs with three objects: a chain of three guards, a guard that is shared
  while another is appended to it, and a blob cut from an arena that is then given
  away. Objects and impls are used again once they are free.
- Nine pages: spans split and merge on both sides, and a span of two small objects
  is given back while one of its objects is out. Only one thread allocates, because
  nothing but the list of freed objects is shared.
- Symmetry (of resumables, buffers and blobs) is used only where no liveness is checked.

### Fairness

A thread that can take a step takes one (workers and shards are pinned threads), a
task comes back to its worker (the runtimes are cooperative), and the clock
advances. In `Scheduler` a budget that is checked again and again is found
spent, because the time stamp counter grows, and a worker reaches its poll between two
isolation checks infinitely often: these are strong fairness conditions. In
`Channel` a task gets the spin lock, which is held for a few instructions and never
across a yield. In `Futures` a thread finishes the set or the callback it is in
(weak fairness: a program that waits for a lock which its own stack
holds is not modelled), and a shard runs the tasks posted to it; that is
strong fairness, since the threads of the model are busy in between. In
`Connection` the shard goes on, and the kernel's buffer drains while the peer is there.
Nothing is assumed of descriptors, signals, peers, spawning threads or tasks
that may unblock others.

## Proofs

Every theorem holds for all values of the constants that the named assumptions
of its module allow: any numbers of workers (in v2 up to 64, the width of the bit set),
threads, tasks, descriptors, channels, promises, shards and bytes. Eight modules hold
them. `QueueLemmas` has what the runtimes, the channels and the shards share: what a queue
contains after `Append`, `Tail`, concatenation, splitting or an enumeration, that nothing
is linked into it twice (`IsInjective`), and that a finite set of deadlines has a least one.
It also has what stands in for the library's induction theorems, which no prover can
instantiate: a least length at which a fact would fail (`LeastLength`), sequences built from
their front with a set in place of the property (`SequencesBuilt`), and that a recursive
function over an interval exists and is unique.

**Scheduler** (`SchedulerProofs`)

- `TypeCorrect`: `Spec => []TypeOK`. The invariant proved is
  `TypeInv`: `TypeOK` and three facts it needs. `CallOK` ties the fields of a
  call to the point it has reached (a call about to push has a job and a target),
  `CurrentOK` says a worker has a current task exactly while it runs one, and
  `LagOK` bounds how late a sleeper is.
- `Ownership`: `Spec => [](OneOwner /\ HeldOnce)`. `At(r, q)`
  says that `q` holds `r` and nothing else does, kind by kind; `Located` says
  that every resumable is at some owner, and is equivalent to `OneOwner`. For each action a
  lemma (`PushMoves`, `PollMoves`, ...) says which resumables it moves and from
  where to where; all others stay (`NothingMoves`). That a queue holds a
  resumable once is needed to know that taking its head removes it, so the two parts
  are inductive only together.
- `RefinesLifecycle`: `Spec => ImplementsLifecycle`. The same lemmas say of each move
  that it is `Legal`, that is from the stage of the one owner to that of the other
  along `Lifecycle`; `StageAgrees` ties the stage, which looks at all of the state, to
  that of the one owner (`OwnerStage`), before and after the step.
- `NoSleeperLeftBehind` and `EarliestDeadline`: `ParksWithoutSleepers` and
  `NextItemIsEarliest`. The second rests on ownership: a deadline is set
  while its resumable is running, hence while it is in no sleep queue.
- `ParksIdle`: `LongPreemption = FALSE => (Spec => []ParksOnlyWhenIdle)`. The
  hypothesis is the one under which the run checks it; without it the property is
  false (see below).

**WorkerIsolation** (`WorkerIsolationProofs`)

- `Invariant`: `Spec => []IInv`, and from it `OwnedOnce` (`OneOwner`), `EnteredOnly`
  (`NeverEnteredTwice`) and `HomeBound` (`StaysHome`). `IInv` is the types, one owner
  per resumable (`Located`), no item twice in a queue (`LinkedOnce`), every owner on
  the worker that the resumable is attached to (`AtHome`), and `YieldsNext`: a task that
  has registered itself and not yet yielded is held by something that was
  released by it, never by a ready queue. The last is what makes an early `unblock` safe; it
  needs `AtHome`, because only the own worker moves an external item to the ready queue.
- `EarliestWakeup`: `NextWakeupIsEarliest`, on top of `IInv`.
- `RefinesLifecycle`: as for `Scheduler`.

**Channel** (`ChannelProofs`)

- `TypeCorrect` and `ReceiversWait`, from one
  inductive invariant `IInv`: the types, that a put carries a value
  (`PutHasValue`, or a slot might take none), and that a receiver waits only on
  an empty buffer. The types need the last part: without it a delivery would take the
  branch that reads the buffer.
- `WokenOnce`: `ScheduledOnce`. `Synced` says, as equivalences, what deques, counters and
  storage are given where each task is in its operation: a deque holds exactly the
  tasks that wait there and were not unblocked, and a get has a value exactly once
  it was unblocked or is about to return. The number of registrations follows.
- `SendersComeBack`: `NoSenderForgotten`. It is inductive on top of `IInv` and `Synced`: a step
  that opens a slot or adds a receiver wakes a sender that was not counted before, one
  that takes an opening takes one sender away, and a sender registers only when
  nothing is open. The ring's remainders are resolved for any size (`RingArithmetic`).
- `RefinesBus`: `Spec => ImplementsBus`. On a channel of size 0 or 1 every step is a put, a
  get, a meeting or a return of the abstract bus, and on any other channel it leaves
  what the bus shows unchanged (`View`).

**Futures** (`FuturesProofs`)

- `LatchOpens` (`LatchOpensOnce`) and the action property `Settles` (`SettlesOnce`), from `IInv`: a
  promise is held by one callback, one task or one thread (`HeldOnce`), so two threads
  are never in the set of the same promise; the count is 0 exactly when the latch's
  promise is set or being set.

**Connection** (`ConnectionProofs`)

- `EventUsed` (`EventUsedWhileActive`) and `Flushed` (`FlushedBeforeClose`), whatever the
  decoder makes of the bytes. `Attached` says which of the connection, the
  event and epoll's registration exist together, also between the tasks of a
  round; `Promise` says what is with the kernel, buffered, and still owed.

**Pipes** (`ConnectionProofs`)

- `PipesPass` (`PassesEveryFilter`), for any filters and any length of the pipe. `PipeInv` says
  what every link is while the pipe is `plain`: that of the next context that takes the message, or
  none, and while one filter waits to be removed, that of the pipe with it. The path
  of a message is the sequence it follows link by link; that this is the sequence of the
  filters that take it goes by induction over the pipe from either end.
  Assumed: `None` is not a filter.

**RingBuffer** (`BuffersProofs`)

- `WritesSafely` (`WritesFreeSpace`) and `ReadsInOrder` (`NextIsOldest`), for blocks and rings
  of any sizes. `Layout` says that the unread blocks lie one behind the other from the read
  to the write index with at most one jump to the start, and that the reader finds the
  end of the ring where the jump is; `RoomLeft` says that the room which `do_push`
  found is still there wherever the reader has gone since, its own jump to the
  start included; `WrittenOut` is what was written and not published.

**Buffer** (`BuffersProofs`)

All three theorems have the hypothesis `~MayWrap`: no call of `coalesce` wraps its
length. The code does not ensure it (`coalesce_wraps`), and without it they are false. Other
calls of `coalesce`, from any offset, are covered.

- `BuffersHold` (`HoldsStream`), for any buffers, any capacities and any number of fragments:
  the fragments of a buffer, one behind the other, are the bytes that its operations
  promise, and `_size` is their number. With the types (`BufferTypes`) it is inductive. `Content`
  is a recursive function of the fragments; that it follows `Append`, concatenation, cutting and
  replacing fragments is proved by a least length at which it would not.
- `BuffersEqual` (`ComparesBytes`): the comparisons walk two lists of fragments that are cut
  differently; byte `k` of fragment `i` is byte `Ends[i - 1] + k` of the stream, for both.
- `BuffersRead` (`ReadsStream`): the operations that only look answer as they would of the stream. What
  `range` returns after it has coalesced is a part of the stream from the offset on, and all that was asked
  for if a fragment starts at the offset; else the gathered bytes count from the start of the
  fragment that the offset is in (`buffer.cpp:129`), and there may be fewer.

**Shard** (`ShardProofs`)

- `RefinesExecutor`: `Spec => ImplementsExecutor`. The invariant `IInv` says that no task
  in the `_inbound` of a shard was posted by its own thread, so the two ways of posting fill
  different queues of the executor. `Table` is the executor's queues as a function of the
  program's; each step changes at most two entries of it, one by taking a task
  (`TaskTaken`, `InboundTaken`) and one by posting (`PostAdds`). `From`, which picks one thread's
  tasks out of `_inbound`, is a recursive function: that it exists, is unique and follows
  `Append` and `Tail` is proved by a least length at which the fact would fail
  (`LeastElement`), since no induction theorem can be instantiated.

**SizeClasses** (`ShardProofs`)

- `EverySizeFits` (`SizeClassesFit`): for every size of a small object, 8 to 16384 bytes, the class
  chosen is large enough, at most half as large again, exact for powers of two, and its spans
  fit the counters of a page. (The run has a sample.) A size lies between four and eight quarters of a power of two and its class is
  the next quarter; the search for a span ends by 128 pages.

**Guards** (`ShardProofs`)

- `BlobsFreedOnce` (`FreedOnce`), for any number of blobs, objects and impls, under the hypothesis
  `~AppendsAnywhere`: programs append only to chains that are `Appendable`. The code does not ensure it,
  and `guard_append` shows what happens otherwise. The property says
  when an object is freed and nothing of why, so it is far from inductive. `GuardInv` sees the guards as a
  graph. A guard is in a place: a blob, the list of those that wait to be released, or an
  impl, which owns it or has it as the next of its chain. An impl's `refs` is the number
  of its places, an object that is not freed is in exactly one, an impl that is not used has no
  guards, the objects that an impl keeps are those of its two guards, and ranks that fall
  along the guards exclude cycles (`Graph`). What `kept` says of a blob is what its guard
  keeps in the graph.
- Each operation is a change of one or a few places (`GraphGraft` is the hardest: `append` hangs a guard behind
  the last impl of a chain, and all impls of the chain keep more from then on). Releasing is
  a loop over the guards that wait: every turn takes one and may free an object or an
  impl, whose two guards then wait in turn. An impl goes once, so there are at most `MaxReleases`
  turns and none waits after them. `FreedOnce` follows: an object that a blob keeps is in a place,
  hence not freed; one that is not freed is in a place, which some blob reaches, or an impl of
  greatest rank among those that keep it would have a place in none.
- Assumed (`GuardAssumption`, which the run evaluates): finitely many blobs, the arena's own not among
  them, bounds and sizes that are natural numbers.

Only model-checked:

- all liveness properties: liveness under fairness is out of the prover's reach;
- `PagesOwnedOnce`, `FindsFreeSpans` and `SmallObjectsOnce` (`Memory`): a span's pages are found by a
  walk over a page array whose entries past the old end are arbitrary, within operations that merge and
  split spans in loops; the walks nest, and each would need a theory of its own;
- `BufferedImplementsBus` is false (see the findings).

## What the code does that no property promises

The models follow the code here; the properties leave these cases out, or no
run asks about them.

- Scheduler: a parked worker can be missing from the bit set (`scheduler.h:204`), and with a
  long preemption a worker parks with a job in its ready queue
  (`worker.cpp:65`). `1ul << idx` is undefined for a 65th worker
  (`scheduler.h:160`), and indices are counted from the first core
  (`scheduler.h:75`). `loop_budget.remainder()` wraps (`worker.cpp:120`).
  `_cores` is read before it is set (`runtime.cpp:31`).
- First runtime: two tasks with equal deadlines fail an assertion
  (`worker_isolation.h:118`).
- Channels: a woken sender goes to the back and may starve (`channel.h:110`).
- Futures: callbacks run under the state's lock (`shared_state.h:44`); a future
  handed out before `set(future)` is never completed (`promise.h:74`).
- Ring buffer: a push larger than half an empty ring may be refused for ever
  (`polymorphic_sp_sc_ring_buffer.h:96`).
- Connections: a deferred read has no limit, so a peer that never pauses keeps the shard in it
  (`async_channel.h:250`; `KeepsServing` names it `Flooded`, and is violated without it); a short write
  without `kRetry` is not waited for (`async_channel.h:284`), and `KeepsServing` speaks of output that is; a failed connect never sets its future
  (`async_channel.h:545`); what the decoder leaves of a buffer is dropped
  (`codec.h:34`).
- HTTP/2 decoder: a buffer that ends within the preface or before the padding byte is
  decoded for ever (`decoder.h:129`, `:139`; `Stuck` in `KeepsServing`); a padded frame of length 0 wraps
  its length (`:137`); an unknown setting is not taken off the length
  (`:169`); the error state of a settings frame is overwritten (`:75`).
- Buffers: a clone shares the room after the bytes (`buffer.cpp:152`). A fragment
  cut from an arena has all of the arena's bytes, the ones of later fragments included
  (`basic_buffer_allocator.h:43`; nothing uses the arena).
  A buffer whose fragments were pushed into another keeps its `_size` (`buffer.cpp:47`, `:55`); its
  owner has given it away, and the model empties it. `consume_mark` of a reader without a mark uses a null
  pointer (`buffer_reader.h:165`). Two fragment strings may compare equal although their bytes differ
  (`fragment_string.cpp:61`): `ComparesBytes` states only that equal bytes compare equal.
- Guards: nothing calls `append`.
- Pipes: `push_front` (`pipe_base.h:19`) and two neighbours removed at once
  (`pipe_control_interface.h:75`) lose links.
- Allocator: resizing a cpu that is not initialised does not end (`memory.cpp:763`).
- Shards: a shutdown before `run` is forgotten (`shard.cpp:99`). `consume_all` ends only when it finds
  `_inbound` empty (`shard.cpp:137`), so a shard that others feed without end stays there, told to stop
  or not; `StopsWhenTold` names the case.
- Pollers: an `EPOLL_CTL_ADD` that fails ends the process (`netpoller.cpp:47`,
  `reactor/epoll.cpp:182`). That is not modelled; an `EPOLL_CTL_MOD` that fails, which is ignored, is.

## Not modelled

- The cross-shard message bus: nothing submits to it or polls it
  (`shard.cpp:92`, `:155` are commented out).
- Coroutine sockets and the listener: system calls in retry loops around
  `await_readable` and `await_writable`, which are the runtimes'. Datagram pipes keep no state.
- The libevent back end is not built, the HTTP/1 decoder is a stub, kernel and
  executor pool, with the sharded service on top of it, are superseded.
- Starting and joining the threads of the two runtimes: the initial states are those
  after the barrier. (`Shard` has both.) Stack switching.
- `own`, `ref`, `optional`, `result` and the other type utilities of `xi/ext` and `xi/util`:
  sequential value types whose contract is the language's.

## Plan

1. Done: the two runtimes, `Lifecycle`, the channels and `MessageBus`, futures,
   shards and `Executor`, connections with the HTTP/2 decoder, filter pipes, the
   containers of bytes and their guards, the allocator.
2. Done: the safety theorems of `Scheduler`, `WorkerIsolation`, `Channel`, `Futures`,
   `Connection`, `Pipes`, `RingBuffer`, `Buffer`, `Guards` and `SizeClasses`, and every refinement
   (`Lifecycle` twice, `MessageBus`, `Executor`).
3. Next: `PagesOwnedOnce`.
