----------------------- MODULE WorkerIsolationProofs -----------------------
(***************************************************************************)
(* Proofs about WorkerIsolation, for any number of workers, clients,       *)
(* resumables and file descriptors.                                        *)
(***************************************************************************)
EXTENDS WorkerIsolation, QueueLemmas

----------------------------------------------------------------------------
(***************************************************************************)
(* The inductive invariant.                                                *)
(***************************************************************************)

Kinds == {"make", "run"}

Calls == [at : {"idle", "push", "signal"}, item : Items \cup {None},
          target : Workers, writes : 0 .. 2]

CallTypes ==
  /\ fresh \in SUBSET Resumables
  /\ call \in [Threads -> Calls]
  /\ next_worker \in Workers
  /\ attached \in [Resumables -> Workers \cup {None}]

QueueTypes ==
  /\ external \in [Workers -> Seq(Items)]
  /\ ready \in [Workers -> Seq(Items)]
  /\ epoll \in [Workers -> [Fds -> Resumables \cup {None}]]
  /\ sleepq \in [Workers -> SUBSET Resumables]

LoopTypes ==
  /\ wake \in [Workers -> BOOLEAN]
  /\ pc \in [Workers -> {"drain", "poll", "pop", "task", "blocking"}]
  /\ current \in [Workers -> Items \cup {None}]

EndTypes ==
  /\ waiting \in SUBSET Resumables
  /\ done \in SUBSET Resumables
  /\ lost \in SUBSET Resumables
  /\ aborted \in BOOLEAN

\* A call owns its item until the push; a worker is inside one only from a
\* task, and has a current item exactly while it runs one.
PointsOK ==
  /\ \A t \in Threads :
       /\ call[t].at = "push" <=> call[t].item # None
       /\ call[t].at = "signal" => call[t].writes \in {1, 2}
       /\ call[t].at = "push" => call[t].writes \in {1, 2}
  /\ \A w \in Workers :
       /\ pc[w] \in {"task", "blocking"} <=> current[w] # None
       /\ call[w].at # "idle" => pc[w] = "task" /\ current[w][1] = "run"

Types == CallTypes /\ QueueTypes /\ LoopTypes /\ EndTypes /\ PointsOK

\* Whoever may hold a resumable, and for the queues the kind of item.
Owners ==
  ({"call"} \X Threads \X Kinds)
    \cup ({"external", "ready", "task"} \X Workers \X Kinds)
    \cup ({"sleep"} \X Workers \X {None})
    \cup ({"epoll"} \X Workers \X Fds)
    \cup ({"fresh", "waiting", "done", "lost"} \X {None} \X {None})

\* q holds r and nobody else does.
At(r, q) ==
  /\ \A t \in Threads, k \in Kinds :
       call[t].item = <<k, r>> <=> q = <<"call", t, k>>
  /\ \A w \in Workers, k \in Kinds :
       Contains(external[w], <<k, r>>) <=> q = <<"external", w, k>>
  /\ \A w \in Workers, k \in Kinds :
       Contains(ready[w], <<k, r>>) <=> q = <<"ready", w, k>>
  /\ \A w \in Workers, k \in Kinds :
       (pc[w] = "task" /\ current[w] = <<k, r>>) <=> q = <<"task", w, k>>
  /\ \A w \in Workers : r \in sleepq[w] <=> q = <<"sleep", w, None>>
  /\ \A w \in Workers, f \in Fds : epoll[w][f] = r <=> q = <<"epoll", w, f>>
  /\ r \in fresh <=> q = <<"fresh", None, None>>
  /\ r \in waiting <=> q = <<"waiting", None, None>>
  /\ r \in done <=> q = <<"done", None, None>>
  /\ r \in lost <=> q = <<"lost", None, None>>

Located == \A r \in Resumables : \E q \in Owners : At(r, q)

LinkedOnce ==
  \A w \in Workers : IsInjective(external[w]) /\ IsInjective(ready[w])

\* A resumable is attached to the worker that holds it, or that it is on its
\* way to.
HomeOf(r) ==
  /\ r \in waiting => attached[r] \in Workers
  /\ \A t \in Threads : call[t].item = <<"run", r>> => attached[r] = call[t].target
  /\ \A w \in Workers :
       \/ Contains(external[w], <<"run", r>>)
       \/ Contains(ready[w], <<"run", r>>)
       \/ current[w] = <<"run", r>>
       \/ r \in sleepq[w]
       \/ \E f \in Fds : epoll[w][f] = r
       => attached[r] = w

AtHome == \A r \in Resumables : HomeOf(r)

\* Where a task can be that has registered itself and has not yielded: with
\* the object it registered with, or on its way back to its own worker, which
\* does not drain its external queue before the yield.
Released ==
  {<<"waiting", None, None>>} \cup ({"call"} \X Threads \X {"run"})
    \cup ({"external"} \X Workers \X {"run"})

YieldsNext ==
  \A w \in Workers : pc[w] = "blocking" =>
    \E r \in Resumables, q \in Released : current[w] = <<"run", r>> /\ At(r, q)

IInv == Types /\ Located /\ LinkedOnce /\ AtHome /\ YieldsNext

----------------------------------------------------------------------------
(***************************************************************************)
(* Owners.                                                                 *)
(***************************************************************************)

\* What an owner's resumable is to the life cycle.
OwnerStage(q) ==
  CASE q[1] = "call" -> (IF q[3] = "make" THEN "spawning" ELSE "blocked")
    [] q[1] \in {"external", "ready"} ->
         (IF q[3] = "make" THEN "spawning" ELSE "queued")
    [] q[1] = "task" -> (IF q[3] = "make" THEN "spawning" ELSE "running")
    [] q[1] \in {"sleep", "epoll", "waiting"} -> "blocked"
    [] q[1] = "fresh" -> "new"
    [] q[1] = "done" -> "done"
    [] q[1] = "lost" -> "lost"

\* A step may pass r from q to p: along a move of the life cycle, and from
\* where a task that has not yielded can be only to another such place, unless
\* it is the ready queue of a worker that is not about to yield.
Legal(r, q, p) ==
  /\ OwnerStage(q) = OwnerStage(p) \/ <<OwnerStage(q), OwnerStage(p)>> \in LC!Moves
  /\ q \in Released =>
       \/ p \in Released
       \/ /\ p = <<"ready", attached[r], "run">>
          /\ pc[attached[r]] # "blocking"

\* Each resumable stays with its owner or is passed on to another one.
Moved ==
  \A r \in Resumables : \E q, p \in Owners : At(r, q) /\ At(r, p)' /\ Legal(r, q, p)

LEMMA OwnerKinds ==
  /\ \A t \in Threads, k \in Kinds : <<"call", t, k>> \in Owners
  /\ \A w \in Workers, k \in Kinds : /\ <<"external", w, k>> \in Owners
                                     /\ <<"ready", w, k>> \in Owners
                                     /\ <<"task", w, k>> \in Owners
  /\ \A w \in Workers : <<"sleep", w, None>> \in Owners
  /\ \A w \in Workers, f \in Fds : <<"epoll", w, f>> \in Owners
  /\ <<"fresh", None, None>> \in Owners
  /\ <<"waiting", None, None>> \in Owners
  /\ <<"done", None, None>> \in Owners
  /\ <<"lost", None, None>> \in Owners
  BY DEF Owners

LEMMA OwnerCases ==
  ASSUME NEW q \in Owners
  PROVE  \/ \E t \in Threads, k \in Kinds : q = <<"call", t, k>>
         \/ \E w \in Workers, k \in Kinds : \/ q = <<"external", w, k>>
                                            \/ q = <<"ready", w, k>>
                                            \/ q = <<"task", w, k>>
         \/ \E w \in Workers : q = <<"sleep", w, None>>
         \/ \E w \in Workers, f \in Fds : q = <<"epoll", w, f>>
         \/ q = <<"fresh", None, None>> \/ q = <<"waiting", None, None>>
         \/ q = <<"done", None, None>> \/ q = <<"lost", None, None>>
  BY DEF Owners

LEMMA OneAt ==
  ASSUME NEW r, NEW q \in Owners, NEW p \in Owners, At(r, q), At(r, p)
  PROVE  q = p
  BY OwnerCases, Zenon DEF At

\* The stages of the owners.
LEMMA Stages ==
  /\ \A t : OwnerStage(<<"call", t, "make">>) = "spawning"
  /\ \A t : OwnerStage(<<"call", t, "run">>) = "blocked"
  /\ \A w : OwnerStage(<<"external", w, "make">>) = "spawning"
  /\ \A w : OwnerStage(<<"external", w, "run">>) = "queued"
  /\ \A w : OwnerStage(<<"ready", w, "make">>) = "spawning"
  /\ \A w : OwnerStage(<<"ready", w, "run">>) = "queued"
  /\ \A w : OwnerStage(<<"task", w, "make">>) = "spawning"
  /\ \A w : OwnerStage(<<"task", w, "run">>) = "running"
  /\ \A w : OwnerStage(<<"sleep", w, None>>) = "blocked"
  /\ \A w, f : OwnerStage(<<"epoll", w, f>>) = "blocked"
  /\ OwnerStage(<<"fresh", None, None>>) = "new"
  /\ OwnerStage(<<"waiting", None, None>>) = "blocked"
  /\ OwnerStage(<<"done", None, None>>) = "done"
  /\ OwnerStage(<<"lost", None, None>>) = "lost"
  BY DEF OwnerStage

LEMMA LegalMoves ==
  /\ \A r, q : Legal(r, q, q)
  /\ \A r, w, p : OwnerStage(p) \in {"queued", "blocked", "done", "lost"} =>
       Legal(r, <<"task", w, "run">>, p)
  /\ \A r, w, p : OwnerStage(p) \in {"spawning", "queued"} =>
       Legal(r, <<"task", w, "make">>, p)
  /\ \A r, w, v, k : k \in Kinds => Legal(r, <<"ready", w, k>>, <<"task", v, k>>)
  /\ \A r, w, f, p : OwnerStage(p) \in {"queued", "lost"} =>
       Legal(r, <<"epoll", w, f>>, p)
  /\ \A r, w, p : OwnerStage(p) = "queued" => Legal(r, <<"sleep", w, None>>, p)
  /\ \A r, t : Legal(r, <<"fresh", None, None>>, <<"call", t, "make">>)
  <1> USE DEF Legal, LC!Moves, Released, Kinds
  <1>1. \A r, q : Legal(r, q, q)
    OBVIOUS
  <1>2. \A r, w, p : OwnerStage(p) \in {"queued", "blocked", "done", "lost"} =>
          Legal(r, <<"task", w, "run">>, p)
    BY Stages
  <1>3. \A r, w, p : OwnerStage(p) \in {"spawning", "queued"} =>
       Legal(r, <<"task", w, "make">>, p)
    BY Stages
  <1>4. \A r, w, v, k : k \in Kinds => Legal(r, <<"ready", w, k>>, <<"task", v, k>>)
    BY Stages
  <1>5. \A r, w, f, p : OwnerStage(p) \in {"queued", "lost"} =>
       Legal(r, <<"epoll", w, f>>, p)
    BY Stages
  <1>6. \A r, w, p : OwnerStage(p) = "queued" => Legal(r, <<"sleep", w, None>>, p)
    BY Stages
  <1>7. \A r, t : Legal(r, <<"fresh", None, None>>, <<"call", t, "make">>)
    BY Stages
  <1> QED BY <1>1, <1>2, <1>3, <1>4, <1>5, <1>6, <1>7

\* An item is a maker of a resumable or the resumable.
LEMMA ItemCases ==
  ASSUME NEW e \in Items
  PROVE  /\ \E k \in Kinds, r \in Resumables : e = <<k, r>>
         /\ e # None
  BY IsolationAssumption DEF Items, Kinds

----------------------------------------------------------------------------
(***************************************************************************)
(* What each step passes on.                                               *)
(***************************************************************************)

\* Where r is attached if q holds it.
HomeAt(r, q) ==
  /\ q[1] \in {"external", "ready", "task"} /\ q[3] = "run" => attached[r] = q[2]
  /\ q[1] \in {"sleep", "epoll"} => attached[r] = q[2]
  /\ q[1] = "call" /\ q[3] = "run" => attached[r] = call[q[2]].target
  /\ q[1] = "waiting" => attached[r] \in Workers

\* Nothing but its owner changes for r.
Fixed(r) ==
  /\ attached'[r] = attached[r]
  /\ \A t \in Threads : call[t].item = <<"run", r>> => call'[t].target = call[t].target
  /\ \A w \in Workers : current'[w] = <<"run", r>> => current[w] = <<"run", r>>

LEMMA HomeKept ==
  ASSUME NEW r \in Resumables, NEW q \in Owners, At(r, q), At(r, q)', HomeOf(r),
         Fixed(r)
  PROVE  HomeOf(r)'
  <1>1. /\ \A t \in Threads : call'[t].item = <<"run", r>> <=> call[t].item = <<"run", r>>
        /\ \A w \in Workers :
             /\ Contains(external'[w], <<"run", r>>) <=> Contains(external[w], <<"run", r>>)
             /\ Contains(ready'[w], <<"run", r>>) <=> Contains(ready[w], <<"run", r>>)
             /\ r \in sleepq'[w] <=> r \in sleepq[w]
             /\ \A f \in Fds : epoll'[w][f] = r <=> epoll[w][f] = r
        /\ r \in waiting' <=> r \in waiting
    BY DEF At, Kinds
  <1> QED BY <1>1 DEF HomeOf, Fixed

LEMMA HomeMoved ==
  ASSUME NEW r \in Resumables, NEW p \in Owners, At(r, p)', HomeAt(r, p)',
         \A w \in Workers : current'[w] = <<"run", r>> => attached'[r] = w
  PROVE  HomeOf(r)'
  <1>1. ASSUME NEW w \in Workers,
               \/ Contains(external'[w], <<"run", r>>)
               \/ Contains(ready'[w], <<"run", r>>)
               \/ r \in sleepq'[w]
               \/ \E f \in Fds : epoll'[w][f] = r
        PROVE  attached'[r] = w
    <2>1. \/ p \in {<<"external", w, "run">>, <<"ready", w, "run">>, <<"sleep", w, None>>}
          \/ \E f \in Fds : p = <<"epoll", w, f>>
      BY <1>1 DEF At, Kinds
    <2> QED BY <2>1 DEF HomeAt
  <1>2. ASSUME NEW t \in Threads, call'[t].item = <<"run", r>>
        PROVE  attached'[r] = call'[t].target
    <2>1. p = <<"call", t, "run">>
      BY <1>2 DEF At, Kinds
    <2> QED BY <2>1 DEF HomeAt
  <1>3. r \in waiting' => attached'[r] \in Workers
    <2>1. r \in waiting' => p = <<"waiting", None, None>>
      BY DEF At
    <2> QED BY <2>1 DEF HomeAt
  <1> QED BY <1>1, <1>2, <1>3 DEF HomeOf

LEMMA FixedReturns ==
  ASSUME LoopTypes, NEW w \in Workers, Returns(w), UNCHANGED call,
         NEW x \in Resumables, attached'[x] = attached[x]
  PROVE  Fixed(x)
  <1>1. \A v \in Workers : current'[v] = IF v = w THEN None ELSE current[v]
    BY DEF LoopTypes, Returns
  <1>2. None # <<"run", x>>
    BY IsolationAssumption DEF Items
  <1> QED BY <1>1, <1>2 DEF Fixed

LEMMA NothingMoves ==
  ASSUME Located, LinkedOnce, AtHome, \A x \in Resumables : Fixed(x),
         \A t \in Threads : call'[t].item = call[t].item,
         UNCHANGED <<fresh, external, ready, sleepq, epoll, waiting, done, lost>>,
         \A w \in Workers, k \in Kinds, r \in Resumables :
           (pc[w] = "task" /\ current[w] = <<k, r>>)'
             <=> (pc[w] = "task" /\ current[w] = <<k, r>>)
  PROVE  Moved /\ LinkedOnce' /\ AtHome'
  <1>1. ASSUME NEW x \in Resumables, NEW q \in Owners, At(x, q)
        PROVE  At(x, q)'
    BY <1>1 DEF At
  <1>2. AtHome'
    BY <1>1, HomeKept DEF Located, AtHome
  <1> QED BY <1>1, <1>2, LegalMoves DEF Located, LinkedOnce, Moved

LEMMA SpawnMoves ==
  ASSUME IInv, NEW t \in Threads, NEW r \in Resumables, Spawn(t, r)
  PROVE  Moved /\ LinkedOnce' /\ AtHome'
  <1>0. call \in [Threads -> Calls] /\ Located /\ LinkedOnce
    BY DEF IInv, Types, CallTypes
  <1>1. /\ r \in fresh /\ call[t].item = None
        /\ \A a \in Threads : call'[a].item = IF a = t THEN <<"make", r>> ELSE call[a].item
        /\ fresh' = fresh \ {r}
        /\ UNCHANGED <<external, ready, pc, current, sleepq, epoll, waiting, done, lost>>
    BY <1>0 DEF Spawn, Running, IInv, Types, PointsOK, Calls, runVars, sleepVars,
                endVars
  <1>2. At(r, <<"fresh", None, None>>)
    BY <1>0, <1>1 DEF Located, At
  <1>3. At(r, <<"call", t, "make">>)'
    BY <1>1, <1>2 DEF At, Kinds
  <1>4. ASSUME NEW x \in Resumables \ {r}, NEW q \in Owners, At(x, q)
        PROVE  At(x, q)'
    <2>1. \A a \in Threads, k \in Kinds : call'[a].item = <<k, x>> <=> call[a].item = <<k, x>>
      <3>1. \A k \in Kinds : <<k, x>> # None /\ <<k, x>> # <<"make", r>>
        BY IsolationAssumption DEF Items, Kinds
      <3> QED BY <1>1, <3>1
    <2> QED BY <1>1, <1>4, <2>1 DEF At
  <1>5. ASSUME NEW x \in Resumables
        PROVE  \E q, p \in Owners : At(x, q) /\ At(x, p)' /\ Legal(x, q, p)
    <2>1. CASE x = r
      BY <1>2, <1>3, <2>1, LegalMoves, OwnerKinds DEF Kinds
    <2>2. CASE x # r
      BY <1>0, <1>4, <2>2, LegalMoves DEF Located
    <2> QED BY <2>1, <2>2
  <1>6. AtHome'
    <2>1. ASSUME NEW x \in Resumables \ {r} PROVE HomeOf(x)'
      <3>1. Fixed(x)
        <4>1. None # <<"run", x>>
          BY IsolationAssumption DEF Items
        <4>2. \A a \in Threads : a # t => call'[a] = call[a]
          BY <1>0 DEF Spawn
        <4>3. attached' = attached /\ current' = current
          BY <1>1 DEF Spawn
        <4> QED BY <1>1, <4>1, <4>2, <4>3 DEF Fixed
      <3> QED BY <1>4, <3>1, HomeKept DEF IInv, Located, AtHome
    <2>2. HomeOf(r)'
      <3>1. HomeAt(r, <<"call", t, "make">>)'
        BY DEF HomeAt
      <3>2. \A w \in Workers : current'[w] = <<"run", r>> => attached'[r] = w
        BY <1>1 DEF Spawn, IInv, AtHome, HomeOf
      <3> QED BY <1>3, <3>1, <3>2, HomeMoved, OwnerKinds DEF Kinds
    <2> QED BY <2>1, <2>2 DEF AtHome
  <1> QED BY <1>0, <1>1, <1>5, <1>6 DEF Moved, LinkedOnce

\* push_externally passes the item to the external queue of the target.
LEMMA PushMoves ==
  ASSUME IInv, NEW t \in Threads, PushExternal(t)
  PROVE  Moved /\ LinkedOnce' /\ AtHome'
  <1>0. call \in [Threads -> Calls] /\ Located /\ LinkedOnce
        /\ external \in [Workers -> Seq(Items)]
    BY DEF IInv, Types, CallTypes, QueueTypes
  <1>1. PICK e \in Items, v \in Workers : e = call[t].item /\ v = call[t].target
    BY <1>0 DEF IInv, Types, PointsOK, Calls, PushExternal
  <1>2. PICK k \in Kinds, r \in Resumables : e = <<k, r>>
    BY <1>1, ItemCases
  <1>3. /\ \A a \in Threads : call'[a].item = IF a = t THEN None ELSE call[a].item
        /\ external' = [external EXCEPT ![v] = Append(@, e)]
        /\ UNCHANGED <<fresh, ready, pc, current, sleepq, epoll, waiting, done, lost>>
    BY <1>0, <1>1 DEF PushExternal, Calls, runVars, sleepVars, endVars
  <1>4. At(r, <<"call", t, k>>)
    <2>1. PICK q \in Owners : At(r, q)
      BY <1>0 DEF Located
    <2>2. q = <<"call", t, k>>
      BY <1>1, <1>2, <2>1 DEF At
    <2> QED BY <2>1, <2>2
  <1>5. ~Contains(external[v], e)
    BY <1>2, <1>4 DEF At
  <1>6. /\ \A x : Contains(external'[v], x) <=> (Contains(external[v], x) \/ x = e)
        /\ \A w \in Workers \ {v} : external'[w] = external[w]
        /\ IsInjective(external[v]) => IsInjective(external'[v])
    <2>1. external[v] \in Seq(Items) /\ external'[v] = Append(external[v], e)
      BY <1>0, <1>3
    <2> QED BY <1>0, <1>3, <1>5, <2>1, ContainsAppend
  <1>7. \A j \in Kinds, x \in Resumables : <<j, x>> # None /\ (<<j, x>> = e => j = k /\ x = r)
    BY <1>2, IsolationAssumption DEF Items, Kinds
  <1>8. At(r, <<"external", v, k>>)'
    <2>1. \A a \in Threads, j \in Kinds : call'[a].item # <<j, r>>
      BY <1>3, <1>4, <1>7 DEF At
    <2>2. \A w \in Workers, j \in Kinds :
            Contains(external'[w], <<j, r>>) <=> w = v /\ j = k
      BY <1>2, <1>4, <1>6, <1>7 DEF At
    <2> QED BY <1>3, <1>4, <2>1, <2>2 DEF At
  <1>9. ASSUME NEW x \in Resumables \ {r}, NEW q \in Owners, At(x, q)
        PROVE  At(x, q)'
    <2>1. \A a \in Threads, j \in Kinds : call'[a].item = <<j, x>> <=> call[a].item = <<j, x>>
      BY <1>1, <1>3, <1>7
    <2>2. \A w \in Workers, j \in Kinds :
            Contains(external'[w], <<j, x>>) <=> Contains(external[w], <<j, x>>)
      BY <1>6, <1>7
    <2> QED BY <1>3, <1>9, <2>1, <2>2 DEF At
  <1>10. Legal(r, <<"call", t, k>>, <<"external", v, k>>)
    <2>1. OwnerStage(<<"call", t, k>>) = OwnerStage(<<"external", v, k>>)
          \/ <<OwnerStage(<<"call", t, k>>), OwnerStage(<<"external", v, k>>)>> \in LC!Moves
      BY Stages DEF Kinds, LC!Moves
    <2>2. <<"call", t, k>> \in Released => <<"external", v, k>> \in Released
      BY DEF Released
    <2> QED BY <2>1, <2>2 DEF Legal
  <1>11. ASSUME NEW x \in Resumables
         PROVE  \E q, p \in Owners : At(x, q) /\ At(x, p)' /\ Legal(x, q, p)
    <2>1. CASE x = r
      BY <1>4, <1>8, <1>10, <2>1, OwnerKinds
    <2>2. CASE x # r
      BY <1>0, <1>9, <2>2, LegalMoves DEF Located
    <2> QED BY <2>1, <2>2
  <1>12. LinkedOnce'
    BY <1>0, <1>3, <1>6 DEF LinkedOnce
  <1>13. AtHome'
    <2>1. ASSUME NEW x \in Resumables \ {r} PROVE HomeOf(x)'
      <3>1. Fixed(x)
        BY <1>0, <1>3 DEF PushExternal, Fixed, Calls, runVars
      <3> QED BY <1>9, <3>1, HomeKept DEF IInv, Located, AtHome
    <2>2. HomeOf(r)'
      <3>1. HomeAt(r, <<"external", v, k>>)'
        <4>1. attached' = attached
          BY DEF PushExternal
        <4>2. k = "run" => attached[r] = v
          BY <1>1, <1>2 DEF IInv, AtHome, HomeOf
        <4> QED BY <4>1, <4>2 DEF HomeAt
      <3>2. \A w \in Workers : current'[w] = <<"run", r>> => attached'[r] = w
        BY <1>3 DEF PushExternal, IInv, AtHome, HomeOf
      <3> QED BY <1>8, <3>1, <3>2, HomeMoved, OwnerKinds
    <2> QED BY <2>1, <2>2 DEF AtHome
  <1> QED BY <1>11, <1>12, <1>13 DEF Moved

\* A holder of r is its only owner.
LEMMA Holder ==
  ASSUME Located, NEW r \in Resumables
  PROVE  /\ \A w \in Workers, k \in Kinds :
              /\ Contains(external[w], <<k, r>>) => At(r, <<"external", w, k>>)
              /\ Contains(ready[w], <<k, r>>) => At(r, <<"ready", w, k>>)
              /\ pc[w] = "task" /\ current[w] = <<k, r>> => At(r, <<"task", w, k>>)
         /\ \A w \in Workers : r \in sleepq[w] => At(r, <<"sleep", w, None>>)
         /\ \A w \in Workers, f \in Fds : epoll[w][f] = r => At(r, <<"epoll", w, f>>)
         /\ r \in waiting => At(r, <<"waiting", None, None>>)
  <1>1. PICK q \in Owners : At(r, q)
    BY DEF Located
  <1>2. ASSUME NEW w \in Workers, NEW k \in Kinds
        PROVE /\ Contains(external[w], <<k, r>>) => q = <<"external", w, k>>
              /\ Contains(ready[w], <<k, r>>) => q = <<"ready", w, k>>
              /\ pc[w] = "task" /\ current[w] = <<k, r>> => q = <<"task", w, k>>
    BY <1>1 DEF At
  <1>3. /\ \A w \in Workers : r \in sleepq[w] => q = <<"sleep", w, None>>
        /\ \A w \in Workers, f \in Fds : epoll[w][f] = r => q = <<"epoll", w, f>>
        /\ r \in waiting => q = <<"waiting", None, None>>
    BY <1>1 DEF At
  <1> QED BY <1>1, <1>2, <1>3

\* The resumable that w runs, outside a call.
LEMMA TaskOwner ==
  ASSUME IInv, NEW w \in Workers, Running(w)
  PROVE  /\ Self(w) \in Resumables
         /\ pc[w] = "task" /\ current[w] = <<"run", Self(w)>>
         /\ At(Self(w), <<"task", w, "run">>)
         /\ call[w].item = None
  <1>0. LoopTypes /\ Located /\ PointsOK
    BY DEF IInv, Types
  <1>1. current[w] \in Items /\ pc[w] = "task" /\ current[w][1] = "run"
    BY <1>0 DEF Running, PointsOK, LoopTypes
  <1>2. PICK k \in Kinds, r \in Resumables : current[w] = <<k, r>>
    BY <1>1, ItemCases
  <1>3. k = "run" /\ r = Self(w)
    BY <1>1, <1>2 DEF Self
  <1>4. At(r, <<"task", w, "run">>)
    BY <1>0, <1>1, <1>2, <1>3, Holder
  <1>5. call[w].item = None
    BY <1>0 DEF Running, PointsOK, Threads
  <1> QED BY <1>1, <1>2, <1>3, <1>4, <1>5

\* The task of w returns: w holds it no longer, and no other task is touched.
LEMMA Returned ==
  ASSUME LoopTypes, NEW w \in Workers, NEW j \in Kinds, NEW r \in Resumables,
         pc[w] = "task", current[w] = <<j, r>>, Returns(w),
         At(r, <<"task", w, j>>)
  PROVE  /\ \A v \in Workers, k \in Kinds : ~(pc[v] = "task" /\ current[v] = <<k, r>>)'
         /\ \A v \in Workers, k \in Kinds, x \in Resumables \ {r} :
              (pc[v] = "task" /\ current[v] = <<k, x>>)'
                <=> (pc[v] = "task" /\ current[v] = <<k, x>>)
  <1>1. \A v \in Workers : /\ pc'[v] = IF v = w THEN "drain" ELSE pc[v]
                           /\ current'[v] = IF v = w THEN None ELSE current[v]
    BY DEF LoopTypes, Returns
  <1>2. \A v \in Workers, k \in Kinds : pc[v] = "task" /\ current[v] = <<k, r>> => v = w
    BY DEF At
  <1> QED BY <1>1, <1>2

\* An item is appended to the ready queue of w, which did not hold it.
LEMMA ReadyAppend ==
  ASSUME QueueTypes, NEW w \in Workers, NEW e \in Items, ~Contains(ready[w], e),
         ready' = [ready EXCEPT ![w] = Append(@, e)]
  PROVE  /\ \A v \in Workers : \A x :
              Contains(ready'[v], x) <=> Contains(ready[v], x) \/ (v = w /\ x = e)
         /\ \A v \in Workers : IsInjective(ready[v]) => IsInjective(ready'[v])
         /\ ready' \in [Workers -> Seq(Items)]
  <1>1. /\ ready[w] \in Seq(Items) /\ ready'[w] = Append(ready[w], e)
        /\ \A v \in Workers \ {w} : ready'[v] = ready[v]
    BY DEF QueueTypes
  <1>2. /\ \A x : Contains(ready'[w], x) <=> (Contains(ready[w], x) \/ x = e)
        /\ IsInjective(ready[w]) => IsInjective(ready'[w])
        /\ ready'[w] \in Seq(Items)
    BY <1>1, ContainsAppend
  <1>3. ready' \in [Workers -> Seq(Items)]
    BY <1>1, <1>2 DEF QueueTypes
  <1> QED BY <1>1, <1>2, <1>3

LEMMA MakeMoves ==
  ASSUME IInv, NEW w \in Workers, Make(w)
  PROVE  Moved /\ LinkedOnce' /\ AtHome'
  <1>0. LoopTypes /\ QueueTypes /\ Located /\ LinkedOnce /\ PointsOK
    BY DEF IInv, Types
  <1>1. PICK r \in Resumables : current[w] = <<"make", r>> /\ r = Self(w)
    <2>1. current[w] \in Items /\ current[w][1] = "make"
      BY <1>0 DEF Make, PointsOK, LoopTypes
    <2>2. PICK k \in Kinds, r \in Resumables : current[w] = <<k, r>>
      BY <2>1, ItemCases
    <2> QED BY <2>1, <2>2 DEF Self
  <1>2. At(r, <<"task", w, "make">>)
    BY <1>0, <1>1, Holder DEF Make, Kinds
  <1>3. /\ \A v \in Workers, k \in Kinds : ~(pc[v] = "task" /\ current[v] = <<k, r>>)'
        /\ \A v \in Workers, k \in Kinds, x \in Resumables \ {r} :
             (pc[v] = "task" /\ current[v] = <<k, x>>)'
               <=> (pc[v] = "task" /\ current[v] = <<k, x>>)
    BY <1>0, <1>1, <1>2, Returned DEF Make, Kinds
  <1>4. UNCHANGED <<fresh, call, external, sleepq, epoll, waiting, done, lost>>
    BY DEF Make, sleepVars, endVars
  <1>5. <<"run", r>> \in Items /\ ~Contains(ready[w], <<"run", r>>)
    BY <1>2 DEF Items, At, Kinds
  <1>6. /\ \A v \in Workers : \A x :
              Contains(ready'[v], x) <=> Contains(ready[v], x) \/ (v = w /\ x = <<"run", r>>)
        /\ \A v \in Workers : IsInjective(ready[v]) => IsInjective(ready'[v])
    BY <1>0, <1>1, <1>5, ReadyAppend DEF Make
  <1>7. At(r, <<"ready", w, "run">>)'
    BY <1>2, <1>3, <1>4, <1>6 DEF At, Kinds
  <1>8. ASSUME NEW x \in Resumables \ {r}, NEW q \in Owners, At(x, q)
        PROVE  At(x, q)'
    <2>1. \A v \in Workers, k \in Kinds :
            Contains(ready'[v], <<k, x>>) <=> Contains(ready[v], <<k, x>>)
      BY <1>6
    <2> QED BY <1>3, <1>4, <1>8, <2>1 DEF At
  <1>9. Legal(r, <<"task", w, "make">>, <<"ready", w, "run">>)
    BY LegalMoves, Stages
  <1>10. ASSUME NEW x \in Resumables
         PROVE  \E q, p \in Owners : At(x, q) /\ At(x, p)' /\ Legal(x, q, p)
    <2>1. CASE x = r
      BY <1>2, <1>7, <1>9, <2>1, OwnerKinds DEF Kinds
    <2>2. CASE x # r
      BY <1>0, <1>8, <2>2, LegalMoves DEF Located
    <2> QED BY <2>1, <2>2
  <1>11. AtHome'
    <2>1. ASSUME NEW x \in Resumables \ {r} PROVE HomeOf(x)'
      <3>1. Fixed(x)
        <4>1. attached'[x] = attached[x]
          BY <1>1 DEF Make, IInv, Types, CallTypes
        <4> QED BY <1>0, <1>4, <4>1, FixedReturns DEF Make
      <3> QED BY <1>8, <3>1, HomeKept DEF IInv, Located, AtHome
    <2>2. HomeOf(r)'
      <3>1. attached'[r] = w
        BY <1>1 DEF Make, IInv, Types, CallTypes
      <3>2. HomeAt(r, <<"ready", w, "run">>)'
        BY <3>1 DEF HomeAt
      <3>3. \A v \in Workers : current'[v] # <<"run", r>>
        <4>1. ASSUME NEW v \in Workers, v # w, current[v] = <<"run", r>> PROVE FALSE
          <5>1. pc[v] = "blocking"
            <6>1. current[v] # None
              BY <4>1, IsolationAssumption DEF Items
            <6>2. pc[v] \in {"task", "blocking"}
              BY <1>0, <6>1 DEF PointsOK
            <6>3. pc[v] # "task"
              BY <1>2, <4>1 DEF At, Kinds
            <6> QED BY <6>2, <6>3
          <5>2. PICK q \in Released : At(r, q)
            BY <4>1, <5>1 DEF IInv, YieldsNext
          <5>3. q # <<"task", w, "make">>
            BY DEF Released
          <5>4. pc[w] = "task" /\ current[w] = <<"make", r>>
            BY <1>1 DEF Make
          <5> QED BY <5>2, <5>3, <5>4 DEF At, Kinds
        <4>2. \A v \in Workers : current'[v] = IF v = w THEN None ELSE current[v]
          BY <1>0 DEF Make, Returns, LoopTypes
        <4>3. None # <<"run", r>>
          BY IsolationAssumption DEF Items
        <4> QED BY <4>1, <4>2, <4>3
      <3> QED BY <1>7, <3>2, <3>3, HomeMoved, OwnerKinds DEF Kinds
    <2> QED BY <2>1, <2>2 DEF AtHome
  <1> QED BY <1>0, <1>4, <1>6, <1>10, <1>11 DEF Moved, LinkedOnce

LEMMA DoneMoves ==
  ASSUME IInv, NEW w \in Workers, TaskDone(w)
  PROVE  Moved /\ LinkedOnce' /\ AtHome'
  <1>0. LoopTypes /\ Located /\ LinkedOnce
    BY DEF IInv, Types
  <1>1. PICK r \in Resumables : r = Self(w)
    BY TaskOwner DEF TaskDone
  <1>2. /\ pc[w] = "task" /\ current[w] = <<"run", r>>
        /\ At(r, <<"task", w, "run">>)
    BY <1>1, TaskOwner DEF TaskDone
  <1>3. /\ \A v \in Workers, k \in Kinds : ~(pc[v] = "task" /\ current[v] = <<k, r>>)'
        /\ \A v \in Workers, k \in Kinds, x \in Resumables \ {r} :
             (pc[v] = "task" /\ current[v] = <<k, x>>)'
               <=> (pc[v] = "task" /\ current[v] = <<k, x>>)
    BY <1>0, <1>2, Returned DEF TaskDone, Kinds
  <1>4. /\ UNCHANGED <<fresh, call, external, ready, sleepq, epoll, waiting, lost>>
        /\ done' = done \cup {r}
    BY <1>1 DEF TaskDone, sleepVars
  <1>5. At(r, <<"done", None, None>>)'
    BY <1>2, <1>3, <1>4 DEF At, Kinds
  <1>6. ASSUME NEW x \in Resumables \ {r}, NEW q \in Owners, At(x, q)
        PROVE  At(x, q)'
    BY <1>3, <1>4, <1>6 DEF At
  <1>7. Legal(r, <<"task", w, "run">>, <<"done", None, None>>)
    BY LegalMoves, Stages
  <1>8. ASSUME NEW x \in Resumables
        PROVE  \E q, p \in Owners : At(x, q) /\ At(x, p)' /\ Legal(x, q, p)
    <2>1. CASE x = r
      BY <1>2, <1>5, <1>7, <2>1, OwnerKinds DEF Kinds
    <2>2. CASE x # r
      BY <1>0, <1>6, <2>2, LegalMoves DEF Located
    <2> QED BY <2>1, <2>2
  <1>9. AtHome'
    <2>1. ASSUME NEW x \in Resumables \ {r} PROVE HomeOf(x)'
      <3>1. Fixed(x)
        <4>1. attached'[x] = attached[x]
          BY <1>1 DEF TaskDone, IInv, Types, CallTypes
        <4> QED BY <1>0, <1>4, <4>1, FixedReturns DEF TaskDone
      <3> QED BY <1>6, <3>1, HomeKept DEF IInv, Located, AtHome
    <2>2. HomeOf(r)'
      <3>1. HomeAt(r, <<"done", None, None>>)'
        BY DEF HomeAt
      <3>2. \A v \in Workers : current'[v] = <<"run", r>> => current[v] = <<"run", r>> /\ v # w
        <4>1. None # <<"run", r>>
          BY IsolationAssumption DEF Items
        <4> QED BY <1>0, <4>1 DEF TaskDone, Returns, LoopTypes
      <3>3. \A v \in Workers : current'[v] # <<"run", r>>
        BY <1>2, <3>2 DEF IInv, AtHome, HomeOf
      <3> QED BY <1>5, <3>1, <3>3, HomeMoved, OwnerKinds
    <2> QED BY <2>1, <2>2 DEF AtHome
  <1> QED BY <1>0, <1>4, <1>8, <1>9 DEF Moved, LinkedOnce

LEMMA ResumeLaterMoves ==
  ASSUME IInv, NEW w \in Workers, TaskResumeLater(w)
  PROVE  Moved /\ LinkedOnce' /\ AtHome'
  <1>0. LoopTypes /\ QueueTypes /\ Located /\ LinkedOnce
    BY DEF IInv, Types
  <1>1. PICK r \in Resumables : r = Self(w)
    BY TaskOwner DEF TaskResumeLater
  <1>2. /\ pc[w] = "task" /\ current[w] = <<"run", r>>
        /\ At(r, <<"task", w, "run">>)
    BY <1>1, TaskOwner DEF TaskResumeLater
  <1>3. /\ \A v \in Workers, k \in Kinds : ~(pc[v] = "task" /\ current[v] = <<k, r>>)'
        /\ \A v \in Workers, k \in Kinds, x \in Resumables \ {r} :
             (pc[v] = "task" /\ current[v] = <<k, x>>)'
               <=> (pc[v] = "task" /\ current[v] = <<k, x>>)
    BY <1>0, <1>2, Returned DEF TaskResumeLater, Kinds
  <1>4. UNCHANGED <<fresh, call, external, sleepq, epoll, waiting, done, lost>>
    BY <1>1 DEF TaskResumeLater, sleepVars, callVars, endVars
  <1>5. <<"run", r>> \in Items /\ ~Contains(ready[w], <<"run", r>>)
    BY <1>2 DEF Items, At, Kinds
  <1>6. /\ \A v \in Workers : \A x :
              Contains(ready'[v], x) <=> Contains(ready[v], x) \/ (v = w /\ x = <<"run", r>>)
        /\ \A v \in Workers : IsInjective(ready[v]) => IsInjective(ready'[v])
    BY <1>0, <1>2, <1>5, ReadyAppend DEF TaskResumeLater
  <1>7. At(r, <<"ready", w, "run">>)'
    BY <1>2, <1>3, <1>4, <1>6 DEF At, Kinds
  <1>8. ASSUME NEW x \in Resumables \ {r}, NEW q \in Owners, At(x, q)
        PROVE  At(x, q)'
    <2>1. \A v \in Workers, k \in Kinds :
            Contains(ready'[v], <<k, x>>) <=> Contains(ready[v], <<k, x>>)
      BY <1>6
    <2> QED BY <1>3, <1>4, <1>8, <2>1 DEF At
  <1>9. Legal(r, <<"task", w, "run">>, <<"ready", w, "run">>)
    BY LegalMoves, Stages
  <1>10. ASSUME NEW x \in Resumables
         PROVE  \E q, p \in Owners : At(x, q) /\ At(x, p)' /\ Legal(x, q, p)
    <2>1. CASE x = r
      BY <1>2, <1>7, <1>9, <2>1, OwnerKinds DEF Kinds
    <2>2. CASE x # r
      BY <1>0, <1>8, <2>2, LegalMoves DEF Located
    <2> QED BY <2>1, <2>2
  <1>11. AtHome'
    <2>1. ASSUME NEW x \in Resumables \ {r} PROVE HomeOf(x)'
      <3>1. Fixed(x)
        <4>1. attached'[x] = attached[x]
          BY DEF TaskResumeLater, callVars
        <4> QED BY <1>0, <1>4, <4>1, FixedReturns DEF TaskResumeLater
      <3> QED BY <1>8, <3>1, HomeKept DEF IInv, Located, AtHome
    <2>2. HomeOf(r)'
      <3>1. HomeAt(r, <<"ready", w, "run">>)'
        BY <1>2 DEF HomeAt, TaskResumeLater, callVars, IInv, AtHome, HomeOf
      <3>2. \A v \in Workers : current'[v] = <<"run", r>> => current[v] = <<"run", r>> /\ v # w
        <4>1. None # <<"run", r>>
          BY IsolationAssumption DEF Items
        <4> QED BY <1>0, <4>1 DEF TaskResumeLater, Returns, LoopTypes
      <3>3. \A v \in Workers : current'[v] # <<"run", r>>
        <4>1. HomeOf(r)
          BY <1>2 DEF IInv, AtHome
        <4>2. \A v \in Workers : current[v] = <<"run", r>> => attached[r] = v
          BY <4>1 DEF HomeOf
        <4>3. current[w] = <<"run", r>>
          BY <1>2
        <4> QED BY <3>2, <4>2, <4>3
      <3> QED BY <1>7, <3>1, <3>3, HomeMoved, OwnerKinds DEF Kinds
    <2> QED BY <2>1, <2>2 DEF AtHome
  <1> QED BY <1>0, <1>4, <1>6, <1>10, <1>11 DEF Moved, LinkedOnce

LEMMA SleepMoves ==
  ASSUME IInv, NEW w \in Workers, NEW d \in Durations, TaskSleep(w, d)
  PROVE  Moved /\ LinkedOnce' /\ AtHome'
  <1>0. LoopTypes /\ QueueTypes /\ Located /\ LinkedOnce /\ AtHome
    BY DEF IInv, Types
  <1>1. PICK r \in Resumables : r = Self(w)
    BY TaskOwner DEF TaskSleep
  <1>2. /\ pc[w] = "task" /\ current[w] = <<"run", r>>
        /\ At(r, <<"task", w, "run">>)
    BY <1>1, TaskOwner DEF TaskSleep
  <1>3. UNCHANGED <<fresh, call, external, ready, epoll, waiting, done, lost>>
    BY DEF TaskSleep, callVars
  <1>6. UNCHANGED attached
    BY DEF TaskSleep, callVars
  <1>4. CASE \E q \in sleepq[w] : wakeup[q] = d
    <2>1. UNCHANGED <<pc, current, sleepq>>
      BY <1>4 DEF TaskSleep
    <2>2. \A x \in Resumables : Fixed(x)
      BY <1>3, <1>6, <2>1 DEF Fixed
    <2> QED BY <1>0, <1>3, <2>1, <2>2, NothingMoves
  <1>5. CASE ~\E q \in sleepq[w] : wakeup[q] = d
    <2>1. Returns(w) /\ sleepq' = [sleepq EXCEPT ![w] = @ \cup {r}]
      BY <1>1, <1>5 DEF TaskSleep
    <2>2. /\ \A v \in Workers, k \in Kinds : ~(pc[v] = "task" /\ current[v] = <<k, r>>)'
          /\ \A v \in Workers, k \in Kinds, x \in Resumables \ {r} :
               (pc[v] = "task" /\ current[v] = <<k, x>>)'
                 <=> (pc[v] = "task" /\ current[v] = <<k, x>>)
      BY <1>0, <1>2, <2>1, Returned DEF Kinds
    <2>3. \A v \in Workers : \A x : x \in sleepq'[v] <=> x \in sleepq[v] \/ (v = w /\ x = r)
      BY <1>0, <2>1 DEF QueueTypes
    <2>4. At(r, <<"sleep", w, None>>)'
      BY <1>2, <1>3, <2>2, <2>3 DEF At, Kinds
    <2>5. ASSUME NEW x \in Resumables \ {r}, NEW q \in Owners, At(x, q)
          PROVE  At(x, q)'
      <3>1. \A v \in Workers : x \in sleepq'[v] <=> x \in sleepq[v]
        BY <2>3
      <3> QED BY <1>3, <2>2, <2>5, <3>1 DEF At
    <2>6. Legal(r, <<"task", w, "run">>, <<"sleep", w, None>>)
      BY LegalMoves, Stages
    <2>7. ASSUME NEW x \in Resumables
          PROVE  \E q, p \in Owners : At(x, q) /\ At(x, p)' /\ Legal(x, q, p)
      <3>1. CASE x = r
        BY <1>2, <2>4, <2>6, <3>1, OwnerKinds DEF Kinds
      <3>2. CASE x # r
        BY <1>0, <2>5, <3>2, LegalMoves DEF Located
      <3> QED BY <3>1, <3>2
    <2>8. ASSUME NEW x \in Resumables \ {r} PROVE HomeOf(x)'
      <3>1. Fixed(x)
        BY <1>0, <1>3, <1>6, <2>1, FixedReturns
      <3> QED BY <1>0, <2>5, <3>1, HomeKept DEF Located, AtHome
    <2>9. HomeOf(r)'
      <3>1. HomeAt(r, <<"sleep", w, None>>)'
        BY <1>0, <1>2, <1>6 DEF HomeAt, AtHome, HomeOf
      <3>2. \A v \in Workers : current'[v] = <<"run", r>> => current[v] = <<"run", r>> /\ v # w
        <4>1. None # <<"run", r>>
          BY IsolationAssumption DEF Items
        <4> QED BY <1>0, <2>1, <4>1 DEF Returns, LoopTypes
      <3>3. \A v \in Workers : current'[v] # <<"run", r>>
        BY <1>0, <1>2, <3>2, SMTT(30) DEF AtHome, HomeOf
      <3> QED BY <2>4, <3>1, <3>3, HomeMoved, OwnerKinds
    <2> QED BY <1>0, <1>3, <2>7, <2>8, <2>9 DEF Moved, LinkedOnce, AtHome
  <1> QED BY <1>4, <1>5

\* A registration takes the place of the one the reactor had for the fd.
LEMMA AwaitMoves ==
  ASSUME IInv, NEW w \in Workers, NEW f \in Fds, TaskAwaitPort(w, f)
  PROVE  Moved /\ LinkedOnce' /\ AtHome'
  <1>0. LoopTypes /\ QueueTypes /\ Located /\ LinkedOnce /\ AtHome
    BY DEF IInv, Types
  <1>1. PICK r \in Resumables : r = Self(w)
    BY TaskOwner DEF TaskAwaitPort
  <1>2. /\ pc[w] = "task" /\ current[w] = <<"run", r>>
        /\ At(r, <<"task", w, "run">>)
    BY <1>1, TaskOwner DEF TaskAwaitPort
  <1>3. UNCHANGED <<fresh, call, external, ready, sleepq, waiting, done>>
    BY DEF TaskAwaitPort, callVars, sleepVars
  <1>4. /\ \A v \in Workers, k \in Kinds : ~(pc[v] = "task" /\ current[v] = <<k, r>>)'
        /\ \A v \in Workers, k \in Kinds, x \in Resumables \ {r} :
             (pc[v] = "task" /\ current[v] = <<k, x>>)'
               <=> (pc[v] = "task" /\ current[v] = <<k, x>>)
    BY <1>0, <1>2, Returned DEF Kinds, TaskAwaitPort
  <1>7. UNCHANGED attached /\ Returns(w)
    BY DEF TaskAwaitPort, callVars
  <1>8. \A x \in Resumables : Fixed(x)
    BY <1>0, <1>3, <1>7, FixedReturns
  <1>9. \A v \in Workers : current'[v] # <<"run", r>>
    <2>1. None # <<"run", r>>
      BY IsolationAssumption DEF Items
    <2>2. \A v \in Workers : current'[v] = IF v = w THEN None ELSE current[v]
      BY <1>0, <1>7 DEF Returns, LoopTypes
    <2> QED BY <1>0, <1>2, <2>1, <2>2 DEF AtHome, HomeOf
  <1>5. CASE f \in ClosedFds
    <2>1. UNCHANGED epoll /\ lost' = lost \cup {r}
      BY <1>1, <1>5 DEF TaskAwaitPort
    <2>2. At(r, <<"lost", None, None>>)'
      BY <1>2, <1>3, <1>4, <2>1 DEF At, Kinds
    <2>3. ASSUME NEW x \in Resumables \ {r}, NEW q \in Owners, At(x, q)
          PROVE  At(x, q)'
      BY <1>3, <1>4, <2>1, <2>3 DEF At
    <2>4. Legal(r, <<"task", w, "run">>, <<"lost", None, None>>)
      BY LegalMoves, Stages
    <2>5. ASSUME NEW x \in Resumables
          PROVE  \E q, p \in Owners : At(x, q) /\ At(x, p)' /\ Legal(x, q, p)
      <3>1. CASE x = r
        BY <1>2, <2>2, <2>4, <3>1, OwnerKinds DEF Kinds
      <3>2. CASE x # r
        BY <1>0, <2>3, <3>2, LegalMoves DEF Located
      <3> QED BY <3>1, <3>2
    <2>6. HomeOf(r)'
      <3>1. HomeAt(r, <<"lost", None, None>>)'
        BY DEF HomeAt
      <3> QED BY <1>9, <2>2, <3>1, HomeMoved, OwnerKinds
    <2>7. \A x \in Resumables \ {r} : HomeOf(x)'
      BY <1>0, <1>8, <2>3, HomeKept DEF Located, AtHome
    <2> QED BY <1>0, <1>3, <2>5, <2>6, <2>7 DEF Moved, LinkedOnce, AtHome
  <1>6. CASE f \notin ClosedFds
    <2>0. PICK o \in Resumables \cup {None} : o = epoll[w][f]
      BY <1>0 DEF QueueTypes
    <2>1. /\ \A v \in Workers, g \in Fds :
               epoll'[v][g] = IF v = w /\ g = f THEN r ELSE epoll[v][g]
          /\ lost' = lost \cup ({o} \ {None})
      BY <1>0, <1>1, <1>6, <2>0 DEF TaskAwaitPort, QueueTypes
    <2>2. o # r
      BY <1>2, <2>0 DEF At
    <2>3. At(r, <<"epoll", w, f>>)'
      BY <1>2, <1>3, <1>4, <2>1, <2>2 DEF At, Kinds
    <2>4. ASSUME o \in Resumables
          PROVE  At(o, <<"epoll", w, f>>) /\ At(o, <<"lost", None, None>>)'
      <3>1. At(o, <<"epoll", w, f>>)
        BY <1>0, <2>0, <2>4, Holder
      <3>2. \A v \in Workers, g \in Fds : epoll'[v][g] # o
        BY <2>1, <2>2, <3>1 DEF At
      <3>3. o # None
        BY <2>4, IsolationAssumption
      <3> QED BY <1>3, <1>4, <2>1, <2>2, <2>4, <3>1, <3>2, <3>3 DEF At, Kinds
    <2>5. ASSUME NEW x \in Resumables \ {r}, x # o, NEW q \in Owners, At(x, q)
          PROVE  At(x, q)'
      <3>1. \A v \in Workers, g \in Fds : epoll'[v][g] = x <=> epoll[v][g] = x
        BY <2>0, <2>1, <2>5
      <3> QED BY <1>3, <1>4, <2>1, <2>5, <3>1 DEF At
    <2>6. /\ Legal(r, <<"task", w, "run">>, <<"epoll", w, f>>)
          /\ Legal(o, <<"epoll", w, f>>, <<"lost", None, None>>)
      BY LegalMoves, Stages
    <2>7. ASSUME NEW x \in Resumables
          PROVE  \E q, p \in Owners : At(x, q) /\ At(x, p)' /\ Legal(x, q, p)
      <3>1. CASE x = r
        BY <1>2, <2>3, <2>6, <3>1, OwnerKinds DEF Kinds
      <3>2. CASE x # r /\ x # o
        BY <1>0, <2>5, <3>2, LegalMoves DEF Located
      <3>3. CASE x = o
        BY <2>4, <2>6, <3>3, OwnerKinds
      <3> QED BY <3>1, <3>2, <3>3
    <2>8. HomeOf(r)'
      <3>1. HomeAt(r, <<"epoll", w, f>>)'
        BY <1>0, <1>2, <1>7 DEF HomeAt, AtHome, HomeOf
      <3> QED BY <1>9, <2>3, <3>1, HomeMoved, OwnerKinds
    <2>9. o \in Resumables => HomeOf(o)'
      <3> SUFFICES ASSUME o \in Resumables PROVE HomeOf(o)'
        OBVIOUS
      <3>1. HomeAt(o, <<"lost", None, None>>)'
        BY DEF HomeAt
      <3>2. \A v \in Workers : current'[v] = <<"run", o>> => attached'[o] = v
        BY <1>0, <1>7, <1>8 DEF Fixed, AtHome, HomeOf
      <3> QED BY <2>4, <3>1, <3>2, HomeMoved, OwnerKinds
    <2>10. \A x \in Resumables \ {r} : x # o => HomeOf(x)'
      BY <1>0, <1>8, <2>5, HomeKept DEF Located, AtHome
    <2> QED BY <1>0, <1>3, <2>7, <2>8, <2>9, <2>10 DEF Moved, LinkedOnce, AtHome
  <1> QED BY <1>5, <1>6

LEMMA WaitMoves ==
  ASSUME IInv, NEW w \in Workers, TaskWait(w)
  PROVE  Moved /\ LinkedOnce' /\ AtHome'
  <1>0. LoopTypes /\ Located /\ LinkedOnce
    BY DEF IInv, Types
  <1>1. PICK r \in Resumables : r = Self(w)
    BY TaskOwner DEF TaskWait
  <1>2. /\ pc[w] = "task" /\ current[w] = <<"run", r>>
        /\ At(r, <<"task", w, "run">>)
    BY <1>1, TaskOwner DEF TaskWait
  <1>3. /\ UNCHANGED <<fresh, call, external, ready, sleepq, epoll, done, lost, current>>
        /\ waiting' = waiting \cup {r}
    BY <1>1 DEF TaskWait, callVars, sleepVars
  <1>4. /\ \A v \in Workers, k \in Kinds : ~(pc[v] = "task" /\ current[v] = <<k, r>>)'
        /\ \A v \in Workers, k \in Kinds, x \in Resumables \ {r} :
             (pc[v] = "task" /\ current[v] = <<k, x>>)'
               <=> (pc[v] = "task" /\ current[v] = <<k, x>>)
    <2>1. \A v \in Workers : pc'[v] = IF v = w THEN "blocking" ELSE pc[v]
      BY <1>0 DEF LoopTypes, TaskWait
    <2>2. \A v \in Workers, k \in Kinds :
            pc[v] = "task" /\ current[v] = <<k, r>> => v = w
      BY <1>2 DEF At
    <2> QED BY <1>2, <1>3, <2>1, <2>2
  <1>5. At(r, <<"waiting", None, None>>)'
    BY <1>2, <1>3, <1>4 DEF At, Kinds
  <1>6. ASSUME NEW x \in Resumables \ {r}, NEW q \in Owners, At(x, q)
        PROVE  At(x, q)'
    BY <1>3, <1>4, <1>6 DEF At
  <1>7. Legal(r, <<"task", w, "run">>, <<"waiting", None, None>>)
    BY LegalMoves, Stages
  <1>8. ASSUME NEW x \in Resumables
        PROVE  \E q, p \in Owners : At(x, q) /\ At(x, p)' /\ Legal(x, q, p)
    <2>1. CASE x = r
      BY <1>2, <1>5, <1>7, <2>1, OwnerKinds DEF Kinds
    <2>2. CASE x # r
      BY <1>0, <1>6, <2>2, LegalMoves DEF Located
    <2> QED BY <2>1, <2>2
  <1>9. AtHome'
    <2>1. ASSUME NEW x \in Resumables \ {r} PROVE HomeOf(x)'
      <3>1. Fixed(x)
        BY <1>3 DEF TaskWait, Fixed, callVars
      <3> QED BY <1>6, <3>1, HomeKept DEF IInv, Located, AtHome
    <2>2. HomeOf(r)'
      <3>1. attached[r] = w /\ attached' = attached
        BY <1>2 DEF TaskWait, callVars, IInv, AtHome, HomeOf
      <3>2. HomeAt(r, <<"waiting", None, None>>)'
        BY <3>1 DEF HomeAt
      <3>3. \A v \in Workers : current'[v] = <<"run", r>> => attached'[r] = v
        BY <1>3, <3>1 DEF IInv, AtHome, HomeOf
      <3> QED BY <1>5, <3>2, <3>3, HomeMoved, OwnerKinds
    <2> QED BY <2>1, <2>2 DEF AtHome
  <1> QED BY <1>0, <1>3, <1>8, <1>9 DEF Moved, LinkedOnce

\* unblock: to the ready queue of the worker that runs the caller, or into a
\* call of it.
LEMMA UnblockMoves ==
  ASSUME IInv, NEW w \in Workers, NEW r \in Resumables, TaskUnblock(w, r)
  PROVE  Moved /\ LinkedOnce' /\ AtHome'
  <1>0. /\ LoopTypes /\ QueueTypes /\ Located /\ LinkedOnce /\ AtHome
        /\ call \in [Threads -> Calls]
        /\ w \in Threads
    BY DEF IInv, Types, CallTypes, Threads
  <1>1. r \in waiting /\ attached[r] \in Workers /\ pc[w] = "task"
    BY DEF TaskUnblock, IInv, AtHome, HomeOf, Running
  <1>2. At(r, <<"waiting", None, None>>)
    BY <1>0, <1>1, Holder
  <1>3. /\ waiting' = waiting \ {r}
        /\ UNCHANGED <<fresh, external, pc, current, sleepq, epoll, done, lost>>
    BY DEF TaskUnblock, sleepVars
  <1>7. UNCHANGED attached
    BY DEF TaskUnblock
  <1>8. \A v \in Workers : current'[v] = <<"run", r>> => attached'[r] = v
    BY <1>0, <1>3, <1>7 DEF AtHome, HomeOf
  <1>4. call[w].item = None
    BY TaskOwner DEF TaskUnblock
  <1>5. CASE w = attached[r]
    <2>1. ready' = [ready EXCEPT ![w] = Append(@, <<"run", r>>)] /\ UNCHANGED call
      BY <1>5 DEF TaskUnblock, IsLocal, Home
    <2>2. <<"run", r>> \in Items /\ ~Contains(ready[w], <<"run", r>>)
      BY <1>2 DEF Items, At, Kinds
    <2>3. /\ \A v \in Workers : \A x :
                Contains(ready'[v], x) <=> Contains(ready[v], x) \/ (v = w /\ x = <<"run", r>>)
          /\ \A v \in Workers : IsInjective(ready[v]) => IsInjective(ready'[v])
      BY <1>0, <2>1, <2>2, ReadyAppend
    <2>4. At(r, <<"ready", w, "run">>)'
      BY <1>2, <1>3, <2>1, <2>3 DEF At, Kinds
    <2>5. ASSUME NEW x \in Resumables \ {r}, NEW q \in Owners, At(x, q)
          PROVE  At(x, q)'
      <3>1. \A v \in Workers, k \in Kinds :
              Contains(ready'[v], <<k, x>>) <=> Contains(ready[v], <<k, x>>)
        BY <2>3
      <3> QED BY <1>3, <2>1, <2>5, <3>1 DEF At
    <2>6. Legal(r, <<"waiting", None, None>>, <<"ready", w, "run">>)
      <3>1. <<OwnerStage(<<"waiting", None, None>>), OwnerStage(<<"ready", w, "run">>)>>
               \in LC!Moves
        BY Stages DEF LC!Moves
      <3> QED BY <1>1, <1>5, <3>1 DEF Legal
    <2>7. ASSUME NEW x \in Resumables
          PROVE  \E q, p \in Owners : At(x, q) /\ At(x, p)' /\ Legal(x, q, p)
      <3>1. CASE x = r
        BY <1>2, <2>4, <2>6, <3>1, OwnerKinds DEF Kinds
      <3>2. CASE x # r
        BY <1>0, <2>5, <3>2, LegalMoves DEF Located
      <3> QED BY <3>1, <3>2
    <2>8. HomeOf(r)'
      <3>1. HomeAt(r, <<"ready", w, "run">>)'
        BY <1>5, <1>7 DEF HomeAt
      <3> QED BY <1>8, <2>4, <3>1, HomeMoved, OwnerKinds DEF Kinds
    <2>9. ASSUME NEW x \in Resumables \ {r} PROVE HomeOf(x)'
      <3>1. Fixed(x)
        BY <1>3, <1>7, <2>1 DEF Fixed
      <3> QED BY <1>0, <2>5, <3>1, HomeKept DEF Located, AtHome
    <2> QED BY <1>0, <1>3, <2>3, <2>7, <2>8, <2>9 DEF Moved, LinkedOnce, AtHome
  <1>6. CASE w # attached[r]
    <2>1. /\ \A a \in Threads : call'[a].item = IF a = w THEN <<"run", r>> ELSE call[a].item
          /\ UNCHANGED ready
      BY <1>0, <1>6 DEF TaskUnblock, IsLocal, Home
    <2>2. \A k \in Kinds, x \in Resumables : <<k, x>> # None
      BY IsolationAssumption DEF Items, Kinds
    <2>3. At(r, <<"call", w, "run">>)'
      <3>1. \A a \in Threads, k \in Kinds :
              call'[a].item = <<k, r>> <=> a = w /\ k = "run"
        BY <1>2, <2>1 DEF At
      <3> QED BY <1>0, <1>2, <1>3, <2>1, <3>1 DEF At, Kinds
    <2>4. ASSUME NEW x \in Resumables \ {r}, NEW q \in Owners, At(x, q)
          PROVE  At(x, q)'
      <3>1. \A a \in Threads, k \in Kinds :
              call'[a].item = <<k, x>> <=> call[a].item = <<k, x>>
        BY <1>4, <2>1, <2>2
      <3> QED BY <1>3, <2>1, <2>4, <3>1 DEF At
    <2>5. Legal(r, <<"waiting", None, None>>, <<"call", w, "run">>)
      <3>1. <<"call", w, "run">> \in Released
        BY <1>0 DEF Released
      <3> QED BY <3>1, Stages DEF Legal
    <2>6. ASSUME NEW x \in Resumables
          PROVE  \E q, p \in Owners : At(x, q) /\ At(x, p)' /\ Legal(x, q, p)
      <3>1. CASE x = r
        BY <1>0, <1>2, <2>3, <2>5, <3>1, OwnerKinds DEF Kinds
      <3>2. CASE x # r
        BY <1>0, <2>4, <3>2, LegalMoves DEF Located
      <3> QED BY <3>1, <3>2
    <2>7. HomeOf(r)'
      <3>1. call'[w].target = attached[r]
        BY <1>0, <1>6 DEF TaskUnblock, IsLocal, Home
      <3>2. HomeAt(r, <<"call", w, "run">>)'
        BY <1>7, <3>1 DEF HomeAt
      <3> QED BY <1>0, <1>8, <2>3, <3>2, HomeMoved, OwnerKinds DEF Kinds
    <2>8. ASSUME NEW x \in Resumables \ {r} PROVE HomeOf(x)'
      <3>1. \A a \in Threads : a # w => call'[a] = call[a]
        BY <1>0, <1>6 DEF TaskUnblock, IsLocal, Home
      <3>2. Fixed(x)
        BY <1>3, <1>4, <1>7, <2>2, <3>1 DEF Fixed, Kinds
      <3> QED BY <1>0, <2>4, <3>2, HomeKept DEF Located, AtHome
    <2> QED BY <1>0, <1>3, <2>1, <2>6, <2>7, <2>8 DEF Moved, LinkedOnce, AtHome
  <1> QED BY <1>5, <1>6

LEMMA PopMoves ==
  ASSUME IInv, NEW w \in Workers, Pop(w)
  PROVE  Moved /\ LinkedOnce' /\ AtHome'
  <1>0. LoopTypes /\ QueueTypes /\ Located /\ LinkedOnce /\ PointsOK /\ AtHome
    BY DEF IInv, Types
  <1>1. /\ pc[w] = "pop"
        /\ UNCHANGED <<fresh, call, attached, external, sleepq, epoll, waiting, done, lost>>
    BY DEF Pop, callVars, sleepVars, endVars
  <1>2. CASE ready[w] = << >>
    <2>1. UNCHANGED <<current, ready>> /\ pc' = [pc EXCEPT ![w] = "drain"]
      BY <1>2 DEF Pop
    <2>2. \A v \in Workers : pc'[v] = "task" <=> pc[v] = "task"
      BY <1>0, <1>1, <2>1 DEF LoopTypes
    <2>3. \A x \in Resumables : Fixed(x)
      BY <1>1, <2>1 DEF Fixed
    <2> QED BY <1>0, <1>1, <2>1, <2>2, <2>3, NothingMoves
  <1>3. CASE ready[w] # << >>
    <2>1. /\ ready[w] \in Seq(Items) /\ IsInjective(ready[w])
          /\ ready'[w] = Tail(ready[w])
          /\ \A v \in Workers \ {w} : ready'[v] = ready[v]
          /\ \A v \in Workers : /\ pc'[v] = IF v = w THEN "task" ELSE pc[v]
                                /\ current'[v] = IF v = w THEN Head(ready[w])
                                                 ELSE current[v]
      BY <1>0, <1>3 DEF Pop, QueueTypes, LoopTypes, LinkedOnce
    <2>2. PICK e \in Items : e = Head(ready[w])
      BY <1>3, <2>1, ContainsTail
    <2>3. /\ Contains(ready[w], e)
          /\ \A x : Contains(ready'[w], x) <=> (Contains(ready[w], x) /\ x # e)
          /\ IsInjective(ready'[w])
      BY <1>3, <2>1, <2>2, ContainsTail
    <2>4. PICK k \in Kinds, r \in Resumables : e = <<k, r>>
      BY ItemCases
    <2>5. At(r, <<"ready", w, k>>)
      BY <1>0, <2>3, <2>4, Holder
    <2>6. At(r, <<"task", w, k>>)'
      <3>1. \A v \in Workers, j \in Kinds : ~Contains(ready'[v], <<j, r>>)
        BY <2>1, <2>3, <2>4, <2>5 DEF At
      <3>2. \A v \in Workers, j \in Kinds :
              (pc'[v] = "task" /\ current'[v] = <<j, r>>) <=> v = w /\ j = k
        BY <2>1, <2>2, <2>4, <2>5 DEF At
      <3> QED BY <1>1, <2>5, <3>1, <3>2 DEF At
    <2>7. ASSUME NEW x \in Resumables \ {r}, NEW q \in Owners, At(x, q)
          PROVE  At(x, q)'
      <3>1. \A v \in Workers, j \in Kinds :
              Contains(ready'[v], <<j, x>>) <=> Contains(ready[v], <<j, x>>)
        BY <2>1, <2>3, <2>4
      <3>2. \A v \in Workers, j \in Kinds :
              (pc[v] = "task" /\ current[v] = <<j, x>>)'
                <=> (pc[v] = "task" /\ current[v] = <<j, x>>)
        BY <1>1, <2>1, <2>2, <2>4
      <3> QED BY <1>1, <2>7, <3>1, <3>2 DEF At
    <2>8. Legal(r, <<"ready", w, k>>, <<"task", w, k>>)
      BY LegalMoves
    <2>9. ASSUME NEW x \in Resumables
          PROVE  \E q, p \in Owners : At(x, q) /\ At(x, p)' /\ Legal(x, q, p)
      <3>1. CASE x = r
        BY <2>5, <2>6, <2>8, <3>1, OwnerKinds
      <3>2. CASE x # r
        BY <1>0, <2>7, <3>2, LegalMoves DEF Located
      <3> QED BY <3>1, <3>2
    <2>10. LinkedOnce'
      BY <1>0, <1>1, <2>1, <2>3 DEF LinkedOnce
    <2>11. HomeOf(r)'
      <3>1. k = "run" => attached[r] = w
        BY <1>0, <2>3, <2>4 DEF AtHome, HomeOf
      <3>2. HomeAt(r, <<"task", w, k>>)'
        BY <1>1, <3>1 DEF HomeAt
      <3>3. \A v \in Workers : current'[v] = <<"run", r>> => attached'[r] = v
        <4>1. ASSUME current'[w] = <<"run", r>> PROVE k = "run"
          BY <2>1, <2>2, <2>4, <4>1
        <4>2. \A v \in Workers \ {w} : current'[v] = current[v]
          BY <2>1
        <4>3. \A v \in Workers : current[v] = <<"run", r>> => attached[r] = v
          BY <1>0 DEF AtHome, HomeOf
        <4>4. attached' = attached
          BY <1>1
        <4> QED BY <3>1, <4>1, <4>2, <4>3, <4>4
      <3> QED BY <2>6, <3>2, <3>3, HomeMoved, OwnerKinds
    <2>12. ASSUME NEW x \in Resumables \ {r} PROVE HomeOf(x)'
      <3>1. Fixed(x)
        BY <1>1, <2>1, <2>2, <2>4 DEF Fixed
      <3> QED BY <1>0, <2>7, <3>1, HomeKept DEF Located, AtHome
    <2> QED BY <2>9, <2>10, <2>11, <2>12 DEF Moved, AtHome
  <1> QED BY <1>2, <1>3

\* Resumables that are handed to a ready queue as items.
LEMMA RunItemsContains ==
  ASSUME NEW s \in Seq(Resumables), IsInjective(s)
  PROVE  /\ RunItems(s) \in Seq(Items)
         /\ IsInjective(RunItems(s))
         /\ \A e : Contains(RunItems(s), e) <=>
                     \E x \in Resumables : e = <<"run", x>> /\ Contains(s, x)
  <1>1. DOMAIN s = 1 .. Len(s) /\ Len(s) \in Nat /\ \A i \in 1 .. Len(s) : s[i] \in Resumables
    BY LenProperties, ElementOfSeq
  <1>2. RunItems(s) \in [1 .. Len(s) -> Items]
    BY <1>1 DEF RunItems, Items
  <1>3. RunItems(s) \in Seq(Items) /\ Len(RunItems(s)) = Len(s)
    BY <1>1, <1>2
  <1>4. IsInjective(RunItems(s))
    BY <1>1 DEF RunItems, IsInjective
  <1>5. ASSUME NEW e
        PROVE  Contains(RunItems(s), e) <=>
                 \E x \in Resumables : e = <<"run", x>> /\ Contains(s, x)
    BY <1>1, <1>3 DEF Contains, RunItems
  <1> QED BY <1>3, <1>4, <1>5

\* pop moves the external queue and the sleepers that are due.
LEMMA DrainMoves ==
  ASSUME IInv, NEW w \in Workers, Drain(w)
  PROVE  Moved /\ LinkedOnce' /\ AtHome'
  <1>0. LoopTypes /\ QueueTypes /\ Located /\ LinkedOnce /\ AtHome
    BY DEF IInv, Types
  <1>1. PICK D \in SUBSET Resumables : D = Due(w) /\ D \subseteq sleepq[w]
    <2>1. Due(w) \subseteq sleepq[w]
      BY DEF Due
    <2> QED BY <1>0, <2>1 DEF QueueTypes
  <1>2. PICK s \in SetToSeqs(D) :
          ready' = [ready EXCEPT ![w] = @ \o external[w] \o RunItems(s)]
    BY <1>1 DEF Drain
  <1>3. /\ s \in Seq(Resumables) /\ IsInjective(s)
        /\ \A x : Contains(s, x) <=> x \in D
    <2>1. IsFiniteSet(D)
      BY IsolationAssumption, FS_Subset
    <2>2. /\ s \in Seq(D) /\ IsInjective(s)
          /\ \A x : Contains(s, x) <=> x \in D
      BY <2>1, SetToSeqsContains
    <2> QED BY <2>2
  <1>4. PICK a \in Seq(Items) : a = RunItems(s) /\ IsInjective(a)
          /\ \A e : Contains(a, e) <=> \E x \in D : e = <<"run", x>>
    BY <1>3, RunItemsContains
  <1>5. /\ \A v \in Workers : /\ pc'[v] = IF v = w THEN "poll" ELSE pc[v]
                              /\ external'[v] = IF v = w THEN << >> ELSE external[v]
                              /\ sleepq'[v] = IF v = w THEN sleepq[v] \ D ELSE sleepq[v]
                              /\ ready'[v] = IF v = w THEN (ready[w] \o external[w]) \o a
                                             ELSE ready[v]
        /\ pc[w] = "drain"
        /\ UNCHANGED <<fresh, call, current, epoll, waiting, done, lost>>
    BY <1>0, <1>1, <1>2, <1>4 DEF Drain, LoopTypes, QueueTypes, callVars, endVars
  <1>6. ASSUME NEW x \in D PROVE At(x, <<"sleep", w, None>>)
    BY <1>0, <1>1, Holder
  <1>7. /\ ready[w] \in Seq(Items) /\ external[w] \in Seq(Items)
        /\ IsInjective(ready[w]) /\ IsInjective(external[w])
    BY <1>0 DEF QueueTypes, LinkedOnce
  <1>8. \A e : ~(Contains(ready[w], e) /\ Contains(external[w], e))
    <2> SUFFICES ASSUME NEW e, Contains(ready[w], e), Contains(external[w], e)
                 PROVE  FALSE
      OBVIOUS
    <2>1. e \in Items
      BY <1>7, LenProperties, ElementOfSeq DEF Contains
    <2>2. PICK k \in Kinds, r \in Resumables : e = <<k, r>>
      BY <2>1, ItemCases
    <2>3. At(r, <<"ready", w, k>>)
      BY <1>0, <2>2, Holder
    <2> QED BY <2>2, <2>3 DEF At
  <1>9. PICK b \in Seq(Items) : /\ b = ready[w] \o external[w]
                                /\ IsInjective(b)
                                /\ \A e : Contains(b, e) <=> Contains(ready[w], e)
                                                            \/ Contains(external[w], e)
    BY <1>7, <1>8, ContainsConcat
  <1>10. \A e : ~(Contains(b, e) /\ Contains(a, e))
    <2> SUFFICES ASSUME NEW e, Contains(b, e), Contains(a, e)
                 PROVE  FALSE
      OBVIOUS
    <2>1. PICK x \in D : e = <<"run", x>>
      BY <1>4
    <2>2. At(x, <<"sleep", w, None>>)
      BY <1>6
    <2> QED BY <1>9, <2>1, <2>2 DEF At, Kinds
  <1>11. /\ IsInjective(ready'[w])
         /\ \A e : Contains(ready'[w], e) <=>
              \/ Contains(ready[w], e)
              \/ Contains(external[w], e)
              \/ \E x \in D : e = <<"run", x>>
    <2>1. ready'[w] = b \o a
      BY <1>5, <1>9
    <2>2. /\ IsInjective(b \o a)
          /\ \A e : Contains(b \o a, e) <=> Contains(b, e) \/ Contains(a, e)
      <3>1. IsInjective(a) /\ IsInjective(b)
        BY <1>4, <1>9
      <3> QED BY ONLY <1>10, <3>1, a \in Seq(Items), b \in Seq(Items), ContainsConcat
    <2> QED BY <1>4, <1>9, <2>1, <2>2
  <1>12. /\ \A e : ~Contains(external'[w], e)
         /\ IsInjective(external'[w])
    <2>1. external'[w] = << >>
      BY <1>5
    <2>2. (\A e : ~Contains(<< >>, e)) /\ IsInjective(<< >>)
      BY DEF Contains, IsInjective
    <2> QED BY <2>1, <2>2
  <1>13. \A v \in Workers, k \in Kinds, x \in Resumables :
           (pc[v] = "task" /\ current[v] = <<k, x>>)'
             <=> (pc[v] = "task" /\ current[v] = <<k, x>>)
    BY <1>5
  <1>14. ASSUME NEW x \in D PROVE At(x, <<"ready", w, "run">>)'
    <2>1. At(x, <<"sleep", w, None>>)
      BY <1>6
    <2>2. \A v \in Workers, k \in Kinds :
            Contains(ready'[v], <<k, x>>) <=> v = w /\ k = "run"
      BY <1>5, <1>11, <2>1 DEF At
    <2>3. \A v \in Workers, k \in Kinds : ~Contains(external'[v], <<k, x>>)
      BY <1>5, <1>12, <2>1 DEF At
    <2>4. \A v \in Workers : x \notin sleepq'[v]
      BY <1>5, <2>1 DEF At
    <2> QED BY <1>5, <1>13, <2>1, <2>2, <2>3, <2>4, ZenonT(60) DEF At, Kinds
  <1>15. ASSUME NEW x \in Resumables, NEW k \in Kinds, At(x, <<"external", w, k>>)
         PROVE  At(x, <<"ready", w, k>>)'
    <2>0. x \notin D
      BY <1>1, <1>15 DEF At
    <2>1. \A v \in Workers, j \in Kinds :
            Contains(ready'[v], <<j, x>>) <=> v = w /\ j = k
      BY <1>5, <1>11, <1>15, <2>0, ZenonT(60) DEF At
    <2>2. \A v \in Workers, j \in Kinds : ~Contains(external'[v], <<j, x>>)
      BY <1>5, <1>12, <1>15 DEF At
    <2>3. \A v \in Workers : x \notin sleepq'[v]
      BY <1>5, <1>15, ZenonT(60) DEF At
    <2> QED BY <1>5, <1>13, <1>15, <2>1, <2>2, <2>3 DEF At
  <1>16. ASSUME NEW x \in Resumables, x \notin D, NEW q \in Owners, At(x, q),
                \A k \in Kinds : q # <<"external", w, k>>
         PROVE  At(x, q)'
    <2>0. \A k \in Kinds : ~Contains(external[w], <<k, x>>)
      BY <1>16 DEF At
    <2>1. \A v \in Workers, k \in Kinds :
            /\ Contains(ready'[v], <<k, x>>) <=> Contains(ready[v], <<k, x>>)
            /\ Contains(external'[v], <<k, x>>) <=> Contains(external[v], <<k, x>>)
            /\ x \in sleepq'[v] <=> x \in sleepq[v]
      BY <1>5, <1>11, <1>12, <1>16, <2>0
    <2> QED BY <1>5, <1>13, <1>16, <2>1, ZenonT(60) DEF At
  <1>17. ASSUME NEW x \in Resumables, NEW k \in Kinds, At(x, <<"external", w, k>>)
         PROVE  Legal(x, <<"external", w, k>>, <<"ready", w, k>>)
    <2>1. CASE k = "make"
      BY <2>1, Stages DEF Legal, Released
    <2>2. CASE k = "run"
      <3>1. attached[x] = w
        BY <1>0, <1>17, <2>2 DEF At, AtHome, HomeOf, Kinds
      <3> QED BY <1>5, <2>2, <3>1, Stages DEF Legal
    <2> QED BY <2>1, <2>2 DEF Kinds
  <1>18. ASSUME NEW x \in Resumables
         PROVE  \E q, p \in Owners : At(x, q) /\ At(x, p)' /\ Legal(x, q, p)
    <2>1. CASE x \in D
      <3>1. Legal(x, <<"sleep", w, None>>, <<"ready", w, "run">>)
        BY LegalMoves, Stages
      <3> QED BY <1>6, <1>14, <2>1, <3>1, OwnerKinds DEF Kinds
    <2>2. CASE x \notin D
      <3>1. PICK q \in Owners : At(x, q)
        BY <1>0 DEF Located
      <3>2. CASE \E k \in Kinds : q = <<"external", w, k>>
        BY <1>15, <1>17, <3>1, <3>2, OwnerKinds
      <3>3. CASE \A k \in Kinds : q # <<"external", w, k>>
        BY <1>16, <2>2, <3>1, <3>3, LegalMoves
      <3> QED BY <3>2, <3>3
    <2> QED BY <2>1, <2>2
  <1>19. LinkedOnce'
    BY <1>0, <1>5, <1>11, <1>12 DEF LinkedOnce
  <1>20. \A x \in Resumables : Fixed(x)
    BY <1>5 DEF Fixed, Drain, callVars
  <1>21. ASSUME NEW x \in Resumables PROVE HomeOf(x)'
    <2>0. HomeOf(x) /\ UNCHANGED attached
      BY <1>0 DEF AtHome, Drain, callVars
    <2>1. \A v \in Workers : current'[v] = <<"run", x>> => attached'[x] = v
      BY <1>5, <2>0 DEF HomeOf
    <2>2. CASE x \in D
      <3>1. HomeAt(x, <<"ready", w, "run">>)'
        BY <1>1, <2>0, <2>2 DEF HomeAt, HomeOf
      <3> QED BY <1>14, <2>1, <2>2, <3>1, HomeMoved, OwnerKinds DEF Kinds
    <2>3. CASE x \notin D
      <3>1. PICK q \in Owners : At(x, q)
        BY <1>0 DEF Located
      <3>2. ASSUME NEW k \in Kinds, q = <<"external", w, k>>
            PROVE  HomeOf(x)'
        <4>1. Contains(external[w], <<k, x>>)
          BY <3>1, <3>2 DEF At
        <4>2. HomeAt(x, <<"ready", w, k>>)'
          BY <2>0, <4>1 DEF HomeAt, HomeOf
        <4> QED BY <1>15, <2>1, <3>1, <3>2, <4>2, HomeMoved, OwnerKinds
      <3>3. CASE \A k \in Kinds : q # <<"external", w, k>>
        BY <1>16, <1>20, <2>0, <2>3, <3>1, <3>3, HomeKept
      <3> QED BY <3>2, <3>3
    <2> QED BY <2>2, <2>3
  <1> QED BY <1>18, <1>19, <1>21 DEF Moved, AtHome

\* epoll::poll_for moves the resumables whose event fired.
LEMMA PollMoves ==
  ASSUME IInv, NEW w \in Workers, Poll(w)
  PROVE  Moved /\ LinkedOnce' /\ AtHome'
  <1>0. LoopTypes /\ QueueTypes /\ Located /\ LinkedOnce /\ AtHome
    BY DEF IInv, Types
  <1>1. PICK fired \in SUBSET {f \in Fds : epoll[w][f] # None} :
          /\ epoll' = [epoll EXCEPT ![w] = Disarmed(@, fired)]
          /\ \E events \in SetToSeqs({epoll[w][f] : f \in fired}) :
               ready' = [ready EXCEPT ![w] = @ \o RunItems(events)]
    BY DEF Poll
  <1>2. PICK E \in SUBSET Resumables : E = {epoll[w][f] : f \in fired}
    BY <1>0 DEF QueueTypes
  <1>3. PICK s \in SetToSeqs(E) : ready' = [ready EXCEPT ![w] = @ \o RunItems(s)]
    BY <1>1, <1>2
  <1>4. /\ s \in Seq(Resumables) /\ IsInjective(s)
        /\ \A x : Contains(s, x) <=> x \in E
    <2>1. IsFiniteSet(E)
      BY IsolationAssumption, FS_Subset
    <2>2. /\ s \in Seq(E) /\ IsInjective(s)
          /\ \A x : Contains(s, x) <=> x \in E
      BY <2>1, SetToSeqsContains
    <2> QED BY <2>2
  <1>5. PICK a \in Seq(Items) : a = RunItems(s) /\ IsInjective(a)
          /\ \A e : Contains(a, e) <=> \E x \in E : e = <<"run", x>>
    BY <1>4, RunItemsContains
  <1>6. /\ \A v \in Workers : /\ pc'[v] = IF v = w THEN "pop" ELSE pc[v]
                              /\ ready'[v] = IF v = w THEN ready[w] \o a ELSE ready[v]
        /\ \A v \in Workers, f \in Fds :
             epoll'[v][f] = IF v = w /\ f \in fired THEN None ELSE epoll[v][f]
        /\ pc[w] = "poll"
        /\ UNCHANGED <<fresh, call, external, current, sleepq, waiting, done, lost>>
    BY <1>0, <1>1, <1>3, <1>5
       DEF Poll, LoopTypes, QueueTypes, Disarmed, callVars, sleepVars, endVars
  <1>7. ASSUME NEW x \in E
        PROVE  \E f \in fired : At(x, <<"epoll", w, f>>)
    BY <1>0, <1>2, Holder
  <1>8. /\ ready[w] \in Seq(Items) /\ IsInjective(ready[w])
    BY <1>0 DEF QueueTypes, LinkedOnce
  <1>9. \A e : ~(Contains(ready[w], e) /\ Contains(a, e))
    <2> SUFFICES ASSUME NEW e, Contains(ready[w], e), Contains(a, e)
                 PROVE  FALSE
      OBVIOUS
    <2>1. PICK x \in E : e = <<"run", x>>
      BY <1>5
    <2>2. PICK f \in fired : At(x, <<"epoll", w, f>>)
      BY <1>7
    <2> QED BY <2>1, <2>2 DEF At, Kinds
  <1>10. /\ IsInjective(ready'[w])
         /\ \A e : Contains(ready'[w], e) <=>
              Contains(ready[w], e) \/ \E x \in E : e = <<"run", x>>
    <2>1. ready'[w] = ready[w] \o a
      BY <1>6
    <2>2. /\ IsInjective(ready[w] \o a)
          /\ \A e : Contains(ready[w] \o a, e) <=> Contains(ready[w], e) \/ Contains(a, e)
      <3>1. IsInjective(a) /\ a \in Seq(Items)
        BY <1>5
      <3>2. PICK b \in Seq(Items) : b = ready[w]
        BY <1>8
      <3>3. /\ IsInjective(b)
            /\ \A e : ~(Contains(b, e) /\ Contains(a, e))
        BY <1>8, <1>9, <3>2
      <3>4. /\ IsInjective(b \o a)
            /\ \A e : Contains(b \o a, e) <=> Contains(b, e) \/ Contains(a, e)
        BY ONLY <3>1, <3>3, b \in Seq(Items), ContainsConcat
      <3> QED BY <3>2, <3>4
    <2> QED BY <1>5, <2>1, <2>2
  <1>11. \A v \in Workers, k \in Kinds, x \in Resumables :
           (pc[v] = "task" /\ current[v] = <<k, x>>)'
             <=> (pc[v] = "task" /\ current[v] = <<k, x>>)
    BY <1>6
  <1>12. ASSUME NEW x \in E PROVE At(x, <<"ready", w, "run">>)'
    <2>1. PICK f \in fired : At(x, <<"epoll", w, f>>)
      BY <1>7
    <2>2. \A v \in Workers, k \in Kinds :
            Contains(ready'[v], <<k, x>>) <=> v = w /\ k = "run"
      BY <1>6, <1>10, <2>1 DEF At
    <2>3. \A v \in Workers, g \in Fds : epoll'[v][g] # x
      BY <1>6, <2>1, IsolationAssumption DEF At
    <2>4. \A v \in Workers, k \in Kinds : ~(pc[v] = "task" /\ current[v] = <<k, x>>)'
      BY <1>11, <2>1 DEF At
    <2>5. UNCHANGED <<fresh, call, external, sleepq, waiting, done, lost>>
      BY <1>6
    <2> QED BY <2>1, <2>2, <2>3, <2>4, <2>5 DEF At, Kinds
  <1>13. ASSUME NEW x \in Resumables, x \notin E, NEW q \in Owners, At(x, q)
         PROVE  At(x, q)'
    <2>1. \A v \in Workers, k \in Kinds :
            Contains(ready'[v], <<k, x>>) <=> Contains(ready[v], <<k, x>>)
      BY <1>6, <1>10, <1>13
    <2>2. \A v \in Workers, f \in Fds : epoll'[v][f] = x <=> epoll[v][f] = x
      BY <1>2, <1>6, <1>13, IsolationAssumption
    <2> QED BY <1>6, <1>11, <1>13, <2>1, <2>2 DEF At
  <1>14. ASSUME NEW x \in Resumables
         PROVE  \E q, p \in Owners : At(x, q) /\ At(x, p)' /\ Legal(x, q, p)
    <2>1. CASE x \in E
      <3>1. PICK f \in fired : At(x, <<"epoll", w, f>>)
        BY <1>7, <2>1
      <3>2. Legal(x, <<"epoll", w, f>>, <<"ready", w, "run">>)
        BY LegalMoves, Stages
      <3> QED BY <1>12, <2>1, <3>1, <3>2, OwnerKinds DEF Kinds
    <2>2. CASE x \notin E
      BY <1>0, <1>13, <2>2, LegalMoves DEF Located
    <2> QED BY <2>1, <2>2
  <1>15. LinkedOnce'
    BY <1>0, <1>6, <1>10 DEF LinkedOnce
  <1>16. \A x \in Resumables : Fixed(x)
    BY <1>6 DEF Fixed, Poll, callVars
  <1>17. ASSUME NEW x \in Resumables PROVE HomeOf(x)'
    <2>0. HomeOf(x) /\ UNCHANGED attached
      BY <1>0 DEF AtHome, Poll, callVars
    <2>1. CASE x \in E
      <3>1. attached[x] = w
        BY <1>2, <2>0, <2>1 DEF HomeOf
      <3>2. HomeAt(x, <<"ready", w, "run">>)'
        BY <2>0, <3>1 DEF HomeAt
      <3>3. \A v \in Workers : current'[v] = <<"run", x>> => attached'[x] = v
        BY <1>6, <2>0 DEF HomeOf
      <3> QED BY <1>12, <2>1, <3>2, <3>3, HomeMoved, OwnerKinds DEF Kinds
    <2>2. CASE x \notin E
      BY <1>0, <1>13, <1>16, <2>0, <2>2, HomeKept DEF Located
    <2> QED BY <2>1, <2>2
  <1> QED BY <1>14, <1>15, <1>17 DEF Moved, AtHome

\* Every step passes resumables from owner to owner.
LEMMA NextMoves ==
  ASSUME IInv, [Next]_vars
  PROVE  Moved /\ LinkedOnce' /\ AtHome'
  <1>0. LoopTypes /\ Located /\ LinkedOnce /\ AtHome /\ call \in [Threads -> Calls] /\ PointsOK
    BY DEF IInv, Types, CallTypes
  <1>1. CASE UNCHANGED vars
    BY <1>0, <1>1, NothingMoves DEF vars, callVars, runVars, sleepVars, endVars, Fixed
  <1>2. CASE Aborted
    BY <1>1, <1>2 DEF Aborted
  <1>3. CASE Tick \/ SpawnElsewhere
    BY <1>0, <1>3, NothingMoves
       DEF Tick, SpawnElsewhere, callVars, runVars, sleepVars, endVars, Fixed
  <1>4. ASSUME NEW t \in Threads, Signal(t)
        PROVE  Moved /\ LinkedOnce' /\ AtHome'
    <2>1. \A a \in Threads : call'[a].item = call[a].item
      BY <1>0, <1>4 DEF Signal, Signalled, Calls, PointsOK, NoCall
    <2>2. UNCHANGED <<fresh, attached, external, runVars, sleepVars, epoll, endVars>>
      BY <1>4 DEF Signal
    <2>3. ASSUME NEW x \in Resumables PROVE Fixed(x)
      <3>1. call[t].item # <<"run", x>>
        <4>1. call[t].item = None
          BY <1>0, <1>4 DEF PointsOK, Signal
        <4>2. <<"run", x>> \in Items
          BY DEF Items
        <4> QED BY <4>1, <4>2, IsolationAssumption
      <3>2. \A a \in Threads : a # t => call'[a] = call[a]
        BY <1>0, <1>4 DEF Signal
      <3> QED BY <2>2, <3>1, <3>2 DEF Fixed, runVars
    <2> QED BY <1>0, <2>1, <2>2, <2>3, NothingMoves DEF runVars, sleepVars, endVars
  <1>5. ASSUME NEW w \in Workers, PollInterrupted(w)
        PROVE  Moved /\ LinkedOnce' /\ AtHome'
    <2>1. \A v \in Workers : pc'[v] = "task" <=> pc[v] = "task"
      BY <1>0, <1>5 DEF PollInterrupted, LoopTypes
    <2>2. UNCHANGED <<callVars, external, current, ready, sleepVars, epoll, endVars>>
      BY <1>5 DEF PollInterrupted
    <2> QED BY <1>0, <2>1, <2>2, NothingMoves DEF callVars, sleepVars, endVars, Fixed
  <1>6. ASSUME NEW w \in Workers, TaskBlock(w)
        PROVE  Moved /\ LinkedOnce' /\ AtHome'
    <2>1. \A v \in Workers : /\ pc'[v] = IF v = w THEN "drain" ELSE pc[v]
                             /\ current'[v] = IF v = w THEN None ELSE current[v]
          /\ pc[w] = "blocking"
      BY <1>0, <1>6 DEF TaskBlock, Returns, LoopTypes
    <2>2. UNCHANGED <<callVars, external, ready, sleepVars, epoll, endVars>>
      BY <1>6 DEF TaskBlock
    <2>3. \A v \in Workers, k \in Kinds, x \in Resumables :
            (pc[v] = "task" /\ current[v] = <<k, x>>)'
              <=> (pc[v] = "task" /\ current[v] = <<k, x>>)
      BY <2>1
    <2>4. \A x \in Resumables : Fixed(x)
      BY <1>0, <1>6, <2>2, FixedReturns DEF TaskBlock, callVars
    <2> QED BY <1>0, <2>2, <2>3, <2>4, NothingMoves DEF callVars, sleepVars, endVars
  <1>7. CASE Next
    BY <1>2, <1>3, <1>4, <1>5, <1>6, <1>7, SpawnMoves, PushMoves, DrainMoves,
       PollMoves, PopMoves, MakeMoves, DoneMoves, ResumeLaterMoves, SleepMoves,
       AwaitMoves, WaitMoves, UnblockMoves
       DEF Next, Call, Work, Task
  <1> QED BY <1>1, <1>7

----------------------------------------------------------------------------
(***************************************************************************)
(* Types.                                                                  *)
(***************************************************************************)

\* An item is a pair that names no None.
LEMMA NoneIsNoItem ==
  ASSUME NEW x \in Resumables, NEW k \in Kinds
  PROVE  <<k, x>> \in Items /\ <<k, x>> # None
  BY IsolationAssumption DEF Items, Kinds

\* The record of a call.
LEMMA CallRecord ==
  ASSUME NEW a \in {"idle", "push", "signal"}, NEW i \in Items \cup {None},
         NEW v \in Workers, NEW n \in {0, 1, 2}
  PROVE  \E c \in Calls :
           /\ c = [at |-> a, item |-> i, target |-> v, writes |-> n]
           /\ c.at = a /\ c.item = i /\ c.target = v /\ c.writes = n
  <1>1. n \in 0 .. 2
    OBVIOUS
  <1> DEFINE d == [at |-> a, item |-> i, target |-> v, writes |-> n]
  <1>2. d \in Calls
    BY <1>1 DEF Calls
  <1>3. d.at = a /\ d.item = i /\ d.target = v /\ d.writes = n
    OBVIOUS
  <1> QED BY <1>2, <1>3

LEMMA CallFields ==
  ASSUME NEW c \in Calls
  PROVE  /\ c = [at |-> c.at, item |-> c.item, target |-> c.target, writes |-> c.writes]
         /\ c.at \in {"idle", "push", "signal"} /\ c.item \in Items \cup {None}
         /\ c.target \in Workers /\ c.writes \in {0, 1, 2}
  <1>1. c.writes \in 0 .. 2
    BY DEF Calls
  <1>2. c.writes \in {0, 1, 2}
    BY <1>1
  <1> QED BY <1>2 DEF Calls

\* A thread's call changes, and nothing else that PointsOK mentions.
LEMMA CallPoints ==
  ASSUME call \in [Threads -> Calls], PointsOK, NEW t \in Threads, NEW c \in Calls,
         call' = [call EXCEPT ![t] = c], UNCHANGED <<pc, current>>,
         c.at = "push" <=> c.item # None,
         c.at # "idle" => c.writes \in {1, 2},
         t \in Workers /\ c.at # "idle" => pc[t] = "task" /\ current[t][1] = "run"
  PROVE  call' \in [Threads -> Calls] /\ PointsOK'
  <1>1. call' \in [Threads -> Calls]
    OBVIOUS
  <1>2. \A a \in Threads : call'[a] = IF a = t THEN c ELSE call[a]
    OBVIOUS
  <1>3. ASSUME NEW a \in Threads
        PROVE  /\ call'[a].at = "push" <=> call'[a].item # None
               /\ call'[a].at = "signal" => call'[a].writes \in {1, 2}
               /\ call'[a].at = "push" => call'[a].writes \in {1, 2}
    <2>1. CASE a = t
      BY <1>2, <2>1
    <2>2. CASE a # t
      BY <1>2, <2>2 DEF PointsOK
    <2> QED BY <2>1, <2>2
  <1>4. ASSUME NEW w \in Workers
        PROVE  /\ pc'[w] \in {"task", "blocking"} <=> current'[w] # None
               /\ call'[w].at # "idle" => pc'[w] = "task" /\ current'[w][1] = "run"
    <2>0. w \in Threads
      BY DEF Threads
    <2>1. CASE w = t
      BY <1>2, <2>0, <2>1 DEF PointsOK
    <2>2. CASE w # t
      BY <1>2, <2>0, <2>2 DEF PointsOK
    <2> QED BY <2>1, <2>2
  <1> QED BY <1>1, <1>3, <1>4 DEF PointsOK

\* Spawning and handing over, by any thread.
LEMMA CallStepTypes ==
  ASSUME IInv, NEW t \in Threads, Call(t) \/ \E r \in Resumables : Spawn(t, r)
  PROVE  Types'
  <1>0. CallTypes /\ QueueTypes /\ LoopTypes /\ EndTypes /\ PointsOK
    BY DEF IInv, Types
  <1>1. UNCHANGED <<attached, runVars, sleepVars, epoll, endVars>>
    BY DEF Call, PushExternal, Signal, Spawn
  <1>2. /\ external' \in [Workers -> Seq(Items)]
        /\ wake' \in [Workers -> BOOLEAN]
    <2>1. CASE PushExternal(t)
      <3>1. PICK e \in Items, v \in Workers : e = call[t].item /\ v = call[t].target
        BY <1>0, <2>1 DEF PointsOK, CallTypes, Calls, PushExternal
      <3>2. external[v] \in Seq(Items)
        BY <1>0 DEF QueueTypes
      <3>3. Append(external[v], e) \in Seq(Items)
        BY <3>2, AppendProperties
      <3> QED BY <1>0, <2>1, <3>1, <3>3 DEF PushExternal, QueueTypes, LoopTypes
    <2>2. CASE ~PushExternal(t)
      BY <1>0, <2>2 DEF Call, Signal, Spawn, MaybeWakeup, QueueTypes, LoopTypes
    <2> QED BY <2>1, <2>2
  <1>3. QueueTypes' /\ LoopTypes' /\ EndTypes'
    BY <1>0, <1>1, <1>2 DEF QueueTypes, LoopTypes, EndTypes, runVars, sleepVars, endVars
  <1>4. 0 \in Workers /\ NoCall \in Calls
    BY IsolationAssumption DEF Workers, NoCall, Calls
  <1>5. fresh' \in SUBSET Resumables /\ next_worker' \in Workers
    <2>1. NextWorker(next_worker) \in Workers
      BY <1>0, IsolationAssumption DEF CallTypes, NextWorker, Workers
    <2> QED BY <1>0, <2>1 DEF CallTypes, Call, PushExternal, Signal, Spawn
  <1>6. ASSUME NEW r \in Resumables, Spawn(t, r)
        PROVE  call' \in [Threads -> Calls] /\ PointsOK'
    <2>0. <<"make", r>> \in Items /\ <<"make", r>> # None
      BY NoneIsNoItem DEF Kinds
    <2>1. PICK c \in Calls : /\ c = [at |-> "push", item |-> <<"make", r>>,
                                     target |-> next_worker, writes |-> 2]
                             /\ c.at = "push" /\ c.item = <<"make", r>>
                             /\ c.target = next_worker /\ c.writes = 2
      BY <1>0, <2>0, CallRecord DEF CallTypes
    <2>2. call' = [call EXCEPT ![t] = c]
      BY <1>6, <2>1 DEF Spawn
    <2>3. t \in Workers => pc[t] = "task" /\ current[t][1] = "run"
      BY <1>6 DEF Spawn, Running
    <2> QED BY <1>0, <1>1, <2>0, <2>1, <2>2, <2>3, CallPoints DEF CallTypes, runVars
  <1>7. ASSUME PushExternal(t)
        PROVE  call' \in [Threads -> Calls] /\ PointsOK'
    <2>0. call \in [Threads -> Calls] /\ call[t].at = "push"
      BY <1>0, <1>7 DEF CallTypes, PushExternal
    <2>1. PICK b \in Calls : b = call[t]
      BY <2>0
    <2>2. /\ b = [at |-> b.at, item |-> b.item, target |-> b.target, writes |-> b.writes]
          /\ b.target \in Workers /\ b.writes \in {0, 1, 2}
      BY CallFields
    <2>3. PICK c \in Calls : /\ c = [at |-> "signal", item |-> None,
                                     target |-> b.target, writes |-> b.writes]
                             /\ c.at = "signal" /\ c.item = None
                             /\ c.target = b.target /\ c.writes = b.writes
      BY <2>2, CallRecord
    <2>4. [b EXCEPT !.at = "signal", !.item = None] = c
      BY ONLY <2>2, <2>3
    <2>5. call' = [call EXCEPT ![t] = c]
      <3>1. call' = [call EXCEPT ![t] = [[@ EXCEPT !.at = "signal"] EXCEPT !.item = None]]
        BY <1>7, <2>0 DEF PushExternal
      <3>2. call' = [call EXCEPT ![t] = [[b EXCEPT !.at = "signal"] EXCEPT !.item = None]]
        BY <2>1, <3>1
      <3>3. [[b EXCEPT !.at = "signal"] EXCEPT !.item = None] = c
        BY ONLY <2>2, <2>3
      <3> QED BY <3>2, <3>3
    <2>6. b.writes \in {1, 2}
      BY <1>0, <2>0, <2>1 DEF PointsOK
    <2>7. t \in Workers => pc[t] = "task" /\ current[t][1] = "run"
      BY <1>0, <2>0 DEF PointsOK
    <2> QED BY <1>0, <1>1, <2>0, <2>3, <2>5, <2>6, <2>7, CallPoints DEF runVars
  <1>8. ASSUME Signal(t)
        PROVE  call' \in [Threads -> Calls] /\ PointsOK'
    <2>0. call \in [Threads -> Calls] /\ call[t].at = "signal"
      BY <1>0, <1>8 DEF CallTypes, Signal
    <2>1. t \in Workers => pc[t] = "task" /\ current[t][1] = "run"
      BY <1>0, <2>0 DEF PointsOK
    <2>2. CASE call[t].writes = 1
      <3>1. PICK c \in Calls : c = NoCall /\ c.at = "idle" /\ c.item = None
        BY <1>4 DEF NoCall
      <3>2. call' = [call EXCEPT ![t] = c]
        BY <1>8, <2>2, <3>1 DEF Signal, Signalled
      <3> QED BY <1>0, <1>1, <2>0, <3>1, <3>2, CallPoints DEF runVars
    <2>3. CASE call[t].writes # 1
      <3>1. PICK b \in Calls : b = call[t]
        BY <2>0
      <3>2. /\ b = [at |-> b.at, item |-> b.item, target |-> b.target, writes |-> b.writes]
            /\ b.target \in Workers
        BY CallFields
      <3>3. b.writes = 2 /\ b.at = "signal" /\ b.item = None
        BY <1>0, <2>0, <2>3, <3>1 DEF PointsOK
      <3>4. PICK c \in Calls : /\ c = [at |-> "signal", item |-> None,
                                       target |-> b.target, writes |-> 1]
                               /\ c.at = "signal" /\ c.item = None
                               /\ c.target = b.target /\ c.writes = 1
        <4> DEFINE d == [at |-> "signal", item |-> None, target |-> b.target, writes |-> 1]
        <4>1. d \in Calls
          BY <3>2 DEF Calls
        <4>2. d.at = "signal" /\ d.item = None /\ d.target = b.target /\ d.writes = 1
          OBVIOUS
        <4> QED BY <4>1, <4>2
      <3>5. [b EXCEPT !.writes = @ - 1] = c
        BY ONLY <3>2, <3>3, <3>4
      <3>6. call' = [call EXCEPT ![t] = c]
        <4>1. Signalled(b) = c
          BY <3>3, <3>5 DEF Signalled
        <4> QED BY <1>8, <3>1, <4>1 DEF Signal
      <3> QED BY <1>0, <1>1, <2>0, <2>1, <3>4, <3>6, CallPoints DEF runVars
    <2> QED BY <2>2, <2>3
  <1>9. CallTypes' /\ PointsOK'
    <2>1. attached' \in [Resumables -> Workers \cup {None}]
      BY <1>0, <1>1 DEF CallTypes
    <2> QED BY <1>5, <1>6, <1>7, <1>8, <2>1 DEF CallTypes, Call
  <1> QED BY <1>3, <1>9 DEF Types

\* The worker loop outside tasks.
LEMMA LoopStepTypes ==
  ASSUME IInv, NEW w \in Workers,
         Drain(w) \/ Poll(w) \/ Pop(w) \/ PollInterrupted(w)
  PROVE  Types'
  <1>0. CallTypes /\ QueueTypes /\ LoopTypes /\ EndTypes /\ PointsOK
    BY DEF IInv, Types
  <1>1. UNCHANGED <<callVars, endVars>>
    BY DEF Drain, Poll, Pop, PollInterrupted
  <1>2. PICK to \in {"drain", "poll", "pop", "task"} :
          /\ pc' = [pc EXCEPT ![w] = to]
          /\ pc[w] \in {"drain", "poll", "pop"}
          /\ to # "task" => UNCHANGED current
          /\ to = "task" => Pop(w) /\ ready[w] # << >>
    BY DEF Drain, Poll, Pop, PollInterrupted
  <1>3. current' \in [Workers -> Items \cup {None}] /\ PointsOK'
    <2>1. CASE to # "task"
      BY <1>0, <1>1, <1>2, <2>1 DEF PointsOK, LoopTypes, callVars
    <2>2. CASE to = "task"
      <3>1. PICK e \in Items : e = Head(ready[w])
        BY <1>0, <1>2, <2>2 DEF QueueTypes
      <3>2. current' = [current EXCEPT ![w] = e]
        BY <1>2, <2>2, <3>1 DEF Pop
      <3>3. e # None
        BY ItemCases
      <3>4. call[w].at = "idle"
        BY <1>0, <1>2 DEF PointsOK, CallTypes, Calls
      <3> QED BY <1>0, <1>1, <1>2, <2>2, <3>2, <3>3, <3>4 DEF PointsOK, LoopTypes, callVars
    <2> QED BY <2>1, <2>2
  <1>4. wake' \in [Workers -> BOOLEAN] /\ pc' \in [Workers -> {"drain", "poll", "pop", "task", "blocking"}]
    <2>1. wake' \in [Workers -> BOOLEAN]
      BY <1>0 DEF LoopTypes, Drain, Poll, Pop, PollInterrupted
    <2> QED BY <1>0, <1>2, <2>1 DEF LoopTypes
  <1>5. /\ external' \in [Workers -> Seq(Items)]
        /\ sleepq' \in [Workers -> SUBSET Resumables]
        /\ epoll' \in [Workers -> [Fds -> Resumables \cup {None}]]
    <2>1. external' \in [Workers -> Seq(Items)]
      <3>1. << >> \in Seq(Items)
        OBVIOUS
      <3> QED BY <1>0, <3>1 DEF Drain, Poll, Pop, PollInterrupted, QueueTypes
    <2>2. sleepq' \in [Workers -> SUBSET Resumables]
      BY <1>0, ZenonT(60) DEF Drain, Poll, Pop, PollInterrupted, QueueTypes, sleepVars
    <2>3. epoll' \in [Workers -> [Fds -> Resumables \cup {None}]]
      <3>1. \A fired : Disarmed(epoll[w], fired) \in [Fds -> Resumables \cup {None}]
        BY <1>0 DEF QueueTypes, Disarmed
      <3> QED BY <1>0, <3>1 DEF Drain, Poll, Pop, PollInterrupted, QueueTypes
    <2> QED BY <2>1, <2>2, <2>3
  <1>6. ready' \in [Workers -> Seq(Items)]
    <2>0. ready \in [Workers -> Seq(Items)] /\ external \in [Workers -> Seq(Items)]
      BY <1>0 DEF QueueTypes
    <2>1. ASSUME NEW E \in SUBSET Resumables, NEW s \in SetToSeqs(E)
          PROVE  RunItems(s) \in Seq(Items)
      <3>1. IsFiniteSet(E)
        BY IsolationAssumption, FS_Subset
      <3>2. s \in Seq(E) /\ IsInjective(s)
        BY <3>1, SetToSeqsContains
      <3>3. s \in Seq(Resumables)
        BY <3>2
      <3> QED BY <3>2, <3>3, RunItemsContains
    <2>2. CASE Drain(w)
      <3>1. Due(w) \in SUBSET Resumables
        BY <1>0 DEF Due, QueueTypes
      <3>2. PICK s \in SetToSeqs(Due(w)) :
              ready' = [ready EXCEPT ![w] = @ \o external[w] \o RunItems(s)]
        BY <2>2 DEF Drain
      <3>3. PICK a \in Seq(Items) : a = RunItems(s)
        BY <2>1, <3>1
      <3>4. (ready[w] \o external[w]) \o a \in Seq(Items)
        BY <2>0, ConcatProperties
      <3> QED BY <2>0, <3>2, <3>3, <3>4
    <2>3. CASE Poll(w)
      <3>1. PICK fired \in SUBSET {f \in Fds : epoll[w][f] # None} :
              \E events \in SetToSeqs({epoll[w][f] : f \in fired}) :
                ready' = [ready EXCEPT ![w] = @ \o RunItems(events)]
        BY <2>3 DEF Poll
      <3>2. PICK E \in SUBSET Resumables : E = {epoll[w][f] : f \in fired}
        BY <1>0 DEF QueueTypes
      <3>3. PICK s \in SetToSeqs(E) : ready' = [ready EXCEPT ![w] = @ \o RunItems(s)]
        BY <3>1, <3>2
      <3>4. PICK a \in Seq(Items) : a = RunItems(s)
        BY <2>1
      <3>5. ready[w] \o a \in Seq(Items)
        BY <2>0, ConcatProperties
      <3> QED BY <2>0, <3>3, <3>4, <3>5
    <2>4. CASE Pop(w)
      <3>1. CASE ready[w] = << >>
        BY <2>0, <2>4, <3>1 DEF Pop
      <3>2. CASE ready[w] # << >>
        <4>1. Tail(ready[w]) \in Seq(Items)
          BY <2>0, <3>2
        <4> QED BY <2>0, <2>4, <3>2, <4>1 DEF Pop
      <3> QED BY <3>1, <3>2
    <2>5. CASE PollInterrupted(w)
      BY <2>0, <2>5 DEF PollInterrupted
    <2> QED BY <2>2, <2>3, <2>4, <2>5
  <1>7. CallTypes' /\ EndTypes'
    BY <1>0, <1>1 DEF CallTypes, EndTypes, callVars, endVars
  <1> QED BY <1>3, <1>4, <1>5, <1>6, <1>7 DEF Types, QueueTypes, LoopTypes

\* A task runs.
LEMMA TaskStepTypes ==
  ASSUME IInv, NEW w \in Workers,
         Task(w) \/ \E r \in Resumables : TaskUnblock(w, r)
  PROVE  Types'
  <1>0. CallTypes /\ QueueTypes /\ LoopTypes /\ EndTypes /\ PointsOK
    BY DEF IInv, Types
  <1>1. UNCHANGED <<fresh, next_worker, external, wake>>
    BY DEF Task, Make, TaskDone, TaskResumeLater, TaskSleep, TaskAwaitPort,
           TaskWait, TaskBlock, TaskUnblock, callVars
  <1>2. PICK e \in Items : e = current[w]
    <2>1. pc[w] \in {"task", "blocking"}
      BY DEF Task, Make, TaskDone, TaskResumeLater, TaskSleep, TaskAwaitPort,
             TaskWait, TaskBlock, TaskUnblock, Running
    <2> QED BY <1>0, <2>1 DEF PointsOK, LoopTypes
  <1>3. PICK k \in Kinds, r \in Resumables : e = <<k, r>> /\ r = Self(w)
    BY <1>2, ItemCases DEF Self
  <1>4. attached' \in [Resumables -> Workers \cup {None}]
    <2>1. \/ attached' = attached
          \/ \E v \in Workers \cup {None} : attached' = [attached EXCEPT ![r] = v]
      BY <1>3 DEF Task, Make, TaskDone, TaskResumeLater, TaskSleep, TaskAwaitPort,
           TaskWait, TaskBlock, TaskUnblock, callVars
    <2> QED BY <1>0, <2>1 DEF CallTypes
  <1>5. EndTypes'
    <2>1. /\ waiting' \subseteq waiting \cup {r}
          /\ done' \subseteq done \cup {r}
          /\ aborted' \in BOOLEAN
      BY <1>0, <1>3 DEF Task, Make, TaskDone, TaskResumeLater, TaskSleep, TaskAwaitPort,
           TaskWait, TaskBlock, TaskUnblock, endVars, EndTypes
    <2>2. lost' \subseteq Resumables
      BY <1>0, <1>3 DEF Task, Make, TaskDone, TaskResumeLater, TaskSleep, TaskAwaitPort,
           TaskWait, TaskBlock, TaskUnblock, endVars, EndTypes, QueueTypes
    <2> QED BY <1>0, <2>1, <2>2 DEF EndTypes
  <1>6. sleepq' \in [Workers -> SUBSET Resumables]
        /\ epoll' \in [Workers -> [Fds -> Resumables \cup {None}]]
    <2>1. \/ sleepq' = sleepq
          \/ sleepq' = [sleepq EXCEPT ![w] = @ \cup {r}]
      BY <1>3 DEF Task, Make, TaskDone, TaskResumeLater, TaskSleep, TaskAwaitPort,
           TaskWait, TaskBlock, TaskUnblock, sleepVars
    <2>2. \/ epoll' = epoll
          \/ \E f \in Fds : epoll' = [epoll EXCEPT ![w][f] = r]
      BY <1>3 DEF Task, Make, TaskDone, TaskResumeLater, TaskSleep, TaskAwaitPort,
           TaskWait, TaskBlock, TaskUnblock
    <2>3. sleepq' \in [Workers -> SUBSET Resumables]
      BY <1>0, <2>1 DEF QueueTypes
    <2>4. ASSUME NEW f \in Fds, epoll' = [epoll EXCEPT ![w][f] = r]
          PROVE  epoll' \in [Workers -> [Fds -> Resumables \cup {None}]]
      <3>1. epoll[w] \in [Fds -> Resumables \cup {None}]
        BY <1>0 DEF QueueTypes
      <3>2. [epoll[w] EXCEPT ![f] = r] \in [Fds -> Resumables \cup {None}]
        BY <3>1
      <3>3. epoll' = [epoll EXCEPT ![w] = [epoll[w] EXCEPT ![f] = r]]
        BY <2>4
      <3> QED BY <1>0, <3>2, <3>3 DEF QueueTypes
    <2> QED BY <1>0, <2>2, <2>3, <2>4 DEF QueueTypes
  <1>7. ready' \in [Workers -> Seq(Items)]
    <2>0. ready \in [Workers -> Seq(Items)]
      BY <1>0 DEF QueueTypes
    <2>1. \/ ready' = ready
          \/ \E i \in Items, v \in Workers : ready' = [ready EXCEPT ![v] = Append(@, i)]
      <3>1. CASE Task(w)
        <4>1. <<"run", r>> \in Items
          BY NoneIsNoItem DEF Kinds
        <4> QED BY <1>2, <1>3, <3>1, <4>1 DEF Task, Make, TaskDone, TaskResumeLater, TaskSleep, TaskAwaitPort,
           TaskWait, TaskBlock
      <3>2. ASSUME NEW x \in Resumables, TaskUnblock(w, x)
            PROVE  \/ ready' = ready
                   \/ \E i \in Items, v \in Workers : ready' = [ready EXCEPT ![v] = Append(@, i)]
        <4>1. <<"run", x>> \in Items
          BY NoneIsNoItem DEF Kinds
        <4> QED BY <3>2, <4>1 DEF TaskUnblock, IsLocal, Home
      <3> QED BY <3>1, <3>2
    <2>2. ASSUME NEW i \in Items, NEW v \in Workers, ready' = [ready EXCEPT ![v] = Append(@, i)]
          PROVE  ready' \in [Workers -> Seq(Items)]
      <3>1. Append(ready[v], i) \in Seq(Items)
        BY <2>0, AppendProperties
      <3> QED BY <2>0, <2>2, <3>1
    <2> QED BY <2>0, <2>1, <2>2
  <1>8. ASSUME Task(w)
        PROVE  LoopTypes' /\ PointsOK' /\ call' = call
    <2>1. \/ Returns(w)
          \/ UNCHANGED <<pc, current>>
          \/ pc' = [pc EXCEPT ![w] = "blocking"] /\ UNCHANGED current /\ Running(w)
      BY <1>8 DEF Task, Make, TaskDone, TaskResumeLater, TaskSleep, TaskAwaitPort,
           TaskWait, TaskBlock
    <2>2. call' = call
      BY <1>8 DEF Task, Make, TaskDone, TaskResumeLater, TaskSleep, TaskAwaitPort,
           TaskWait, TaskBlock, callVars
    <2>3. call[w].at = "idle"
      <3>1. Running(w) => call[w].at = "idle"
        BY DEF Running
      <3>2. Make(w) => current[w][1] = "make"
        BY DEF Make
      <3>3. TaskBlock(w) => pc[w] = "blocking"
        BY DEF TaskBlock
      <3>4. Running(w) \/ Make(w) \/ TaskBlock(w)
        BY <1>8 DEF Task, Make, TaskDone, TaskResumeLater, TaskSleep, TaskAwaitPort,
           TaskWait, TaskBlock
      <3> QED BY <1>0, <3>1, <3>2, <3>3, <3>4 DEF PointsOK
    <2>4. CASE Returns(w)
      <3>1. LoopTypes'
        BY <1>0, <1>1, <2>4 DEF LoopTypes, Returns
      <3>2. PointsOK'
        BY <1>0, <2>2, <2>3, <2>4 DEF LoopTypes, PointsOK, Returns
      <3> QED BY <2>2, <3>1, <3>2
    <2>5. CASE UNCHANGED <<pc, current>>
      BY <1>0, <1>1, <2>2, <2>5 DEF LoopTypes, PointsOK
    <2>6. CASE pc' = [pc EXCEPT ![w] = "blocking"] /\ UNCHANGED current /\ Running(w)
      <3>1. pc[w] = "task"
        BY <2>6 DEF Running
      <3> QED BY <1>0, <1>1, <2>2, <2>3, <2>6, <3>1 DEF LoopTypes, PointsOK
    <2> QED BY <2>1, <2>4, <2>5, <2>6
  <1>9. ASSUME NEW x \in Resumables, TaskUnblock(w, x)
        PROVE  LoopTypes' /\ PointsOK' /\ call' \in [Threads -> Calls]
    <2>1. UNCHANGED <<pc, current>> /\ pc[w] = "task" /\ current[w][1] = "run"
      BY <1>9 DEF TaskUnblock, Running
    <2>2. LoopTypes'
      BY <1>0, <1>1, <2>1 DEF LoopTypes
    <2>3. attached[x] \in Workers
      BY <1>9 DEF TaskUnblock, IInv, AtHome, HomeOf
    <2>4. <<"run", x>> \in Items /\ <<"run", x>> # None
      BY NoneIsNoItem DEF Kinds
    <2>5. PICK c \in Calls : /\ c = [at |-> "push", item |-> <<"run", x>>,
                                     target |-> attached[x], writes |-> 1]
                             /\ c.at = "push" /\ c.item = <<"run", x>>
                             /\ c.target = attached[x] /\ c.writes = 1
      <3> DEFINE d == [at |-> "push", item |-> <<"run", x>>, target |-> attached[x],
                       writes |-> 1]
      <3>1. d \in Calls
        BY <2>3, <2>4 DEF Calls
      <3>2. d.at = "push" /\ d.item = <<"run", x>> /\ d.target = attached[x] /\ d.writes = 1
        OBVIOUS
      <3> QED BY <3>1, <3>2
    <2>6. call' = call \/ call' = [call EXCEPT ![w] = c]
      BY <1>9, <2>5 DEF TaskUnblock, IsLocal, Home
    <2>7. call' \in [Threads -> Calls] /\ PointsOK'
      <3>1. call \in [Threads -> Calls] /\ w \in Threads
        BY <1>0 DEF CallTypes, Threads
      <3>2. CASE call' = call
        BY <1>0, <2>1, <3>1, <3>2 DEF PointsOK
      <3>3. CASE call' = [call EXCEPT ![w] = c]
        BY <1>0, <2>1, <2>4, <2>5, <3>1, <3>3, CallPoints
      <3> QED BY <2>6, <3>2, <3>3
    <2> QED BY <2>2, <2>7
  <1>10. LoopTypes' /\ PointsOK' /\ call' \in [Threads -> Calls]
    BY <1>0, <1>8, <1>9 DEF CallTypes
  <1>11. CallTypes' /\ QueueTypes'
    BY <1>0, <1>1, <1>4, <1>6, <1>7, <1>10 DEF CallTypes, QueueTypes
  <1> QED BY <1>5, <1>10, <1>11 DEF Types

LEMMA NextTypes ==
  ASSUME IInv, [Next]_vars
  PROVE  Types'
  <1>0. CallTypes /\ QueueTypes /\ LoopTypes /\ EndTypes /\ PointsOK
    BY DEF IInv, Types
  <1>1. CASE UNCHANGED vars
    BY <1>0, <1>1 DEF vars, callVars, runVars, sleepVars, endVars, Types,
           CallTypes, QueueTypes, LoopTypes, EndTypes, PointsOK
  <1>2. CASE Aborted
    BY <1>1, <1>2 DEF Aborted
  <1>3. CASE Tick
    BY <1>0, <1>3 DEF Tick, callVars, runVars, sleepVars, endVars, Types,
           CallTypes, QueueTypes, LoopTypes, EndTypes, PointsOK
  <1>4. CASE SpawnElsewhere
    <2>1. NextWorker(next_worker) \in Workers
      BY <1>0, IsolationAssumption DEF CallTypes, NextWorker, Workers
    <2> QED BY <1>0, <1>4, <2>1 DEF SpawnElsewhere, runVars, sleepVars, endVars, Types,
           CallTypes, QueueTypes, LoopTypes, EndTypes, PointsOK
  <1>5. CASE Next
    BY <1>2, <1>3, <1>4, <1>5, CallStepTypes, LoopStepTypes, TaskStepTypes
       DEF Next, Work
  <1> QED BY <1>1, <1>5

----------------------------------------------------------------------------
(***************************************************************************)
(* The theorem.                                                            *)
(***************************************************************************)

\* A worker starts to yield with TaskWait only, and then changes its current
\* item with the yield only.
LEMMA StartsToYield ==
  ASSUME IInv, [Next]_vars, NEW w \in Workers, pc'[w] = "blocking"
  PROVE  TaskWait(w) \/ (pc[w] = "blocking" /\ current'[w] = current[w])
  <1>0. LoopTypes
    BY DEF IInv, Types
  <1>1. CASE UNCHANGED <<pc, current>>
    BY <1>1
  <1>2. ASSUME NEW v \in Workers, NEW to \in {"drain", "poll", "pop", "task"},
               pc' = [pc EXCEPT ![v] = to],
               \A u \in Workers : u # v => current'[u] = current[u]
        PROVE  pc[w] = "blocking" /\ current'[w] = current[w]
    BY <1>0, <1>2 DEF LoopTypes
  <1>3. ASSUME NEW v \in Workers, Returns(v)
        PROVE  pc[w] = "blocking" /\ current'[w] = current[w]
    <2>1. \A u \in Workers : u # v => current'[u] = current[u]
      BY <1>0, <1>3 DEF Returns, LoopTypes
    <2>2. pc' = [pc EXCEPT ![v] = "drain"]
      BY <1>3 DEF Returns
    <2> QED BY <1>2, <2>1, <2>2
  <1>4. ASSUME NEW v \in Workers, Drain(v) \/ Poll(v) \/ PollInterrupted(v)
        PROVE  pc[w] = "blocking" /\ current'[w] = current[w]
    <2>1. current' = current /\ \E to \in {"poll", "pop"} : pc' = [pc EXCEPT ![v] = to]
      BY <1>4 DEF Drain, Poll, PollInterrupted
    <2> QED BY <1>2, <2>1
  <1>5. ASSUME NEW v \in Workers, Pop(v)
        PROVE  pc[w] = "blocking" /\ current'[w] = current[w]
    <2>1. \A u \in Workers : u # v => current'[u] = current[u]
      BY <1>0, <1>5 DEF Pop, LoopTypes
    <2>2. \E to \in {"drain", "task"} : pc' = [pc EXCEPT ![v] = to]
      BY <1>5 DEF Pop
    <2> QED BY <1>2, <2>1, <2>2
  <1>6. ASSUME NEW v \in Workers, Task(v)
        PROVE  TaskWait(w) \/ (pc[w] = "blocking" /\ current'[w] = current[w])
    <2>1. Returns(v) \/ UNCHANGED <<pc, current>> \/ TaskWait(v)
      BY <1>6 DEF Task, Make, TaskDone, TaskResumeLater, TaskSleep, TaskAwaitPort,
           TaskBlock
    <2>2. CASE TaskWait(v)
      <3>1. current' = current /\ pc' = [pc EXCEPT ![v] = "blocking"]
        BY <2>2 DEF TaskWait
      <3>2. CASE v = w
        BY <2>2, <3>2
      <3>3. CASE v # w
        BY <1>0, <3>1, <3>3 DEF LoopTypes
      <3> QED BY <3>2, <3>3
    <2> QED BY <1>1, <1>3, <2>1, <2>2
  <1>7. ASSUME Next
        PROVE  TaskWait(w) \/ (pc[w] = "blocking" /\ current'[w] = current[w])
    <2>1. \/ UNCHANGED <<pc, current>>
          \/ \E v \in Workers : \/ Drain(v) \/ Poll(v) \/ PollInterrupted(v)
                                \/ Pop(v) \/ Task(v)
      BY <1>7 DEF Next, Spawn, SpawnElsewhere, Call, PushExternal, Signal, Work,
           TaskUnblock, Tick, Aborted, vars, runVars
    <2> QED BY <1>1, <1>4, <1>5, <1>6, <2>1, SMTT(30)
  <1> QED BY <1>1, <1>7 DEF vars, runVars

LEMMA NextYields ==
  ASSUME IInv, [Next]_vars, Moved
  PROVE  YieldsNext'
  <1> SUFFICES ASSUME NEW w \in Workers, pc'[w] = "blocking"
               PROVE  \E r \in Resumables, q \in Released :
                        current'[w] = <<"run", r>> /\ At(r, q)'
    BY DEF YieldsNext
  <1>0. LoopTypes /\ PointsOK /\ AtHome
    BY DEF IInv, Types
  <1>1. CASE TaskWait(w)
    <2>1. current' = current /\ pc[w] = "task" /\ current[w][1] = "run"
          /\ Self(w) \in waiting'
      BY <1>1 DEF TaskWait, Running
    <2>2. PICK r \in Resumables : current[w] = <<"run", r>>
      <3>1. current[w] \in Items
        BY <1>0, <2>1 DEF PointsOK, LoopTypes
      <3> QED BY <2>1, <3>1, ItemCases
    <2>3. r \in waiting'
      BY <2>1, <2>2 DEF Self
    <2>4. PICK p \in Owners : At(r, p)'
      BY DEF Moved
    <2>5. p = <<"waiting", None, None>>
      BY <2>3, <2>4 DEF At
    <2> QED BY <2>1, <2>2, <2>4, <2>5 DEF Released
  <1>2. CASE pc[w] = "blocking" /\ current'[w] = current[w]
    <2>1. PICK r \in Resumables, q \in Released : current[w] = <<"run", r>> /\ At(r, q)
      BY <1>2 DEF IInv, YieldsNext
    <2>2. PICK q1 \in Owners, p \in Owners : At(r, q1) /\ At(r, p)' /\ Legal(r, q1, p)
      BY DEF Moved
    <2>3. q \in Owners
      BY DEF Released, Owners, Kinds
    <2>4. q1 = q
      BY <2>1, <2>2, <2>3, OneAt
    <2>5. attached[r] = w
      BY <1>0, <2>1 DEF AtHome, HomeOf
    <2>6. p \in Released
      BY <1>2, <2>2, <2>4, <2>5 DEF Legal
    <2> QED BY <1>2, <2>1, <2>2, <2>6
  <1> QED BY <1>1, <1>2, StartsToYield

LEMMA InitIInv ==
  ASSUME Init
  PROVE  IInv
  <1>0. 0 \in Workers /\ NoCall \in Calls
    BY IsolationAssumption DEF Workers, NoCall, Calls
  <1>1. CallTypes
    BY <1>0 DEF Init, CallTypes
  <1>2. QueueTypes /\ LoopTypes /\ EndTypes
    <2>1. << >> \in Seq(Items)
      OBVIOUS
    <2>2. /\ external \in [Workers -> Seq(Items)]
          /\ ready \in [Workers -> Seq(Items)]
      BY <2>1 DEF Init
    <2>3. /\ epoll \in [Workers -> [Fds -> Resumables \cup {None}]]
          /\ sleepq \in [Workers -> SUBSET Resumables]
      BY DEF Init
    <2>4. LoopTypes
      BY DEF Init, LoopTypes
    <2>5. EndTypes
      BY DEF Init, EndTypes
    <2> QED BY <2>2, <2>3, <2>4, <2>5 DEF QueueTypes
  <1>3. PointsOK
    BY DEF Init, PointsOK, NoCall, Threads
  <1>4. \A e : ~Contains(<< >>, e)
    BY DEF Contains
  <1>5. ASSUME NEW r \in Resumables
        PROVE  At(r, <<"fresh", None, None>>)
    <2>1. /\ \A k \in Kinds : None # <<k, r>>
          /\ None # r
      BY NoneIsNoItem, IsolationAssumption
    <2>2. \A t \in Threads : call[t].item = None
      BY DEF Init, NoCall
    <2>3. \A w \in Workers : /\ external[w] = << >> /\ ready[w] = << >>
                             /\ pc[w] = "drain" /\ sleepq[w] = {}
      BY DEF Init
    <2>4. \A w \in Workers, f \in Fds : epoll[w][f] = None
      BY DEF Init
    <2>5. r \in fresh /\ r \notin waiting /\ r \notin done /\ r \notin lost
      BY DEF Init
    <2> QED BY <1>4, <2>1, <2>2, <2>3, <2>4, <2>5 DEF At
  <1>6. Located
    BY <1>5, OwnerKinds DEF Located
  <1>7. LinkedOnce
    BY DEF Init, LinkedOnce, IsInjective
  <1>8. AtHome
    <2>1. ASSUME NEW r \in Resumables PROVE HomeOf(r)
      <3>1. None # <<"run", r>> /\ None # r
        BY NoneIsNoItem, IsolationAssumption DEF Kinds
      <3> QED BY <1>4, <3>1 DEF Init, HomeOf, NoCall
    <2> QED BY <2>1 DEF AtHome
  <1>9. YieldsNext
    BY DEF Init, YieldsNext
  <1> QED BY <1>1, <1>2, <1>3, <1>6, <1>7, <1>8, <1>9 DEF IInv, Types

\* Every resumable has exactly one owner: a call, a queue, a running worker,
\* the sleep queue, the reactor or a synchronisation object; it is held on the
\* worker it is attached to, and one that has registered itself and has not
\* yielded is nowhere that its worker could resume it from.
THEOREM Invariant == Spec => []IInv
  <1>1. Init => IInv
    BY InitIInv
  <1>2. IInv /\ [Next]_vars => IInv'
    <2> SUFFICES ASSUME IInv, [Next]_vars PROVE IInv'
      OBVIOUS
    <2>1. Moved /\ LinkedOnce' /\ AtHome'
      BY NextMoves
    <2>2. Located'
      BY <2>1 DEF Moved, Located
    <2>3. YieldsNext' /\ Types'
      BY <2>1, NextYields, NextTypes
    <2> QED BY <2>1, <2>2, <2>3 DEF IInv
  <1> QED BY <1>1, <1>2, PTL DEF Spec

----------------------------------------------------------------------------
(***************************************************************************)
(* The properties.                                                         *)
(***************************************************************************)

\* What a worker runs names its resumable.
LEMMA RunsItem ==
  ASSUME IInv, NEW w \in Workers, NEW r \in Resumables
  PROVE  Runs(w, r) <=> \E k \in Kinds : current[w] = <<k, r>>
  <1>1. current[w] \in Items \cup {None}
    BY DEF IInv, Types, LoopTypes
  <1>2. ASSUME NEW k \in Kinds, current[w] = <<k, r>>
        PROVE  Runs(w, r)
    BY <1>2, NoneIsNoItem DEF Runs, Self
  <1>3. ASSUME Runs(w, r)
        PROVE  \E k \in Kinds : current[w] = <<k, r>>
    BY <1>1, <1>3, ItemCases DEF Runs, Self
  <1> QED BY <1>2, <1>3

\* A worker is inside the resume of r, from the loop or about to yield.
LEMMA RunsWhere ==
  ASSUME IInv, NEW w \in Workers, NEW r \in Resumables, Runs(w, r)
  PROVE  \/ pc[w] = "task" /\ \E k \in Kinds : At(r, <<"task", w, k>>)
         \/ /\ pc[w] = "blocking" /\ current[w] = <<"run", r>>
            /\ \E q \in Released : At(r, q)
  <1>1. PICK k \in Kinds : current[w] = <<k, r>>
    BY RunsItem
  <1>2. pc[w] \in {"task", "blocking"}
    BY <1>1, NoneIsNoItem DEF IInv, Types, PointsOK
  <1>3. CASE pc[w] = "task"
    <2>1. PICK q \in Owners : At(r, q)
      BY DEF IInv, Located
    <2>2. q = <<"task", w, k>>
      BY <1>1, <1>3, <2>1 DEF At
    <2> QED BY <1>3, <2>1, <2>2
  <1>4. CASE pc[w] = "blocking"
    <2>1. PICK x \in Resumables, q \in Released : current[w] = <<"run", x>> /\ At(x, q)
      BY <1>4 DEF IInv, YieldsNext
    <2>2. x = r
      BY <1>1, <2>1
    <2> QED BY <1>4, <2>1, <2>2
  <1> QED BY <1>2, <1>3, <1>4

LEMMA EnteredOnce ==
  ASSUME IInv, NEW w \in Workers, NEW v \in Workers, NEW r \in Resumables,
         Runs(w, r), Runs(v, r)
  PROVE  v = w
  <1>1. ASSUME NEW x \in Workers, pc[x] = "blocking", current[x] = <<"run", r>>
        PROVE  attached[r] = x
    BY <1>1 DEF IInv, AtHome, HomeOf
  <1>2. ASSUME NEW x \in Workers, NEW k \in Kinds, At(r, <<"task", x, k>>),
               NEW y \in Workers, NEW q \in Released, At(r, q)
        PROVE  FALSE
    <2>1. q \in Owners /\ <<"task", x, k>> \in Owners
      BY OwnerKinds DEF Released, Owners, Kinds
    <2>2. q = <<"task", x, k>>
      BY <1>2, <2>1, OneAt
    <2> QED BY <2>2 DEF Released
  <1>3. ASSUME NEW x \in Workers, NEW k \in Kinds, At(r, <<"task", x, k>>),
               NEW y \in Workers, NEW j \in Kinds, At(r, <<"task", y, j>>)
        PROVE  x = y
    <2>1. <<"task", x, k>> = <<"task", y, j>>
      BY <1>3, OwnerKinds, OneAt
    <2> QED BY <2>1
  <1> QED BY <1>1, <1>2, <1>3, RunsWhere

\* No two workers are inside the same resumable, and one that is running or
\* about to yield is in no ready queue: a task of another worker that unblocks
\* it early can only push it to the external queue of its own worker.
THEOREM EnteredOnly == Spec => []NeverEnteredTwice
  <1>1. IInv => NeverEnteredTwice
    <2> SUFFICES ASSUME IInv, NEW w \in Workers, NEW r \in Resumables, Runs(w, r),
                        NEW v \in Workers
                 PROVE  /\ Runs(v, r) => v = w
                        /\ r \notin {ready[v][i][2] : i \in DOMAIN ready[v]}
      BY DEF NeverEnteredTwice
    <2>1. Runs(v, r) => v = w
      BY EnteredOnce
    <2>2. ASSUME NEW i \in DOMAIN ready[v], ready[v][i][2] = r
          PROVE  FALSE
      <3>1. ready[v] \in Seq(Items)
        BY DEF IInv, Types, QueueTypes
      <3>2. PICK k \in Kinds : ready[v][i] = <<k, r>>
        <4>1. ready[v][i] \in Items
          BY <3>1, ContainsPositions
        <4> QED BY <2>2, <4>1, ItemCases
      <3>3. Contains(ready[v], <<k, r>>)
        BY <3>1, <3>2, ContainsPositions
      <3>4. \A q : At(r, q) => q = <<"ready", v, k>>
        BY <3>3 DEF At
      <3>5. PICK q \in ({"task"} \X Workers \X Kinds) \cup Released : At(r, q)
        BY RunsWhere
      <3>6. q[1] # "ready"
        BY <3>5 DEF Released
      <3> QED BY <3>4, <3>5, <3>6
    <2> QED BY <2>1, <2>2
  <1> QED BY <1>1, Invariant, PTL

\* A resumable never leaves the worker it was made on: whatever the queues,
\* the reactor and the loop of a worker refer to is attached to that worker.
THEOREM HomeBound == Spec => []StaysHome
  <1>1. IInv => StaysHome
    <2> SUFFICES ASSUME IInv, NEW w \in Workers, NEW r \in Resumables,
                        \/ <<"run", r>> \in ToSet(external[w]) \cup ToSet(ready[w])
                        \/ current[w] = <<"run", r>>
                        \/ r \in sleepq[w]
                        \/ \E f \in Fds : epoll[w][f] = r
                 PROVE  attached[r] = w
      BY DEF StaysHome
    <2>1. /\ <<"run", r>> \in ToSet(external[w]) => Contains(external[w], <<"run", r>>)
          /\ <<"run", r>> \in ToSet(ready[w]) => Contains(ready[w], <<"run", r>>)
      <3>1. external[w] \in Seq(Items) /\ ready[w] \in Seq(Items)
        BY DEF IInv, Types, QueueTypes
      <3> QED BY <3>1, ContainsPositions
    <2>2. HomeOf(r)
      BY DEF IInv, AtHome
    <2> QED BY <2>1, <2>2 DEF HomeOf
  <1> QED BY <1>1, Invariant, PTL

----------------------------------------------------------------------------
\* What refers to r, spelled out.
LEMMA ReferencesAre ==
  ASSUME NEW r, NEW y
  PROVE  y \in References(r) <=>
           \/ \E t \in Threads : /\ call[t].item # None /\ call[t].item[2] = r
                                 /\ y = <<"call", t>>
           \/ \E w \in Workers : \E i \in DOMAIN external[w] :
                external[w][i][2] = r /\ y = <<"external", <<w, i>> >>
           \/ \E w \in Workers : \E i \in DOMAIN ready[w] :
                ready[w][i][2] = r /\ y = <<"ready", <<w, i>> >>
           \/ \E w \in Workers : r \in sleepq[w] /\ y = <<"sleep", w>>
           \/ \E w \in Workers, f \in Fds :
                epoll[w][f] = r /\ y = <<"epoll", <<w, f>> >>
           \/ r \in waiting /\ y = <<"waiting", waiting>>
           \/ r \in done /\ y = <<"done", done>>
           \/ r \in lost /\ y = <<"lost", lost>>
           \/ r \in fresh /\ y = <<"fresh", fresh>>
  <1> DEFINE In(q) == UNION {{<<w, i>> : i \in {i \in DOMAIN q[w] : q[w][i][2] = r}} :
                             w \in Workers}
             C == {<<"call", t>> : t \in {t \in Threads : /\ call[t].item # None
                                                          /\ call[t].item[2] = r}}
             X == {<<"external", x>> : x \in In(external)}
             R == {<<"ready", x>> : x \in In(ready)}
             S == {<<"sleep", w>> : w \in {w \in Workers : r \in sleepq[w]}}
             E == {<<"epoll", x>> : x \in {x \in Workers \X Fds :
                                             epoll[x[1]][x[2]] = r}}
             O == {x \in {<<"waiting", waiting>>, <<"done", done>>, <<"lost", lost>>,
                          <<"fresh", fresh>>} : r \in x[2]}
  <1>1. y \in C <=> \E t \in Threads : /\ call[t].item # None /\ call[t].item[2] = r
                                       /\ y = <<"call", t>>
    OBVIOUS
  <1>2. ASSUME NEW q, NEW x
        PROVE  x \in In(q) <=> \E w \in Workers : \E i \in DOMAIN q[w] :
                                 q[w][i][2] = r /\ x = <<w, i>>
    OBVIOUS
  <1> HIDE DEF In
  <1>21. ASSUME NEW q, NEW tag
         PROVE  (\E x : x \in In(q) /\ y = <<tag, x>>) <=>
                  \E w \in Workers : \E i \in DOMAIN q[w] :
                    q[w][i][2] = r /\ y = <<tag, <<w, i>> >>
    <2>1. ASSUME NEW x, x \in In(q), y = <<tag, x>>
          PROVE  \E w \in Workers : \E i \in DOMAIN q[w] :
                   q[w][i][2] = r /\ y = <<tag, <<w, i>> >>
      BY <1>2, <2>1
    <2>2. ASSUME NEW w \in Workers, NEW i \in DOMAIN q[w], q[w][i][2] = r,
                 y = <<tag, <<w, i>> >>
          PROVE  \E x : x \in In(q) /\ y = <<tag, x>>
      <3>1. <<w, i>> \in In(q)
        BY <1>2, <2>2
      <3> QED BY <2>2, <3>1
    <2> QED BY <2>1, <2>2
  <1>3. y \in X <=> \E w \in Workers : \E i \in DOMAIN external[w] :
                      external[w][i][2] = r /\ y = <<"external", <<w, i>> >>
    <2>1. y \in X <=> \E x : x \in In(external) /\ y = <<"external", x>>
      OBVIOUS
    <2> QED BY <1>21, <2>1
  <1>4. y \in R <=> \E w \in Workers : \E i \in DOMAIN ready[w] :
                      ready[w][i][2] = r /\ y = <<"ready", <<w, i>> >>
    <2>1. y \in R <=> \E x : x \in In(ready) /\ y = <<"ready", x>>
      OBVIOUS
    <2> QED BY <1>21, <2>1
  <1>5. y \in S <=> \E w \in Workers : r \in sleepq[w] /\ y = <<"sleep", w>>
    OBVIOUS
  <1>6. y \in E <=> \E w \in Workers, f \in Fds :
                      epoll[w][f] = r /\ y = <<"epoll", <<w, f>> >>
    <2>1. y \in E <=> \E x \in Workers \X Fds : epoll[x[1]][x[2]] = r /\ y = <<"epoll", x>>
      OBVIOUS
    <2> QED BY <2>1
  <1>7. y \in O <=> \/ r \in waiting /\ y = <<"waiting", waiting>>
                    \/ r \in done /\ y = <<"done", done>>
                    \/ r \in lost /\ y = <<"lost", lost>>
                    \/ r \in fresh /\ y = <<"fresh", fresh>>
    OBVIOUS
  <1>8. References(r) = C \cup X \cup R \cup S \cup E \cup O
    BY DEF References, In
  <1> HIDE DEF C, X, R, S, E, O
  <1> QED BY <1>1, <1>3, <1>4, <1>5, <1>6, <1>7, <1>8

\* y is how the owner q refers to r.
Refers(r, q, y) ==
  \/ \E t \in Threads, k \in Kinds : q = <<"call", t, k>> /\ y = <<"call", t>>
  \/ \E w \in Workers, k \in Kinds :
       /\ q = <<"external", w, k>>
       /\ \E i \in DOMAIN external[w] : /\ external[w][i] = <<k, r>>
                                        /\ y = <<"external", <<w, i>> >>
  \/ \E w \in Workers, k \in Kinds :
       /\ q = <<"ready", w, k>>
       /\ \E i \in DOMAIN ready[w] : /\ ready[w][i] = <<k, r>>
                                     /\ y = <<"ready", <<w, i>> >>
  \/ \E w \in Workers : q = <<"sleep", w, None>> /\ y = <<"sleep", w>>
  \/ \E w \in Workers, f \in Fds : q = <<"epoll", w, f>> /\ y = <<"epoll", <<w, f>> >>
  \/ q = <<"waiting", None, None>> /\ y = <<"waiting", waiting>>
  \/ q = <<"done", None, None>> /\ y = <<"done", done>>
  \/ q = <<"lost", None, None>> /\ y = <<"lost", lost>>
  \/ q = <<"fresh", None, None>> /\ y = <<"fresh", fresh>>

LEMMA ReferencesByOwner ==
  ASSUME IInv, NEW r \in Resumables, NEW q, At(r, q), NEW y
  PROVE  y \in References(r) <=> Refers(r, q, y)
  <1>0. /\ call \in [Threads -> Calls]
        /\ \A w \in Workers : external[w] \in Seq(Items) /\ ready[w] \in Seq(Items)
    BY DEF IInv, Types, CallTypes, QueueTypes
  <1>1. ASSUME NEW t \in Threads
        PROVE  (call[t].item # None /\ call[t].item[2] = r)
                 <=> \E k \in Kinds : q = <<"call", t, k>>
    <2>1. call[t].item \in Items \cup {None}
      BY <1>0 DEF Calls
    <2>2. (call[t].item # None /\ call[t].item[2] = r)
             <=> \E k \in Kinds : call[t].item = <<k, r>>
      BY <2>1, ItemCases, NoneIsNoItem
    <2> QED BY <2>2 DEF At
  <1>2. ASSUME NEW s \in Seq(Items), NEW i \in DOMAIN s
        PROVE  s[i][2] = r <=> \E k \in Kinds : s[i] = <<k, r>> /\ Contains(s, <<k, r>>)
    <2>1. s[i] \in Items /\ Contains(s, s[i])
      BY ContainsPositions
    <2>2. PICK k \in Kinds, x \in Resumables : s[i] = <<k, x>>
      BY <2>1, ItemCases
    <2>3. s[i][2] = x /\ Contains(s, <<k, x>>)
      BY <2>1, <2>2
    <2>4. CASE x = r
      BY <2>2, <2>3, <2>4
    <2>5. CASE x # r
      <3>1. \A j \in Kinds : s[i] # <<j, r>>
        BY <2>2, <2>5
      <3> QED BY <2>3, <2>5, <3>1
    <2> QED BY <2>4, <2>5
  <1>3. ASSUME NEW w \in Workers, NEW i \in DOMAIN external[w]
        PROVE  external[w][i][2] = r
                 <=> \E k \in Kinds : q = <<"external", w, k>> /\ external[w][i] = <<k, r>>
    <2>1. external[w][i][2] = r
            <=> \E k \in Kinds : external[w][i] = <<k, r>> /\ Contains(external[w], <<k, r>>)
      BY <1>0, <1>2
    <2> QED BY <2>1 DEF At
  <1>4. ASSUME NEW w \in Workers, NEW i \in DOMAIN ready[w]
        PROVE  ready[w][i][2] = r
                 <=> \E k \in Kinds : q = <<"ready", w, k>> /\ ready[w][i] = <<k, r>>
    <2>1. ready[w][i][2] = r
            <=> \E k \in Kinds : ready[w][i] = <<k, r>> /\ Contains(ready[w], <<k, r>>)
      BY <1>0, <1>2
    <2> QED BY <2>1 DEF At
  <1>5. /\ \A w \in Workers : r \in sleepq[w] <=> q = <<"sleep", w, None>>
        /\ \A w \in Workers, f \in Fds : epoll[w][f] = r <=> q = <<"epoll", w, f>>
        /\ r \in fresh <=> q = <<"fresh", None, None>>
        /\ r \in waiting <=> q = <<"waiting", None, None>>
        /\ r \in done <=> q = <<"done", None, None>>
        /\ r \in lost <=> q = <<"lost", None, None>>
    BY DEF At
  <1>6. (\E t \in Threads : /\ call[t].item # None /\ call[t].item[2] = r
                            /\ y = <<"call", t>>)
          <=> \E t \in Threads, k \in Kinds : q = <<"call", t, k>> /\ y = <<"call", t>>
    BY <1>1, Zenon
  <1>7. (\E w \in Workers : \E i \in DOMAIN external[w] :
           external[w][i][2] = r /\ y = <<"external", <<w, i>> >>)
          <=> \E w \in Workers, k \in Kinds :
                /\ q = <<"external", w, k>>
                /\ \E i \in DOMAIN external[w] : /\ external[w][i] = <<k, r>>
                                                 /\ y = <<"external", <<w, i>> >>
    BY <1>3, Zenon
  <1>8. (\E w \in Workers : \E i \in DOMAIN ready[w] :
           ready[w][i][2] = r /\ y = <<"ready", <<w, i>> >>)
          <=> \E w \in Workers, k \in Kinds :
                /\ q = <<"ready", w, k>>
                /\ \E i \in DOMAIN ready[w] : /\ ready[w][i] = <<k, r>>
                                              /\ y = <<"ready", <<w, i>> >>
    BY <1>4, Zenon
  <1>9. (\E w \in Workers : r \in sleepq[w] /\ y = <<"sleep", w>>)
          <=> \E w \in Workers : q = <<"sleep", w, None>> /\ y = <<"sleep", w>>
    BY <1>5, Zenon
  <1>10. (\E w \in Workers, f \in Fds : epoll[w][f] = r /\ y = <<"epoll", <<w, f>> >>)
          <=> \E w \in Workers, f \in Fds : /\ q = <<"epoll", w, f>>
                                            /\ y = <<"epoll", <<w, f>> >>
    BY <1>5, Zenon
  <1>11. /\ (r \in waiting /\ y = <<"waiting", waiting>>)
              <=> (q = <<"waiting", None, None>> /\ y = <<"waiting", waiting>>)
         /\ (r \in done /\ y = <<"done", done>>)
              <=> (q = <<"done", None, None>> /\ y = <<"done", done>>)
         /\ (r \in lost /\ y = <<"lost", lost>>)
              <=> (q = <<"lost", None, None>> /\ y = <<"lost", lost>>)
         /\ (r \in fresh /\ y = <<"fresh", fresh>>)
              <=> (q = <<"fresh", None, None>> /\ y = <<"fresh", fresh>>)
    BY <1>5, Zenon
  <1>12. y \in References(r) <=>
           \/ \E t \in Threads : /\ call[t].item # None /\ call[t].item[2] = r
                                 /\ y = <<"call", t>>
           \/ \E w \in Workers : \E i \in DOMAIN external[w] :
                external[w][i][2] = r /\ y = <<"external", <<w, i>> >>
           \/ \E w \in Workers : \E i \in DOMAIN ready[w] :
                ready[w][i][2] = r /\ y = <<"ready", <<w, i>> >>
           \/ \E w \in Workers : r \in sleepq[w] /\ y = <<"sleep", w>>
           \/ \E w \in Workers, f \in Fds :
                epoll[w][f] = r /\ y = <<"epoll", <<w, f>> >>
           \/ r \in waiting /\ y = <<"waiting", waiting>>
           \/ r \in done /\ y = <<"done", done>>
           \/ r \in lost /\ y = <<"lost", lost>>
           \/ r \in fresh /\ y = <<"fresh", fresh>>
    BY ReferencesAre
  <1> QED BY <1>6, <1>7, <1>8, <1>9, <1>10, <1>11, <1>12, Zenon DEF Refers

\* The one position of an item.
LEMMA OnePosition ==
  ASSUME NEW s \in Seq(Items), IsInjective(s), NEW k, NEW r, Contains(s, <<k, r>>)
  PROVE  \E i \in DOMAIN s : \A j \in DOMAIN s : s[j] = <<k, r>> <=> j = i
  <1>2. PICK i \in DOMAIN s : s[i] = <<k, r>>
    BY ContainsPositions
  <1>3. \A j \in DOMAIN s : s[j] = <<k, r>> => j = i
    BY <1>2 DEF IsInjective
  <1> QED BY <1>2, <1>3

\* Whatever holds r refers to it once.
LEMMA OneReference ==
  ASSUME IInv, NEW r \in Resumables, NEW q \in Owners, At(r, q),
         \A w \in Workers, k \in Kinds : q # <<"task", w, k>>
  PROVE  Cardinality(References(r)) = 1
  <1>0. \A y : y \in References(r) <=> Refers(r, q, y)
    BY ReferencesByOwner
  <1>1. ASSUME NEW t \in Threads, NEW k \in Kinds, q = <<"call", t, k>>
        PROVE  Cardinality(References(r)) = 1
    <2>1. \A y : Refers(r, q, y) <=> y = <<"call", t>>
      BY <1>1 DEF Refers
    <2>4. References(r) = {<<"call", t>>}
      BY <1>0, <2>1
    <2> QED BY <2>4, FS_Singleton
  <1>2. ASSUME NEW w \in Workers, NEW k \in Kinds, q = <<"external", w, k>>
        PROVE  Cardinality(References(r)) = 1
    <2>1. PICK i \in DOMAIN external[w] :
            \A j \in DOMAIN external[w] : external[w][j] = <<k, r>> <=> j = i
      <3>1. Contains(external[w], <<k, r>>)
        BY <1>2 DEF At
      <3>2. external[w] \in Seq(Items) /\ IsInjective(external[w])
        BY DEF IInv, Types, QueueTypes, LinkedOnce
      <3> QED BY <3>1, <3>2, OnePosition, ZenonT(60)
    <2>2. \A y : Refers(r, q, y) <=> \E j \in DOMAIN external[w] :
            external[w][j] = <<k, r>> /\ y = <<"external", <<w, j>> >>
      BY <1>2 DEF Refers
    <2>3. \A y : Refers(r, q, y) <=> y = <<"external", <<w, i>> >>
      BY <2>1, <2>2, Zenon
    <2>4. References(r) = {<<"external", <<w, i>> >>}
      BY <1>0, <2>3
    <2> QED BY <2>4, FS_Singleton
  <1>3. ASSUME NEW w \in Workers, NEW k \in Kinds, q = <<"ready", w, k>>
        PROVE  Cardinality(References(r)) = 1
    <2>1. PICK i \in DOMAIN ready[w] :
            \A j \in DOMAIN ready[w] : ready[w][j] = <<k, r>> <=> j = i
      <3>1. Contains(ready[w], <<k, r>>)
        BY <1>3 DEF At
      <3>2. ready[w] \in Seq(Items) /\ IsInjective(ready[w])
        BY DEF IInv, Types, QueueTypes, LinkedOnce
      <3> QED BY <3>1, <3>2, OnePosition, ZenonT(60)
    <2>2. \A y : Refers(r, q, y) <=> \E j \in DOMAIN ready[w] :
            ready[w][j] = <<k, r>> /\ y = <<"ready", <<w, j>> >>
      BY <1>3 DEF Refers
    <2>3. \A y : Refers(r, q, y) <=> y = <<"ready", <<w, i>> >>
      BY <2>1, <2>2, Zenon
    <2>4. References(r) = {<<"ready", <<w, i>> >>}
      BY <1>0, <2>3
    <2> QED BY <2>4, FS_Singleton
  <1>4. ASSUME NEW w \in Workers, q = <<"sleep", w, None>>
        PROVE  Cardinality(References(r)) = 1
    <2>1. \A y : Refers(r, q, y) <=> y = <<"sleep", w>>
      BY <1>4 DEF Refers
    <2>4. References(r) = {<<"sleep", w>>}
      BY <1>0, <2>1
    <2> QED BY <2>4, FS_Singleton
  <1>5. ASSUME NEW w \in Workers, NEW f \in Fds, q = <<"epoll", w, f>>
        PROVE  Cardinality(References(r)) = 1
    <2>1. \A y : Refers(r, q, y) <=> y = <<"epoll", <<w, f>> >>
      BY <1>5 DEF Refers
    <2>4. References(r) = {<<"epoll", <<w, f>> >>}
      BY <1>0, <2>1
    <2> QED BY <2>4, FS_Singleton
  <1>6. CASE q = <<"waiting", None, None>>
    <2>1. \A y : Refers(r, q, y) <=> y = <<"waiting", waiting>>
      BY <1>6 DEF Refers
    <2>4. References(r) = {<<"waiting", waiting>>}
      BY <1>0, <2>1
    <2> QED BY <2>4, FS_Singleton
  <1>7. CASE q = <<"done", None, None>>
    <2>1. \A y : Refers(r, q, y) <=> y = <<"done", done>>
      BY <1>7 DEF Refers
    <2>4. References(r) = {<<"done", done>>}
      BY <1>0, <2>1
    <2> QED BY <2>4, FS_Singleton
  <1>8. CASE q = <<"lost", None, None>>
    <2>1. \A y : Refers(r, q, y) <=> y = <<"lost", lost>>
      BY <1>8 DEF Refers
    <2>4. References(r) = {<<"lost", lost>>}
      BY <1>0, <2>1
    <2> QED BY <2>4, FS_Singleton
  <1>9. CASE q = <<"fresh", None, None>>
    <2>1. \A y : Refers(r, q, y) <=> y = <<"fresh", fresh>>
      BY <1>9 DEF Refers
    <2>4. References(r) = {<<"fresh", fresh>>}
      BY <1>0, <2>1
    <2> QED BY <2>4, FS_Singleton
  <1>10. \/ \E t \in Threads, k \in Kinds : q = <<"call", t, k>>
         \/ \E w \in Workers, k \in Kinds : q = <<"external", w, k>> \/ q = <<"ready", w, k>>
         \/ \E w \in Workers : q = <<"sleep", w, None>>
         \/ \E w \in Workers, f \in Fds : q = <<"epoll", w, f>>
         \/ q = <<"fresh", None, None>> \/ q = <<"waiting", None, None>>
         \/ q = <<"done", None, None>> \/ q = <<"lost", None, None>>
    BY OwnerCases
  <1> QED BY <1>1, <1>2, <1>3, <1>4, <1>5, <1>6, <1>7, <1>8, <1>9, <1>10

\* A resumable that does not run is referred to once, and a running one not at
\* all: no queue, reactor, call or synchronisation object aliases another.
THEOREM OwnedOnce == Spec => []OneOwner
  <1>1. IInv => OneOwner
    <2> SUFFICES ASSUME IInv, NEW r \in Resumables
                 PROVE  Cardinality(References(r)) =
                          IF \E w \in Workers : Runs(w, r) /\ pc[w] = "task" THEN 0 ELSE 1
      BY DEF OneOwner
    <2>1. PICK q \in Owners : At(r, q)
      BY DEF IInv, Located
    <2>2. \A w \in Workers : Runs(w, r) <=> \E k \in Kinds : current[w] = <<k, r>>
      BY RunsItem
    <2>3. (\E w \in Workers : Runs(w, r) /\ pc[w] = "task")
            <=> \E w \in Workers, k \in Kinds : q = <<"task", w, k>>
      BY <2>1, <2>2 DEF At
    <2>4. ASSUME NEW w \in Workers, NEW k \in Kinds, q = <<"task", w, k>>
          PROVE  Cardinality(References(r)) = 0
      <3>1. \A y : ~Refers(r, q, y)
        BY <2>4 DEF Refers
      <3>2. \A y : y \notin References(r)
        BY <2>1, <3>1, ReferencesByOwner
      <3>3. References(r) = {}
        BY <3>2, Zenon
      <3> QED BY <3>3, FS_EmptySet
    <2> QED BY <2>1, <2>3, <2>4, OneReference
  <1> QED BY <1>1, Invariant, PTL

----------------------------------------------------------------------------
(***************************************************************************)
(* The cached deadline.                                                    *)
(***************************************************************************)

\* A sleeper wakes before the end of time, and is not overdue by more than
\* the bound on the clock.
ClockOK ==
  /\ wakeup \in [Resumables -> Int]
  /\ next_wakeup \in [Workers -> Int]
  /\ \A w \in Workers : \A r \in sleepq[w] : wakeup[r] >= -MaxLag /\ wakeup[r] < Never

\* next_wakeup of one worker, for the sleepers in S with wakeup times k.
Earliest(n, S, k) ==
  /\ \A r \in S : n <= k[r]
  /\ IF S = {} THEN n = Never ELSE \E r \in S : n = k[r]

LEMMA EarliestEach ==
  NextWakeupIsEarliest
    <=> (~aborted => \A w \in Workers : Earliest(next_wakeup[w], sleepq[w], wakeup))
  BY DEF NextWakeupIsEarliest, Earliest

\* The task that runs does not sleep.
LEMMA RunningAwake ==
  ASSUME IInv, NEW w \in Workers, Running(w)
  PROVE  Self(w) \in Resumables /\ \A v \in Workers : Self(w) \notin sleepq[v]
  <1>1. pc[w] = "task" /\ current[w] \in Items /\ current[w][1] = "run"
    BY DEF IInv, Types, PointsOK, LoopTypes, Running
  <1>2. PICK r \in Resumables : current[w] = <<"run", r>> /\ Self(w) = r
    BY <1>1, ItemCases DEF Self
  <1>3. PICK q \in Owners : At(r, q)
    BY DEF IInv, Located
  <1>4. q = <<"task", w, "run">>
    BY <1>1, <1>2, <1>3 DEF At, Kinds
  <1>5. \A v \in Workers : r \notin sleepq[v]
    BY <1>3, <1>4 DEF At
  <1> QED BY <1>2, <1>5

LEMMA SleepDeadline ==
  ASSUME IInv, ClockOK, NextWakeupIsEarliest, NEW w \in Workers, NEW d \in Durations,
         TaskSleep(w, d)
  PROVE  ClockOK' /\ NextWakeupIsEarliest'
  <1>0. /\ sleepq \in [Workers -> SUBSET Resumables] /\ d \in Nat /\ d < Never
        /\ Never \in Nat /\ MaxLag \in Nat
    BY ClockAssumption DEF IInv, Types, QueueTypes
  <1>1. PICK r \in Resumables : r = Self(w) /\ \A v \in Workers : r \notin sleepq[v]
    BY RunningAwake DEF TaskSleep
  <1>2. /\ wakeup' = [wakeup EXCEPT ![r] = d]
        /\ next_wakeup' = [next_wakeup EXCEPT ![w] = Deadline(w, d)]
    BY <1>1 DEF TaskSleep
  <1>3. /\ sleepq' = sleepq \/ sleepq' = [sleepq EXCEPT ![w] = @ \cup {r}]
        /\ aborted' \/ (aborted' = aborted /\ sleepq' = [sleepq EXCEPT ![w] = @ \cup {r}])
        /\ ~aborted
    BY <1>1 DEF TaskSleep, Running
  <1>4. /\ wakeup' \in [Resumables -> Int] /\ wakeup'[r] = d
        /\ \A x \in Resumables : x # r => wakeup'[x] = wakeup[x]
    BY <1>0, <1>2 DEF ClockOK
  <1>5. /\ next_wakeup' \in [Workers -> Int] /\ next_wakeup'[w] = Deadline(w, d)
        /\ \A v \in Workers : v # w => next_wakeup'[v] = next_wakeup[v]
    BY <1>0, <1>2 DEF ClockOK, Deadline
  <1>6. ClockOK'
    <2>1. ASSUME NEW v \in Workers, NEW x \in sleepq'[v]
          PROVE  wakeup'[x] >= -MaxLag /\ wakeup'[x] < Never
      <3>1. CASE x = r
        BY <1>0, <1>4, <3>1
      <3>2. CASE x # r
        <4>1. x \in sleepq[v]
          BY <1>0, <1>3, <2>1, <3>2
        <4> QED BY <1>0, <1>4, <3>2, <4>1 DEF ClockOK
      <3> QED BY <3>1, <3>2
    <2> QED BY <1>4, <1>5, <2>1 DEF ClockOK
  <1>7. ASSUME ~aborted', NEW v \in Workers
        PROVE  Earliest(next_wakeup'[v], sleepq'[v], wakeup')
    <2>1. sleepq' = [sleepq EXCEPT ![w] = @ \cup {r}]
      BY <1>3, <1>7
    <2>2. Earliest(next_wakeup[v], sleepq[v], wakeup)
      BY <1>3, EarliestEach
    <2>3. \A x \in sleepq[v] : x \in Resumables /\ wakeup'[x] = wakeup[x]
      BY <1>0, <1>1, <1>4
    <2>4. CASE v # w
      BY <1>0, <1>5, <2>1, <2>2, <2>3, <2>4 DEF Earliest
    <2>5. CASE v = w
      <3>1. sleepq'[v] = sleepq[v] \cup {r}
        BY <1>0, <2>1, <2>5
      <3>2. CASE next_wakeup[w] > d
        <4>1. next_wakeup'[v] = d
          BY <1>5, <2>5, <3>2 DEF Deadline
        <4>2. \A x \in sleepq[v] : d <= wakeup'[x]
          <5>1. \A x \in sleepq[v] : next_wakeup[v] <= wakeup[x] /\ wakeup[x] \in Int
            BY <1>0, <2>2 DEF Earliest, ClockOK
          <5> QED BY <1>0, <2>3, <2>5, <3>2, <5>1 DEF ClockOK
        <4> QED BY <1>0, <1>4, <3>1, <4>1, <4>2 DEF Earliest
      <3>3. CASE ~(next_wakeup[w] > d)
        <4>1. next_wakeup'[v] = next_wakeup[v] /\ next_wakeup[v] <= d
          BY <1>0, <1>5, <2>5, <3>3 DEF Deadline, ClockOK
        <4>2. sleepq[v] # {}
          BY <1>0, <2>2, <4>1 DEF Earliest
        <4>3. PICK x \in sleepq[v] : next_wakeup[v] = wakeup[x]
          BY <2>2, <4>2 DEF Earliest
        <4>4. \A y \in sleepq[v] : next_wakeup[v] <= wakeup'[y]
          BY <2>2, <2>3 DEF Earliest
        <4> QED BY <1>4, <2>3, <3>1, <4>1, <4>3, <4>4 DEF Earliest
      <3> QED BY <3>2, <3>3
    <2> QED BY <2>4, <2>5
  <1>8. NextWakeupIsEarliest'
    BY <1>7 DEF NextWakeupIsEarliest, Earliest
  <1> QED BY <1>6, <1>8

LEMMA DrainDeadline ==
  ASSUME IInv, ClockOK, NextWakeupIsEarliest, NEW w \in Workers, Drain(w)
  PROVE  ClockOK' /\ NextWakeupIsEarliest'
  <1>0. /\ sleepq \in [Workers -> SUBSET Resumables]
        /\ Slack \in Nat /\ Never \in Nat /\ MaxLag \in Nat
    BY ClockAssumption DEF IInv, Types, QueueTypes
  <1>1. /\ sleepq' = [sleepq EXCEPT ![w] = @ \ Due(w)]
        /\ next_wakeup' = [next_wakeup EXCEPT ![w] = NextWakeup(w, sleepq[w] \ Due(w))]
        /\ wakeup' = wakeup /\ aborted' = aborted /\ ~aborted
    BY DEF Drain, endVars
  <1>2. Earliest(next_wakeup[w], sleepq[w], wakeup)
    BY <1>1, EarliestEach
  <1>3. PICK L \in SUBSET sleepq[w] : L = sleepq[w] \ Due(w)
    OBVIOUS
  <1>4. NextWakeup(w, L) \in Int /\ Earliest(NextWakeup(w, L), L, wakeup)
    <2>1. CASE next_wakeup[w] > Slack
      <3>1. L = sleepq[w] /\ NextWakeup(w, L) = next_wakeup[w]
        BY <1>3, <2>1 DEF Due, NextWakeup
      <3> QED BY <1>2, <3>1 DEF ClockOK
    <2>2. CASE ~(next_wakeup[w] > Slack) /\ L = {}
      BY <1>0, <2>2 DEF NextWakeup, Earliest
    <2>3. CASE ~(next_wakeup[w] > Slack) /\ L # {}
      <3> DEFINE T == {wakeup[r] : r \in L}
      <3>1. T # {} /\ T \subseteq Int /\ \A t \in T : -MaxLag <= t
        BY <1>0, <2>3 DEF ClockOK
      <3>2. PICK m \in T : \A t \in T : m <= t
        <4>1. -MaxLag \in Int
          BY <1>0
        <4> HIDE DEF T
        <4> QED BY <3>1, <4>1, LeastElement
      <3>3. \A r \in L : m <= wakeup[r]
        BY <3>2
      <3>4. NextWakeup(w, L) = CHOOSE t \in T : \A r \in L : t <= wakeup[r]
        BY <2>3 DEF NextWakeup
      <3>5. PICK n \in T : n = NextWakeup(w, L) /\ \A r \in L : n <= wakeup[r]
        BY <3>2, <3>3, <3>4
      <3>6. \E r \in L : n = wakeup[r]
        OBVIOUS
      <3> QED BY <2>3, <3>1, <3>5, <3>6 DEF Earliest
    <2> QED BY <2>1, <2>2, <2>3
  <1>5. PICK n \in Int : n = NextWakeup(w, L) /\ Earliest(n, L, wakeup)
    BY <1>4
  <1>6. sleepq' = [sleepq EXCEPT ![w] = L] /\ next_wakeup' = [next_wakeup EXCEPT ![w] = n]
    BY <1>1, <1>3, <1>5
  <1>7. ClockOK'
    BY <1>0, <1>1, <1>6 DEF ClockOK
  <1>8. ASSUME NEW v \in Workers
        PROVE  Earliest(next_wakeup'[v], sleepq'[v], wakeup')
    <2>1. CASE v = w
      BY <1>0, <1>1, <1>5, <1>6, <2>1 DEF ClockOK
    <2>2. CASE v # w
      <3>1. next_wakeup'[v] = next_wakeup[v] /\ sleepq'[v] = sleepq[v]
        BY <1>0, <1>6, <2>2 DEF ClockOK
      <3> QED BY <1>1, <3>1, EarliestEach
    <2> QED BY <2>1, <2>2
  <1> QED BY <1>7, <1>8 DEF NextWakeupIsEarliest, Earliest

LEMMA TickDeadline ==
  ASSUME IInv, ClockOK, NextWakeupIsEarliest, Tick
  PROVE  ClockOK' /\ NextWakeupIsEarliest'
  <1>0. /\ sleepq \in [Workers -> SUBSET Resumables]
        /\ Never \in Nat /\ MaxLag \in Nat
    BY ClockAssumption DEF IInv, Types, QueueTypes
  <1> DEFINE asleep == UNION {sleepq[w] : w \in Workers}
  <1>1. /\ ~aborted /\ aborted' = aborted /\ sleepq' = sleepq
        /\ \A r \in asleep : wakeup[r] > -MaxLag
        /\ wakeup' = [r \in Resumables |-> IF r \in asleep THEN wakeup[r] - 1 ELSE wakeup[r]]
        /\ next_wakeup' = [w \in Workers |-> IF next_wakeup[w] = Never THEN Never
                                             ELSE next_wakeup[w] - 1]
    BY DEF Tick, endVars
  <1>2. \A w \in Workers : sleepq[w] \subseteq asleep
    OBVIOUS
  <1> HIDE DEF asleep
  <1>3. /\ wakeup' \in [Resumables -> Int] /\ next_wakeup' \in [Workers -> Int]
    BY <1>0, <1>1 DEF ClockOK
  <1>4. ASSUME NEW w \in Workers, NEW r \in sleepq[w]
        PROVE  /\ wakeup'[r] = wakeup[r] - 1 /\ wakeup[r] \in Int
               /\ wakeup'[r] >= -MaxLag /\ wakeup'[r] < Never
    <2>1. r \in Resumables /\ r \in asleep
      BY <1>0, <1>2
    <2>2. wakeup[r] \in Int /\ wakeup[r] > -MaxLag /\ wakeup[r] < Never
      BY <1>1, <2>1 DEF ClockOK
    <2>3. wakeup'[r] = wakeup[r] - 1
      BY <1>1, <2>1
    <2> QED BY <1>0, <2>2, <2>3
  <1>5. ASSUME NEW w \in Workers
        PROVE  Earliest(next_wakeup'[w], sleepq'[w], wakeup')
    <2>1. Earliest(next_wakeup[w], sleepq[w], wakeup) /\ next_wakeup[w] \in Int
      BY <1>1, EarliestEach DEF ClockOK
    <2>2. CASE sleepq[w] = {}
      BY <1>1, <2>1, <2>2 DEF Earliest
    <2>3. CASE sleepq[w] # {}
      <3>1. PICK x \in sleepq[w] : next_wakeup[w] = wakeup[x]
        BY <2>1, <2>3 DEF Earliest
      <3>2. next_wakeup[w] # Never
        BY <1>0, <3>1 DEF ClockOK
      <3>3. next_wakeup'[w] = next_wakeup[w] - 1
        BY <1>1, <3>2
      <3>4. \A r \in sleepq[w] : next_wakeup'[w] <= wakeup'[r]
        BY <1>4, <2>1, <3>3 DEF Earliest
      <3>5. next_wakeup'[w] = wakeup'[x]
        BY <1>4, <3>1, <3>3
      <3> QED BY <1>1, <2>3, <3>4, <3>5 DEF Earliest
    <2> QED BY <2>2, <2>3
  <1>6. ClockOK'
    BY <1>1, <1>3, <1>4 DEF ClockOK
  <1> QED BY <1>5, <1>6 DEF NextWakeupIsEarliest, Earliest

\* next_wakeup is always the earliest wakeup time of the worker's sleep queue:
\* sleep_for brings it forward, _drain_sleep_queue moves it on to the first
\* sleeper left, and the clock moves it and the sleepers together.
THEOREM EarliestWakeup == Spec => []NextWakeupIsEarliest
  <1>1. Init => ClockOK /\ NextWakeupIsEarliest
    BY ClockAssumption DEF Init, ClockOK, NextWakeupIsEarliest
  <1>2. IInv /\ ClockOK /\ NextWakeupIsEarliest /\ [Next]_vars
          => ClockOK' /\ NextWakeupIsEarliest'
    <2> SUFFICES ASSUME IInv, ClockOK, NextWakeupIsEarliest, [Next]_vars
                 PROVE  ClockOK' /\ NextWakeupIsEarliest'
      OBVIOUS
    <2>1. \/ UNCHANGED <<sleepVars, aborted>>
          \/ Tick
          \/ \E w \in Workers : Drain(w)
          \/ \E w \in Workers, d \in Durations : TaskSleep(w, d)
      BY DEF Next, vars, Spawn, SpawnElsewhere, Call, PushExternal, Signal, Work,
           Poll, PollInterrupted, Pop, Task, Make, TaskDone, TaskResumeLater,
           TaskAwaitPort, TaskWait, TaskBlock, TaskUnblock, Aborted, endVars
    <2>2. CASE UNCHANGED <<sleepVars, aborted>>
      BY <2>2 DEF sleepVars, ClockOK, NextWakeupIsEarliest
    <2> QED BY <2>1, <2>2, TickDeadline, DrainDeadline, SleepDeadline
  <1> QED BY <1>1, <1>2, Invariant, PTL DEF Spec

----------------------------------------------------------------------------
(***************************************************************************)
(* The workers implement the life cycle of a resumable.                    *)
(***************************************************************************)

\* Some worker is inside the resume of r.
Runner(r) == \E w \in Workers : current[w] = <<"run", r>>

\* The stage of a resumable that does not run is that of its owner.
StageAgrees ==
  \A r \in Resumables : \A q \in Owners :
    At(r, q) => Stage(r) = IF Runner(r) THEN "running" ELSE OwnerStage(q)

LEMMA StageByOwner ==
  ASSUME IInv
  PROVE  StageAgrees
  <1> SUFFICES ASSUME NEW r \in Resumables, NEW q \in Owners, At(r, q)
               PROVE  Stage(r) = IF Runner(r) THEN "running" ELSE OwnerStage(q)
    BY DEF StageAgrees
  <1>1. CASE Runner(r)
    BY <1>1 DEF Stage, Runner
  <1>2. CASE ~Runner(r)
    <2>1. ASSUME NEW w \in Workers
          PROVE  <<"run", r>> \in ToSet(external[w] \o ready[w])
                   <=> (q = <<"external", w, "run">> \/ q = <<"ready", w, "run">>)
      <3>1. external[w] \in Seq(Items) /\ ready[w] \in Seq(Items)
        BY DEF IInv, Types, QueueTypes
      <3>2. external[w] \o ready[w] \in Seq(Items)
        BY <3>1, ConcatProperties
      <3>3. <<"run", r>> \in ToSet(external[w] \o ready[w])
              <=> Contains(external[w] \o ready[w], <<"run", r>>)
        BY <3>2, ContainsPositions
      <3>4. Contains(external[w] \o ready[w], <<"run", r>>)
              <=> (Contains(external[w], <<"run", r>>) \/ Contains(ready[w], <<"run", r>>))
        BY <3>1, ContainsConcat
      <3>5. /\ Contains(external[w], <<"run", r>>) <=> q = <<"external", w, "run">>
            /\ Contains(ready[w], <<"run", r>>) <=> q = <<"ready", w, "run">>
        BY DEF At, Kinds
      <3> QED BY <3>3, <3>4, <3>5
    <2>2. /\ r \in done <=> q = <<"done", None, None>>
          /\ r \in lost <=> q = <<"lost", None, None>>
          /\ r \in fresh <=> q = <<"fresh", None, None>>
          /\ r \in waiting <=> q = <<"waiting", None, None>>
          /\ \A w \in Workers : r \in sleepq[w] <=> q = <<"sleep", w, None>>
          /\ \A w \in Workers, f \in Fds : epoll[w][f] = r <=> q = <<"epoll", w, f>>
          /\ \A t \in Threads : call[t].item = <<"run", r>> <=> q = <<"call", t, "run">>
      BY DEF At, Kinds
    <2> DEFINE D == q = <<"done", None, None>>
               L == q = <<"lost", None, None>>
               F == q = <<"fresh", None, None>>
               B == \/ q = <<"waiting", None, None>>
                    \/ \E w \in Workers : q = <<"sleep", w, None>>
                    \/ \E w \in Workers, f \in Fds : q = <<"epoll", w, f>>
                    \/ \E t \in Threads : q = <<"call", t, "run">>
               Q == \E w \in Workers : \/ q = <<"external", w, "run">>
                                       \/ q = <<"ready", w, "run">>
    <2>3. Stage(r) = CASE D -> "done" [] L -> "lost" [] F -> "new" [] B -> "blocked"
                       [] Q -> "queued" [] OTHER -> "spawning"
      <3>1. B <=> \/ r \in waiting
                  \/ \E w \in Workers : r \in sleepq[w]
                  \/ \E w \in Workers, f \in Fds : epoll[w][f] = r
                  \/ \E t \in Threads : call[t].item = <<"run", r>>
        BY <2>2
      <3>2. Q <=> \E w \in Workers : <<"run", r>> \in ToSet(external[w] \o ready[w])
        BY <2>1
      <3> HIDE DEF B, Q
      <3> QED BY <1>2, <2>2, <3>1, <3>2 DEF Stage, Runner
    <2>4. CASE D
      <3>1. ~L /\ ~F /\ ~B /\ ~Q
        BY <2>4
      <3>2. OwnerStage(q) = "done"
        BY <2>4, Stages
      <3> HIDE DEF B, D, L, F, Q
      <3> QED BY <1>2, <2>3, <2>4, <3>1, <3>2
    <2>5. CASE L
      <3>1. ~D /\ ~F /\ ~B /\ ~Q
        BY <2>5
      <3>2. OwnerStage(q) = "lost"
        BY <2>5, Stages
      <3> HIDE DEF B, D, L, F, Q
      <3> QED BY <1>2, <2>3, <2>5, <3>1, <3>2
    <2>6. CASE F
      <3>1. ~D /\ ~L /\ ~B /\ ~Q
        BY <2>6
      <3>2. OwnerStage(q) = "new"
        BY <2>6, Stages
      <3> HIDE DEF B, D, L, F, Q
      <3> QED BY <1>2, <2>3, <2>6, <3>1, <3>2
    <2>7. CASE B
      <3>1. ~D /\ ~L /\ ~F /\ ~Q
        BY <2>7
      <3>2. OwnerStage(q) = "blocked"
        BY <2>7, Stages
      <3> HIDE DEF B, D, L, F, Q
      <3> QED BY <1>2, <2>3, <2>7, <3>1, <3>2
    <2>8. CASE Q
      <3>1. ~D /\ ~L /\ ~F /\ ~B
        BY <2>8
      <3>2. OwnerStage(q) = "queued"
        BY <2>8, Stages
      <3> HIDE DEF B, D, L, F, Q
      <3> QED BY <1>2, <2>3, <2>8, <3>1, <3>2
    <2>9. CASE ~D /\ ~L /\ ~F /\ ~B /\ ~Q
      <3>1. OwnerStage(q) = "spawning"
        <4>1. \A w \in Workers : q # <<"task", w, "run">>
          BY <1>2 DEF At, Runner, Kinds
        <4> QED BY <2>9, <4>1, OwnerCases, Stages DEF Kinds
      <3> HIDE DEF B, D, L, F, Q
      <3> QED BY <1>2, <2>3, <2>9, <3>1
    <2> QED BY <2>4, <2>5, <2>6, <2>7, <2>8, <2>9
  <1> QED BY <1>1, <1>2

\* A step of the workers moves a resumable along the life cycle, if at all.
LEMMA StageMoves ==
  ASSUME IInv, IInv', StageAgrees, StageAgrees', [Next]_vars, NEW r \in Resumables
  PROVE  /\ Stage(r)' \in LC!Stages
         /\ Stage(r)' # Stage(r) => <<Stage(r), Stage(r)'>> \in LC!Moves
  <1>1. PICK q \in Owners, p \in Owners : At(r, q) /\ At(r, p)' /\ Legal(r, q, p)
    BY NextMoves DEF Moved
  <1>2. /\ Stage(r) = IF Runner(r) THEN "running" ELSE OwnerStage(q)
        /\ Stage(r)' = IF Runner(r)' THEN "running" ELSE OwnerStage(p)
    BY <1>1 DEF StageAgrees
  <1>3. OwnerStage(q) \in LC!Stages /\ OwnerStage(p) \in LC!Stages
    BY OwnerCases, Stages DEF LC!Stages, Kinds
  <1>4. OwnerStage(q) = OwnerStage(p) \/ <<OwnerStage(q), OwnerStage(p)>> \in LC!Moves
    BY <1>1 DEF Legal
  <1>5. CASE Runner(r) <=> Runner(r)'
    BY <1>2, <1>3, <1>4, <1>5 DEF LC!Stages
  <1>6. CASE ~Runner(r) /\ Runner(r)'
    <2>1. PICK w \in Workers : current'[w] = <<"run", r>>
      BY <1>6 DEF Runner
    <2>2. current[w] # <<"run", r>>
      BY <1>6 DEF Runner
    <2>3. pc'[w] \in {"task", "blocking"}
      BY <2>1, NoneIsNoItem DEF IInv, Types, PointsOK, Kinds
    <2>4. pc'[w] # "blocking"
      <3>1. TaskWait(w) => current' = current
        BY DEF TaskWait
      <3> QED BY <2>1, <2>2, <3>1, StartsToYield
    <2>5. p = <<"task", w, "run">>
      BY <1>1, <2>1, <2>3, <2>4 DEF At, Kinds
    <2>6. OwnerStage(p) = "running"
      BY <2>5, Stages
    <2>7. OwnerStage(q) # "running"
      <3>1. \A v \in Workers : q # <<"task", v, "run">>
        BY <1>1, <1>6 DEF At, Runner, Kinds
      <3> QED BY <3>1, OwnerCases, Stages DEF Kinds
    <2> QED BY <1>2, <1>4, <1>6, <2>6, <2>7 DEF LC!Stages
  <1>7. CASE Runner(r) /\ ~Runner(r)'
    <2>1. PICK w \in Workers : current[w] = <<"run", r>>
      BY <1>7 DEF Runner
    <2>2. pc[w] \in {"task", "blocking"}
      BY <2>1, NoneIsNoItem DEF IInv, Types, PointsOK, Kinds
    <2>3. CASE pc[w] = "task"
      <3>1. q = <<"task", w, "run">>
        BY <1>1, <2>1, <2>3 DEF At, Kinds
      <3>2. OwnerStage(q) = "running"
        BY <3>1, Stages
      <3> QED BY <1>2, <1>3, <1>4, <1>7, <3>2
    <2>4. CASE pc[w] = "blocking"
      <3>1. PICK x \in Resumables, q1 \in Released : current[w] = <<"run", x>> /\ At(x, q1)
        BY <2>4 DEF IInv, YieldsNext
      <3>2. x = r /\ q1 \in Owners
        BY <2>1, <3>1 DEF Released, Owners, Kinds
      <3>3. q \in Released
        BY <1>1, <3>1, <3>2, OneAt
      <3>4. p \in Released \/ p = <<"ready", attached[r], "run">>
        BY <1>1, <3>3 DEF Legal
      <3>5. OwnerStage(p) \in {"blocked", "queued"}
        BY <3>4, Stages DEF Released
      <3> QED BY <1>2, <1>7, <3>5 DEF LC!Stages, LC!Moves
    <2> QED BY <2>2, <2>3, <2>4
  <1> QED BY <1>5, <1>6, <1>7

\* Whatever queues, reactors and calls a resumable passes through, it is
\* spawned once, runs only after it was queued, is queued again before a
\* blocked one runs, and never comes back when it is done.
THEOREM RefinesLifecycle == Spec => ImplementsLifecycle
  <1>1. Init => LC!Init
    <2> SUFFICES ASSUME Init PROVE \A r \in Resumables : Stage(r) = "new"
      BY DEF LC!Init
    <2> TAKE r \in Resumables
    <2>1. StageAgrees
      BY InitIInv, StageByOwner
    <2>2. PICK q \in Owners : At(r, q)
      BY InitIInv DEF IInv, Located
    <2>3. q = <<"fresh", None, None>>
      BY <2>2 DEF Init, At
    <2>4. ~Runner(r)
      BY NoneIsNoItem DEF Init, Runner, Kinds
    <2> QED BY <2>1, <2>2, <2>3, <2>4, Stages DEF StageAgrees
  <1>2. IInv => StageAgrees
    BY StageByOwner
  <1>3. IInv /\ IInv' /\ StageAgrees /\ StageAgrees' /\ [Next]_vars
          => [LC!Next]_([r \in Resumables |-> Stage(r)])
    BY StageMoves DEF LC!Next
  <1> QED BY <1>1, <1>2, <1>3, Invariant, PTL DEF Spec, ImplementsLifecycle, LC!Spec

============================================================================
