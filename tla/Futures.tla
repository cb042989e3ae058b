------------------------------ MODULE Futures ------------------------------
(***************************************************************************)
(* Futures, promises and the latch (core/future, core/latch).  A promise   *)
(* and its future share a state; a continuation is a callback on the state *)
(* that holds the promise of the next one, and runs under the spin lock of *)
(* its state, or as a task of a shard.                                     *)
(*                                                                         *)
(* Promise n is made with state n.  Promise 1 is that of a latch.  A       *)
(* thread's stack has the states it has locked and the task it runs; todo  *)
(* is the promise::set it is in.                                           *)
(***************************************************************************)
EXTENDS Naturals, Sequences, FiniteSets, SequencesExt

CONSTANTS
  Threads,   \* who counts down, sets, chains and runs tasks
  Count,     \* what the latch starts from
  Amounts,   \* what count_down is given
  MaxStates  \* bound: promises that are made

ASSUME FuturesAssumption ==
  /\ Count \in Nat \ {0} /\ Amounts \subseteq Nat \ {0}
  /\ MaxStates \in Nat /\ MaxStates >= 2

Ids == 1 .. MaxStates

VARIABLES
  value,     \* per state: _value
  callback,  \* per state: the callback, what it was, or << >>
  own,       \* per promise: its _state, 0 once it was moved away
  isSet,     \* per promise: kValueSet
  gone,      \* the promises that were destroyed
  futures,   \* the futures that programs hold
  used,      \* how many promises were made
  tasks,     \* continuations posted to a shard
  stack, todo,  \* per thread, see above
  count,     \* latch::_count
  cas,       \* per thread: the count_down it is in
  runs       \* history, per promise: how often its continuation was called

vars == <<value, callback, own, isSet, gone, futures, used, tasks, stack, todo,
          count, cas, runs>>

chain == <<callback, futures, used, tasks, runs>>
latch == <<count, cas>>

Init ==
  /\ value = [s \in Ids |-> "none"]
  /\ callback = [s \in Ids |-> << >>]
  /\ own = [p \in Ids |-> p]
  /\ isSet = [p \in Ids |-> FALSE]
  /\ gone = {}
  /\ futures = {1, 2}
  /\ used = 2
  /\ tasks = << >>
  /\ stack = [t \in Threads |-> << >>]
  /\ todo = [t \in Threads |-> << >>]
  /\ count = Count
  /\ cas = [t \in Threads |-> << >>]
  /\ runs = [p \in Ids |-> 0]

----------------------------------------------------------------------------
Ready(s) == value[s] # "none"
IsException(s) == value[s] \in {"exception", "broken"}

\* spin_lock
Locked(s) == \E t \in Threads : \E i \in DOMAIN stack[t] : stack[t][i] = <<"state", s>>

Idle(t) == stack[t] = << >> /\ todo[t] = << >> /\ cas[t] = << >>

Top(t) == Last(stack[t])

\* The threads in promise::set of promise p.
Setting(p) == {t \in Threads : todo[t] # << >> /\ todo[t][1] = p}

\* Thread t is in the callback or the task on top of its stack.
Within(t, kind) == todo[t] = << >> /\ stack[t] # << >> /\ Top(t)[1] = kind

Push(t, frame) == stack' = [stack EXCEPT ![t] = Append(@, frame)]
Pop(t) == stack' = [stack EXCEPT ![t] = SubSeq(@, 1, Len(@) - 1)]

\* What a function may return: a value, an exception it throws, or a future.
Results == {<<"value">>, <<"exception">>} \cup {<<"future", f>> : f \in futures}

\* Calling the continuation of promise q: the future it returns is moved.
Called(t, q, r) ==
  /\ runs' = [runs EXCEPT ![q] = @ + 1]
  /\ todo' = [todo EXCEPT ![t] = <<q, r>>]

----------------------------------------------------------------------------
(***************************************************************************)
(* promise::set and ~promise.                                              *)
(***************************************************************************)

\* A program sets its promise.
Set(t, r) ==
  /\ Idle(t)
  /\ 2 \notin gone
  /\ Setting(2) = {}
  /\ todo' = [todo EXCEPT ![t] = <<2, r>>]
  /\ UNCHANGED <<value, own, isSet, gone, chain, stack, latch>>

\* ~promise breaks the promise unless it has no state or one that is ready.
Breaks(p) == own[p] # 0 /\ value[own[p]] = "none"

\* A program destroys it, set or not.
Drop(t) ==
  /\ Idle(t)
  /\ 2 \notin gone
  /\ Setting(2) = {}
  /\ gone' = gone \cup {2}
  /\ todo' = [todo EXCEPT ![t] = IF Breaks(2) THEN <<2, <<"broken">>>> ELSE << >>]
  /\ UNCHANGED <<value, own, isSet, chain, stack, latch>>

\* shared_state::set: the value is stored with the lock held, which then
\* stays held while the callback runs.
Store(t, p, v) ==
  /\ ~Locked(own[p])
  /\ value' = [value EXCEPT ![own[p]] = v]
  /\ Push(t, <<"state", own[p]>>)
  /\ UNCHANGED own

\* Bug: kValueSet is not looked at.
SetsAgain(t) ==
  /\ todo[t] # << >>
  /\ todo' = [todo EXCEPT ![t] = << >>]
  /\ todo[t][2][1] # "future" /\ Store(t, todo[t][1], todo[t][2][1])
  /\ isSet' = [isSet EXCEPT ![todo[t][1]] = TRUE]
  /\ UNCHANGED <<gone, chain, latch>>

\* future::extract_into_shared_state, into that of promise p.  A future that is
\* ready gives its value; if it holds an exception, that is thrown with the
\* promise's state already moved away; if it is not ready, the promise takes
\* over its state.
ExtractIntoSharedState(t, p, f) ==
  LET Moved(new) == own' = [own EXCEPT ![p] = new] /\ UNCHANGED <<value, stack>>
  IN \/ value[f] = "value" /\ Store(t, p, "value")
     \/ IsException(f) /\ Moved(0)
     \/ ~Ready(f) /\ Moved(f)

\* The promise::set a thread is in.  A second one throws.
DoSet(t) ==
  /\ todo[t] # << >>
  /\ todo' = [todo EXCEPT ![t] = << >>]
  /\ LET p == todo[t][1]
         r == todo[t][2]
     IN \/ r[1] = "broken" /\ Store(t, p, "broken") /\ UNCHANGED isSet
        \/ r[1] # "broken" /\ isSet[p] /\ UNCHANGED <<value, own, stack, isSet>>
        \/ /\ r[1] # "broken" /\ ~isSet[p]
           /\ isSet' = [isSet EXCEPT ![p] = TRUE]
           /\ \/ r[1] # "future" /\ Store(t, p, r[1])
              \/ r[1] = "future" /\ ExtractIntoSharedState(t, p, r[2])
  /\ UNCHANGED <<gone, chain, latch>>

----------------------------------------------------------------------------
(***************************************************************************)
(* Continuations.                                                          *)
(***************************************************************************)

\* maybe_callback: the callback of the state on top of the stack runs.  An
\* exception goes straight to the next promise; a continuation is called, or
\* posted to its shard.
RunCallback(t) ==
  /\ Within(t, "state")
  /\ LET s    == Top(t)[2]
         kind == callback[s][1]
         q    == callback[s][2]
     IN /\ callback[s] # << >> /\ kind # "ran"
        /\ \/ /\ IsException(s)
              /\ todo' = [todo EXCEPT ![t] = <<q, <<"exception">>>>]
              /\ callback' = [callback EXCEPT ![s] = <<"ran", q>>]
              /\ UNCHANGED <<runs, tasks, futures>>
           \/ /\ ~IsException(s) /\ kind = "inline"
              /\ \E r \in Results :
                   /\ Called(t, q, r)
                   /\ futures' = IF r[1] = "future" THEN futures \ {r[2]} ELSE futures
              /\ callback' = [callback EXCEPT ![s] = <<"ran", q>>]
              /\ UNCHANGED tasks
           \/ /\ ~IsException(s) /\ kind = "post"
              /\ tasks' = Append(tasks, q)
              /\ callback' = [callback EXCEPT ![s] = << >>]
              /\ UNCHANGED <<todo, runs, futures>>
  /\ UNCHANGED <<value, own, isSet, gone, used, stack, latch>>

\* The function object is destroyed with the promise q it holds.
Destroy(t, q) ==
  /\ gone' = gone \cup {q}
  /\ todo' = [todo EXCEPT ![t] = IF Breaks(q) THEN <<q, <<"broken">>>> ELSE << >>]

CallbackDone(t) ==
  /\ Within(t, "state")
  /\ LET s == Top(t)[2]
     IN /\ callback[s] # << >> /\ callback[s][1] = "ran"
        /\ Destroy(t, callback[s][2])
        /\ callback' = [callback EXCEPT ![s] = << >>]
  /\ UNCHANGED <<value, own, isSet, futures, used, tasks, stack, latch, runs>>

Unlock(t) ==
  /\ Within(t, "state")
  /\ callback[Top(t)[2]] = << >>
  /\ Pop(t)
  /\ UNCHANGED <<value, own, isSet, gone, chain, todo, latch>>

\* Bug: the continuation is added without looking whether the state is ready.
ThenWithoutCheck(t, f, kind) ==
  /\ Idle(t) /\ f \in futures /\ used < MaxStates /\ ~Locked(f)
  /\ used' = used + 1
  /\ futures' = (futures \ {f}) \cup {used + 1}
  /\ callback' = [callback EXCEPT ![f] = <<kind, used + 1>>]
  /\ UNCHANGED <<value, own, isSet, gone, tasks, stack, todo, latch, runs>>

\* shared_state::set_continuation of a state that is not ready: a callback with
\* the new promise q.
ThenLater(f, kind, q) ==
  /\ ~Ready(f)
  /\ callback' = [callback EXCEPT ![f] = <<kind, q>>]
  /\ used' = q /\ futures' = (futures \ {f}) \cup {q}
  /\ UNCHANGED <<value, gone, tasks, runs>>

\* make_ready_future: promise q is kept from the start, or the result is a
\* future there was.
ReadyMade(q, f, v) ==
  /\ value' = [value EXCEPT ![q] = v]
  /\ gone' = gone \cup {q}
  /\ used' = q /\ futures' = (futures \ {f}) \cup {q}
  /\ UNCHANGED <<callback, tasks>>

\* state::set_continuation of a state that is ready: the continuation runs at
\* once, or is posted, and an exception is passed on.
ThenNow(f, kind, q) ==
  /\ Ready(f)
  /\ \/ IsException(f) /\ ReadyMade(q, f, "exception") /\ UNCHANGED runs
     \/ /\ ~IsException(f) /\ kind = "inline"
        /\ runs' = [runs EXCEPT ![q] = 1]
        /\ \E v \in {"value", "exception"} : ReadyMade(q, f, v)
     \/ /\ ~IsException(f) /\ kind = "inline"
        /\ \E g \in futures \ {f} : futures' = futures \ {f}
        /\ UNCHANGED <<value, gone, used, callback, tasks, runs>>
     \/ /\ ~IsException(f) /\ kind = "post"
        /\ tasks' = Append(tasks, q)
        /\ used' = q /\ futures' = (futures \ {f}) \cup {q}
        /\ UNCHANGED <<value, gone, callback, runs>>

\* future::then.
Then(t, f, kind) ==
  /\ Idle(t)
  /\ f \in futures /\ used < MaxStates /\ ~Locked(f)
  /\ ThenLater(f, kind, used + 1) \/ ThenNow(f, kind, used + 1)
  /\ UNCHANGED <<own, isSet, stack, todo, latch>>

\* The shard runs a continuation that was posted to it.
RunTask(t) ==
  /\ Idle(t)
  /\ tasks # << >>
  /\ tasks' = Tail(tasks)
  /\ Push(t, <<"task", Head(tasks)>>)
  /\ \E r \in Results :
       /\ Called(t, Head(tasks), r)
       /\ futures' = IF r[1] = "future" THEN futures \ {r[2]} ELSE futures
  /\ UNCHANGED <<value, callback, own, isSet, gone, used, latch>>

TaskDone(t) ==
  /\ Within(t, "task")
  /\ Destroy(t, Top(t)[2])
  /\ Pop(t)
  /\ UNCHANGED <<value, own, isSet, chain, latch>>

----------------------------------------------------------------------------
(***************************************************************************)
(* The latch.                                                              *)
(***************************************************************************)

CountDown(t, amount) ==
  /\ Idle(t)
  /\ count > 0
  /\ cas' = [cas EXCEPT ![t] = <<count, amount>>]
  /\ UNCHANGED <<value, own, isSet, gone, chain, stack, todo, count>>

\* Bug: the count is taken down from what was read, whatever it is by now.
StoresCount(t) ==
  /\ cas[t] # << >>
  /\ LET new == IF cas[t][1] > cas[t][2] THEN cas[t][1] - cas[t][2] ELSE 0
     IN /\ count' = new
        /\ todo' = [todo EXCEPT ![t] = IF new = 0 THEN <<1, <<"value">>>> ELSE << >>]
  /\ cas' = [cas EXCEPT ![t] = << >>]
  /\ UNCHANGED <<value, own, isSet, gone, chain, stack>>

\* The compare-exchange of count_down; whoever reaches 0 sets the promise.
CompareExchange(t) ==
  /\ cas[t] # << >>
  /\ LET amount == cas[t][2]
         new    == IF count > amount THEN count - amount ELSE 0
     IN IF count = cas[t][1]
        THEN /\ count' = new
             /\ cas' = [cas EXCEPT ![t] = << >>]
             /\ todo' = [todo EXCEPT ![t] = IF new = 0 THEN <<1, <<"value">>>> ELSE << >>]
        ELSE /\ cas' = [cas EXCEPT ![t] = IF count = 0 THEN << >> ELSE <<count, amount>>]
             /\ UNCHANGED <<count, todo>>
  /\ UNCHANGED <<value, own, isSet, gone, chain, stack>>

\* What a thread does once it has begun.
Continue(t) ==
  \/ DoSet(t) \/ RunCallback(t) \/ CallbackDone(t) \/ Unlock(t)
  \/ RunTask(t) \/ TaskDone(t) \/ CompareExchange(t)

Begin(t) ==
  \/ \E r \in {<<"value">>, <<"exception">>} : Set(t, r)
  \/ Drop(t)
  \/ \E f \in futures, kind \in {"inline", "post"} : Then(t, f, kind)
  \/ \E amount \in Amounts : CountDown(t, amount)

Next == \E t \in Threads : Begin(t) \/ Continue(t)

\* Threads finish what they began, and a shard looks at its tasks in each round.
Spec ==
  /\ Init /\ [][Next]_vars
  /\ \A t \in Threads : WF_vars(Continue(t))
  /\ SF_vars(\E t \in Threads : RunTask(t))

----------------------------------------------------------------------------
(***************************************************************************)
(* Properties.                                                             *)
(***************************************************************************)

\* A state settles once: neither a second set nor the promise that is destroyed
\* changes a value that continuations may have seen, and no continuation is
\* called twice.  (A state that a second promise took over has two writers.)
SettlesOnce ==
  [][\A s \in Ids :
       /\ Ready(s) /\ (\A p \in Ids \ {s} : own[p] # s) => value'[s] = value[s]
       /\ runs'[s] <= 1]_vars

\* No continuation is forgotten: once a state is ready, whoever chains to it
\* at the same time, the future of its continuation becomes ready, with a value,
\* an exception or a broken promise.  (Not the future of a promise that lost the
\* state it was made with to the future it was set to: nothing completes it.)
ChainsComplete ==
  \A s, q \in Ids :
    (Ready(s) /\ callback[s] # << >> /\ callback[s][2] = q) ~> (Ready(q) \/ own[q] # q)

\* The latch's promise is set by one thread, once, when the count has reached 0,
\* although several count it down at once and past 0.
LatchOpensOnce ==
  /\ Cardinality(Setting(1)) <= 1
  /\ count = 0 <=> isSet[1] \/ Setting(1) # {}
  /\ ~(isSet[1] /\ Setting(1) # {})
=============================================================================
