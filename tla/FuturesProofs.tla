--------------------------- MODULE FuturesProofs ---------------------------
(***************************************************************************)
(* Theorems about Futures, for any number of threads, any count and any    *)
(* number of promises: the latch opens once, a state settles once and no   *)
(* continuation is called twice.                                           *)
(*                                                                         *)
(* All three rest on the same fact: at any moment a promise is held by one *)
(* callback, one task or one thread, so two threads are never in the set   *)
(* of the same promise.                                                    *)
(***************************************************************************)
EXTENDS Futures, TLAPS, SequenceTheorems, FiniteSetTheorems

\* The promises of continuations; 1 is the latch's and 2 the program's.
Conts == 3 .. MaxStates

Frames == ({"state"} \X Ids) \cup ({"task"} \X Conts)

Outcomes == {<<"value">>, <<"exception">>, <<"broken">>} \cup ({"future"} \X Ids)

Callbacks == {"inline", "post", "ran"} \X Conts

\* Every variable holds a value of its type.
TypeOK ==
  /\ value \in [Ids -> {"none", "value", "exception", "broken"}]
  /\ callback \in [Ids -> {<< >>} \cup Callbacks]
  /\ own \in [Ids -> {0} \cup Ids]
  /\ isSet \in [Ids -> BOOLEAN]
  /\ gone \subseteq Ids \ {1}
  /\ futures \subseteq Ids
  /\ used \in 2 .. MaxStates
  /\ tasks \in Seq(Conts)
  /\ stack \in [Threads -> Seq(Frames)]
  /\ todo \in [Threads -> {<< >>} \cup (Ids \X Outcomes)]
  /\ count \in Nat
  /\ cas \in [Threads -> {<< >>} \cup ((Nat \ {0}) \X (Nat \ {0}))]
  /\ runs \in [Ids -> Nat]

\* A spin lock is held once, and a task runs on one thread.
FramesOnce ==
  \A t, u \in Threads : \A i \in 1 .. Len(stack[t]), j \in 1 .. Len(stack[u]) :
    stack[t][i] = stack[u][j] => t = u /\ i = j

\* The promise of a continuation is held in one place.
HeldByCallback(s, q) == callback[s] # << >> /\ callback[s][2] = q
HeldByTask(i, q) == tasks[i] = q
HeldByFrame(t, i, q) == stack[t][i] = <<"task", q>>

HeldOnce ==
  \A q \in Conts :
    /\ \A s, z \in Ids : HeldByCallback(s, q) /\ HeldByCallback(z, q) => s = z
    /\ \A i, j \in 1 .. Len(tasks) : HeldByTask(i, q) /\ HeldByTask(j, q) => i = j
    /\ \A s \in Ids, i \in 1 .. Len(tasks) : ~(HeldByCallback(s, q) /\ HeldByTask(i, q))
    /\ \A t \in Threads : \A i \in 1 .. Len(stack[t]) :
         HeldByFrame(t, i, q) =>
           /\ \A s \in Ids : ~HeldByCallback(s, q)
           /\ \A j \in 1 .. Len(tasks) : ~HeldByTask(j, q)

\* A promise that is held was made and not destroyed.
HeldAlive ==
  \A q \in Conts :
    \/ \E s \in Ids : HeldByCallback(s, q)
    \/ \E i \in 1 .. Len(tasks) : HeldByTask(i, q)
    \/ \E t \in Threads : \E i \in 1 .. Len(stack[t]) : HeldByFrame(t, i, q)
    => q <= used /\ q \notin gone

\* A continuation is called by the callback or the task that holds its promise,
\* which has not called it before.
CalledOnce ==
  /\ \A q \in Ids : runs[q] <= 1
  /\ \A q \in Conts :
       \/ \E s \in Ids : HeldByCallback(s, q) /\ callback[s][1] # "ran"
       \/ \E i \in 1 .. Len(tasks) : HeldByTask(i, q)
       \/ q > used
       => runs[q] = 0

\* No promise but its own writes to state s.
OnlyOwner(s) == \A p \in Ids \ {s} : own[p] # s

\* A promise that was neither set nor destroyed has its own state, which is not
\* ready if nobody else writes to it; nor is the one a promise gave up.
Unsettled ==
  \A p \in Ids :
    /\ own[p] # p => isSet[p]
    /\ p > used => p \notin gone /\ ~isSet[p]
    /\ (p \notin gone /\ ~isSet[p]) \/ own[p] # p =>
         (OnlyOwner(p) => value[p] = "none")

\* A thread that counts down does nothing else.  The set a thread is in: the latch's, that of the program's promise, that of a
\* promise it holds, or the last one of a promise it has destroyed.
SetterOK(t) ==
  LET p == todo[t][1]
      r == todo[t][2]
  IN /\ stack[t] # << >> \/ todo[t] # << >> => cas[t] = << >>
     /\ todo[t] # << >> =>
          /\ p <= used
          /\ p = 1 => r[1] = "value"
          /\ r[1] # "broken" => p \notin gone
          /\ r[1] = "broken" =>
               /\ p \in gone
               /\ own[p] # 0
               /\ OnlyOwner(p) => value[p] = "none"
          /\ p \in Conts /\ r[1] # "broken" =>
               /\ stack[t] # << >>
               /\ \/ Top(t) = <<"task", p>>
                  \/ \E s \in Ids : Top(t) = <<"state", s>> /\ callback[s] = <<"ran", p>>

Setters ==
  /\ \A t \in Threads : SetterOK(t)
  /\ \A t, u \in Threads :
       todo[t] # << >> /\ todo[u] # << >> /\ todo[t][1] = todo[u][1] => t = u

Latch ==
  /\ count = 0 <=> isSet[1] \/ \E t \in Threads : todo[t] # << >> /\ todo[t][1] = 1
  /\ isSet[1] => \A t \in Threads : todo[t] # << >> => todo[t][1] # 1

\* The inductive invariant.
IInv ==
  /\ TypeOK /\ FramesOnce /\ HeldOnce /\ HeldAlive
  /\ CalledOnce /\ Unsettled /\ Setters /\ Latch

----------------------------------------------------------------------------
(***************************************************************************)
(* Facts about the values the variables take.                              *)
(***************************************************************************)

\* promise 1 and 2 are not those of a continuation, and the next one is.
LEMMA IdFacts ==
  /\ 1 \in Ids /\ 2 \in Ids /\ 1 \notin Conts /\ 2 \notin Conts
  /\ Conts \subseteq Ids /\ Conts \subseteq Nat /\ 0 \notin Ids
  /\ \A n \in 2 .. MaxStates : n < MaxStates => n + 1 \in Conts
BY FuturesAssumption DEF Ids, Conts

\* What a set is given: its kind, and the state of a future.
LEMMA OutcomeFacts ==
  ASSUME NEW r \in Outcomes
  PROVE  /\ r[1] \in {"value", "exception", "broken", "future"}
         /\ r[1] = "future" => r[2] \in Ids
BY DEF Outcomes

\* What a function returns can be set.
LEMMA ResultFacts ==
  ASSUME futures \subseteq Ids, NEW r \in Results
  PROVE  r \in Outcomes /\ r[1] # "broken"
BY DEF Outcomes, Results

\* What is on top of a stack.
LEMMA TopFacts ==
  ASSUME TypeOK, NEW t \in Threads, stack[t] # << >>
  PROVE  /\ Len(stack[t]) \in 1 .. Len(stack[t]) /\ Top(t) = stack[t][Len(stack[t])]
         /\ Top(t) \in Frames
<1>1. stack[t] \in Seq(Frames)
  BY DEF TypeOK
<1>2. Len(stack[t]) \in Nat /\ Len(stack[t]) # 0
  BY <1>1, LenProperties, EmptySeq
<1>3. QED
  BY <1>1, <1>2, ElementOfSeq DEF Top, Last

\* A frame that is pushed is on top, and the others stay.
LEMMA PushFacts ==
  ASSUME TypeOK, NEW t \in Threads, NEW f \in Frames, Push(t, f)
  PROVE  /\ stack' \in [Threads -> Seq(Frames)]
         /\ \A u \in Threads : u # t => stack'[u] = stack[u]
         /\ Len(stack[t]) \in Nat /\ Len(stack'[t]) = Len(stack[t]) + 1
         /\ \A i \in 1 .. Len(stack[t]) : stack'[t][i] = stack[t][i]
         /\ stack'[t][Len(stack[t]) + 1] = f
         /\ stack'[t] # << >> /\ Last(stack'[t]) = f
<1>1. stack[t] \in Seq(Frames) /\ stack \in [Threads -> Seq(Frames)]
  BY DEF TypeOK
<1>2. stack'[t] = Append(stack[t], f) /\ \A u \in Threads : u # t => stack'[u] = stack[u]
  BY <1>1 DEF Push
<1>3. /\ Append(stack[t], f) \in Seq(Frames)
      /\ Len(Append(stack[t], f)) = Len(stack[t]) + 1 /\ Len(stack[t]) \in Nat
      /\ \A i \in 1 .. Len(stack[t]) : Append(stack[t], f)[i] = stack[t][i]
      /\ Append(stack[t], f)[Len(stack[t]) + 1] = f
  BY <1>1, AppendProperties, LenProperties
<1>4. stack' \in [Threads -> Seq(Frames)]
  BY <1>1, <1>3 DEF Push
<1>5. stack'[t] # << >>
  <2>1. stack'[t] \in Seq(Frames) /\ Len(stack'[t]) # 0
    BY <1>2, <1>3
  <2>2. QED
    BY <2>1, EmptySeq
<1>6. QED
  BY <1>2, <1>3, <1>4, <1>5 DEF Last

\* A frame that is popped is gone, and the others stay.
LEMMA PopFacts ==
  ASSUME TypeOK, NEW t \in Threads, stack[t] # << >>, Pop(t)
  PROVE  /\ stack' \in [Threads -> Seq(Frames)]
         /\ \A u \in Threads : u # t => stack'[u] = stack[u]
         /\ Len(stack[t]) \in Nat \ {0} /\ Len(stack'[t]) = Len(stack[t]) - 1
         /\ \A i \in 1 .. Len(stack'[t]) : stack'[t][i] = stack[t][i]
<1>1. stack[t] \in Seq(Frames) /\ stack \in [Threads -> Seq(Frames)]
  BY DEF TypeOK
<1>2. Len(stack[t]) \in Nat /\ Len(stack[t]) # 0
  BY <1>1, LenProperties, EmptySeq
<1>3. PICK m \in Nat : m = Len(stack[t]) - 1
  BY <1>2
<1>4. stack'[t] = SubSeq(stack[t], 1, m) /\ \A u \in Threads : u # t => stack'[u] = stack[u]
  BY <1>1, <1>3 DEF Pop
<1>5. m \in 0 .. Len(stack[t])
  BY <1>2, <1>3
<1>6. /\ SubSeq(stack[t], 1, m) \in Seq(Frames)
      /\ Len(SubSeq(stack[t], 1, m)) = m
      /\ \A i \in 1 .. m : SubSeq(stack[t], 1, m)[i] = stack[t][i]
  <2>1. /\ \A i \in 1 .. m : stack[t][i] \in Frames /\ i \in 1 .. Len(stack[t])
    BY <1>1, <1>5, <1>2, ElementOfSeq
  <2>2. QED
    BY <1>1, <2>1, <1>5, <1>2, SubSeqProperties
<1>7. stack' \in [Threads -> Seq(Frames)]
  BY <1>1, <1>6, <1>3 DEF Pop
<1>8. QED
  BY <1>2, <1>3, <1>4, <1>6, <1>7

\* Two frames that are equal are one.
LEMMA SameFrame ==
  ASSUME FramesOnce, NEW u \in Threads, NEW w \in Threads,
         NEW i \in 1 .. Len(stack[u]), NEW j \in 1 .. Len(stack[w]), stack[u][i] = stack[w][j]
  PROVE  u = w /\ i = j
BY Zenon DEF FramesOnce

\* No thread has pushed what was not locked.
LEMMA LockFacts ==
  ASSUME TypeOK, NEW s, ~Locked(s)
  PROVE  \A u \in Threads : \A i \in 1 .. Len(stack[u]) : stack[u][i] # <<"state", s>>
<1>1. \A u \in Threads : stack[u] \in Seq(Frames) /\ DOMAIN stack[u] = 1 .. Len(stack[u])
  BY LenProperties DEF TypeOK
<1>2. QED
  BY <1>1 DEF Locked

----------------------------------------------------------------------------
(***************************************************************************)
(* Whoever holds a promise is the only one to set it.                      *)
(***************************************************************************)

\* The promise of a callback is set by the thread that runs the callback.
LEMMA CallbackAlone ==
  ASSUME TypeOK, HeldOnce, HeldAlive, Setters,
         NEW s \in Ids, NEW q \in Conts, HeldByCallback(s, q),
         NEW u \in Threads, todo[u] # << >>, todo[u][1] = q
  PROVE  stack[u] # << >> /\ Top(u) = <<"state", s>> /\ callback[s] = <<"ran", q>>
<1>1. SetterOK(u) /\ q \notin gone
  BY DEF Setters, HeldAlive
<1>2. /\ stack[u] # << >>
      /\ \/ Top(u) = <<"task", q>>
         \/ \E z \in Ids : Top(u) = <<"state", z>> /\ callback[z] = <<"ran", q>>
  BY <1>1 DEF SetterOK
<1>3. Top(u) # <<"task", q>>
  BY <1>2, TopFacts DEF HeldOnce, HeldByFrame
<1>4. PICK z \in Ids : Top(u) = <<"state", z>> /\ callback[z] = <<"ran", q>>
  BY <1>2, <1>3
<1>5. HeldByCallback(z, q)
  BY <1>4 DEF HeldByCallback
<1>6. z = s
  BY <1>5 DEF HeldOnce
<1>7. QED
  BY <1>2, <1>4, <1>6

\* Nobody sets the promise of a continuation that is queued.
LEMMA QueuedAlone ==
  ASSUME TypeOK, HeldOnce, HeldAlive, Setters,
         NEW i \in 1 .. Len(tasks), NEW q \in Conts, tasks[i] = q,
         NEW u \in Threads, todo[u] # << >>
  PROVE  todo[u][1] # q
<1> SUFFICES ASSUME todo[u][1] = q PROVE FALSE
  OBVIOUS
<1>1. SetterOK(u) /\ HeldByTask(i, q)
  BY DEF Setters, HeldByTask
<1>2. q \notin gone
  BY <1>1 DEF HeldAlive
<1>3. /\ stack[u] # << >>
      /\ \/ Top(u) = <<"task", q>>
         \/ \E z \in Ids : Top(u) = <<"state", z>> /\ callback[z] = <<"ran", q>>
  BY <1>1, <1>2 DEF SetterOK
<1>4. Top(u) # <<"task", q>>
  BY <1>1, <1>3, TopFacts DEF HeldOnce, HeldByFrame
<1>5. PICK z \in Ids : callback[z] = <<"ran", q>>
  BY <1>3, <1>4
<1>6. HeldByCallback(z, q)
  BY <1>5 DEF HeldByCallback
<1>7. QED
  BY <1>1, <1>6 DEF HeldOnce

\* The promise of a task is set by the thread that runs the task.
LEMMA TaskAlone ==
  ASSUME TypeOK, FramesOnce, HeldOnce, HeldAlive, Setters,
         NEW t \in Threads, NEW q \in Conts, stack[t] # << >>, Top(t) = <<"task", q>>,
         NEW u \in Threads, todo[u] # << >>, todo[u][1] = q
  PROVE  u = t
<1>1. /\ Len(stack[t]) \in 1 .. Len(stack[t])
      /\ stack[t][Len(stack[t])] = <<"task", q>>
  BY TopFacts
<1>2. SetterOK(u) /\ HeldByFrame(t, Len(stack[t]), q)
  BY <1>1 DEF Setters, HeldByFrame
<1>3. q \notin gone
  BY <1>1, <1>2 DEF HeldAlive
<1>4. /\ stack[u] # << >>
      /\ \/ Top(u) = <<"task", q>>
         \/ \E z \in Ids : Top(u) = <<"state", z>> /\ callback[z] = <<"ran", q>>
  BY <1>2, <1>3 DEF SetterOK
<1>5. \A z \in Ids : callback[z] # <<"ran", q>>
  BY <1>1, <1>2 DEF HeldOnce, HeldByCallback
<1>6. Top(u) = <<"task", q>> /\ Len(stack[u]) \in 1 .. Len(stack[u])
      /\ stack[u][Len(stack[u])] = <<"task", q>>
  BY <1>4, <1>5, TopFacts
<1>7. QED
  BY <1>1, <1>6 DEF FramesOnce

\* What the others are setting stays as it is.
LEMMA OtherSetter ==
  ASSUME NEW u \in Threads, SetterOK(u), used' >= used, used \in Nat, used' \in Nat,
         todo \in [Threads -> {<< >>} \cup (Ids \X Outcomes)],
         todo'[u] = todo[u], cas'[u] = cas[u], stack'[u] = stack[u],
         \A s \in Ids : stack[u] # << >> /\ Top(u) = <<"state", s>> => callback'[s] = callback[s],
         todo[u] # << >> =>
           /\ todo[u][1] \in gone' <=> todo[u][1] \in gone
           /\ todo[u][2][1] = "broken" =>
                /\ own'[todo[u][1]] # 0
                /\ OnlyOwner(todo[u][1])' => value'[todo[u][1]] = "none"
  PROVE  SetterOK(u)'
<1> SUFFICES ASSUME todo[u] # << >> PROVE SetterOK(u)'
  BY DEF SetterOK
<1> PICK p \in Ids, r \in Outcomes : p = todo[u][1] /\ r = todo[u][2]
  OBVIOUS
<1>0. p \in Nat
  BY FuturesAssumption DEF Ids
<1>1. /\ p <= used /\ cas[u] = << >>
      /\ p = 1 => r[1] = "value"
      /\ r[1] # "broken" => p \notin gone
      /\ r[1] = "broken" => p \in gone
  BY DEF SetterOK
<1>2. p <= used'
  BY <1>0, <1>1
<1>3. ASSUME p \in Conts, r[1] # "broken"
      PROVE  /\ stack'[u] # << >>
             /\ \/ Top(u)' = <<"task", p>>
                \/ \E s \in Ids : Top(u)' = <<"state", s>> /\ callback'[s] = <<"ran", p>>
  <2>1. /\ stack[u] # << >>
        /\ \/ Top(u) = <<"task", p>>
           \/ \E s \in Ids : Top(u) = <<"state", s>> /\ callback[s] = <<"ran", p>>
    BY <1>3 DEF SetterOK
  <2>2. Top(u)' = Top(u)
    BY DEF Top
  <2>3. QED
    BY <2>1, <2>2
<1>4. QED
  BY <1>1, <1>2, <1>3 DEF SetterOK

\* The setters differ if the new one sets what no other does.
LEMMA NewSetter ==
  ASSUME Setters, NEW t \in Threads, NEW q,
         todo'[t] = << >> \/ todo'[t][1] = q,
         \A u \in Threads : u # t => todo'[u] = todo[u],
         \A u \in Threads : u # t /\ todo[u] # << >> => todo'[t] = << >> \/ todo[u][1] # q,
         \A u \in Threads : SetterOK(u)'
  PROVE  Setters'
<1>1. ASSUME NEW u \in Threads, NEW w \in Threads, todo'[u] # << >>, todo'[w] # << >>,
             todo'[u][1] = todo'[w][1], u # w
      PROVE  FALSE
  <2>1. CASE u = t
    BY <1>1, <2>1
  <2>2. CASE w = t
    BY <1>1, <2>2
  <2>3. CASE u # t /\ w # t
    BY <1>1, <2>3 DEF Setters
  <2>4. QED
    BY <2>1, <2>2, <2>3
<1>2. QED
  BY <1>1 DEF Setters

----------------------------------------------------------------------------
(***************************************************************************)
(* The steps of a thread that begins something, and the latch's.           *)
(***************************************************************************)

LEMMA InitIInv == Init => IInv
<1> SUFFICES ASSUME Init PROVE IInv
  OBVIOUS
<1>1. TypeOK
  BY FuturesAssumption, IdFacts DEF Init, TypeOK, Ids
<1>2. FramesOnce /\ HeldOnce /\ HeldAlive
  BY DEF Init, FramesOnce, HeldOnce, HeldAlive, HeldByCallback, HeldByTask, HeldByFrame
<1>3. CalledOnce /\ Unsettled
  BY IdFacts DEF Init, CalledOnce, Unsettled, HeldByCallback, HeldByTask
<1>4. Setters /\ Latch
  BY FuturesAssumption, IdFacts DEF Init, Setters, SetterOK, Latch
<1>5. QED
  BY <1>1, <1>2, <1>3, <1>4 DEF IInv

\* Nothing that holds a promise changes.
LEMMA SameHolders ==
  ASSUME IInv, UNCHANGED <<callback, tasks, stack, used, runs>>,
         \A q \in Conts : q \in gone' => q \in gone
  PROVE  FramesOnce' /\ HeldOnce' /\ HeldAlive' /\ CalledOnce'
BY DEF IInv, FramesOnce, HeldOnce, HeldAlive, CalledOnce,
       HeldByCallback, HeldByTask, HeldByFrame

LEMMA Stutters == IInv /\ UNCHANGED vars => IInv'
<1> SUFFICES ASSUME IInv, UNCHANGED vars PROVE IInv'
  OBVIOUS
<1>1. FramesOnce' /\ HeldOnce' /\ HeldAlive' /\ CalledOnce'
  BY SameHolders DEF vars
<1>2. TypeOK'
  BY DEF IInv, vars, TypeOK
<1>3. Unsettled' /\ Setters' /\ Latch'
  BY DEF IInv, vars, Unsettled, Setters, SetterOK, OnlyOwner, Top, Latch
<1>4. QED
  BY <1>1, <1>2, <1>3 DEF IInv

LEMMA SetStep ==
  ASSUME IInv, NEW t \in Threads, NEW r \in {<<"value">>, <<"exception">>}, Set(t, r)
  PROVE  IInv'
<1> USE DEF IInv
<1>1. /\ todo' = [todo EXCEPT ![t] = <<2, r>>]
      /\ UNCHANGED <<value, own, isSet, gone, chain, stack, latch>>
      /\ 2 \notin gone /\ Idle(t) /\ Setting(2) = {}
  BY DEF Set
<1>2. r \in Outcomes /\ r[1] # "broken"
  BY DEF Outcomes
<1>3. TypeOK'
  BY <1>1, <1>2, IdFacts DEF TypeOK, chain, latch
<1>4. FramesOnce' /\ HeldOnce' /\ HeldAlive' /\ CalledOnce'
  BY <1>1, SameHolders DEF chain
<1>5. Unsettled'
  BY <1>1 DEF Unsettled, OnlyOwner, chain
<1>6. /\ todo'[t] = <<2, r>> /\ \A u \in Threads : u # t => todo'[u] = todo[u]
      /\ todo[t] = << >> /\ cas[t] = << >>
      /\ \A u \in Threads : todo[u] # << >> => todo[u][1] # 2
  BY <1>1 DEF TypeOK, Idle, Setting
<1>7. SetterOK(t)'
  BY <1>1, <1>2, <1>6, IdFacts DEF SetterOK, latch, chain, TypeOK
<1>8. \A u \in Threads : u # t => SetterOK(u)'
  BY <1>1, <1>6, OtherSetter DEF Setters, SetterOK, OnlyOwner, TypeOK, latch, chain, Top
<1>9. Setters'
  BY <1>6, <1>7, <1>8, NewSetter
<1>10. Latch'
  BY <1>1, <1>6 DEF Latch, latch
<1>11. QED
  BY <1>3, <1>4, <1>5, <1>9, <1>10

\* A promise that breaks has a state, which is not ready.
LEMMA BreaksFacts ==
  ASSUME TypeOK, Unsettled, NEW q \in Ids, Breaks(q)
  PROVE  own[q] # 0 /\ (OnlyOwner(q) => value[q] = "none")
<1>1. CASE own[q] = q
  BY <1>1 DEF Breaks
<1>2. CASE own[q] # q
  BY <1>2 DEF Breaks, Unsettled
<1>3. QED
  BY <1>1, <1>2

LEMMA DropStep ==
  ASSUME IInv, NEW t \in Threads, Drop(t)
  PROVE  IInv'
<1> USE DEF IInv
<1>1. /\ todo' = [todo EXCEPT ![t] = IF Breaks(2) THEN <<2, <<"broken">>>> ELSE << >>]
      /\ gone' = gone \cup {2}
      /\ UNCHANGED <<value, own, isSet, chain, stack, latch>>
      /\ 2 \notin gone /\ Idle(t) /\ Setting(2) = {}
  BY DEF Drop
<1>2. <<2, <<"broken">>>> \in Ids \X Outcomes
  BY IdFacts DEF Outcomes
<1>3. TypeOK'
  <2>1. todo' \in [Threads -> {<< >>} \cup (Ids \X Outcomes)]
    BY <1>1, <1>2 DEF TypeOK
  <2>2. gone' \subseteq Ids \ {1}
    BY <1>1, IdFacts DEF TypeOK
  <2>3. QED
    BY <1>1, <2>1, <2>2 DEF TypeOK, chain, latch
<1>4. FramesOnce' /\ HeldOnce' /\ HeldAlive' /\ CalledOnce'
  BY <1>1, SameHolders, IdFacts DEF chain
<1>5. Unsettled'
  <2>1. used \in 2 .. MaxStates /\ used' = used /\ gone' = gone \cup {2}
    BY <1>1 DEF TypeOK, chain
  <2>2. QED
    BY <1>1, <2>1, FuturesAssumption DEF Unsettled, OnlyOwner, chain
<1>6. /\ todo'[t] = << >> \/ (todo'[t] = <<2, <<"broken">>>> /\ Breaks(2))
      /\ \A u \in Threads : u # t => todo'[u] = todo[u]
      /\ todo[t] = << >> /\ cas[t] = << >>
      /\ \A u \in Threads : todo[u] # << >> => todo[u][1] # 2
  BY <1>1 DEF TypeOK, Idle, Setting
<1>7. SetterOK(t)'
  <2>1. CASE todo'[t] = << >>
    BY <1>1, <1>6, <2>1 DEF SetterOK, latch
  <2>2. CASE todo'[t] = <<2, <<"broken">>>> /\ Breaks(2)
    <3>1. own[2] # 0 /\ (OnlyOwner(2) => value[2] = "none")
      BY <2>2, BreaksFacts, IdFacts
    <3>2. own'[2] # 0 /\ (OnlyOwner(2)' => value'[2] = "none")
      BY <3>1, <1>1 DEF OnlyOwner
    <3>3. 2 \in gone' /\ 2 <= used' /\ cas'[t] = << >> /\ 2 \notin Conts
      BY <1>1, <1>6, IdFacts DEF TypeOK, latch, chain
    <3>4. QED
      BY <2>2, <3>2, <3>3 DEF SetterOK
  <2>3. QED
    BY <1>6, <2>1, <2>2
<1>8. \A u \in Threads : u # t => SetterOK(u)'
  BY <1>1, <1>6, OtherSetter DEF Setters, SetterOK, OnlyOwner, TypeOK, latch, chain, Top
<1>9. Setters'
  <2>1. todo'[t] = << >> \/ todo'[t][1] = 2
    BY <1>6
  <2>2. QED
    BY <1>6, <1>7, <1>8, <2>1, NewSetter
<1>10. Latch'
  BY <1>1, <1>6 DEF Latch, latch
<1>11. QED
  BY <1>3, <1>4, <1>5, <1>9, <1>10

LEMMA CountDownStep ==
  ASSUME IInv, NEW t \in Threads, NEW amount \in Amounts, CountDown(t, amount)
  PROVE  IInv'
<1> USE DEF IInv
<1>1. /\ cas' = [cas EXCEPT ![t] = <<count, amount>>]
      /\ UNCHANGED <<value, own, isSet, gone, chain, stack, todo, count>>
      /\ count > 0 /\ Idle(t)
  BY DEF CountDown
<1>2. <<count, amount>> \in (Nat \ {0}) \X (Nat \ {0})
  BY <1>1, FuturesAssumption DEF TypeOK
<1>3. TypeOK'
  BY <1>1, <1>2 DEF TypeOK, chain
<1>4. FramesOnce' /\ HeldOnce' /\ HeldAlive' /\ CalledOnce'
  BY <1>1, SameHolders DEF chain
<1>5. Unsettled' /\ Latch'
  BY <1>1 DEF Unsettled, OnlyOwner, chain, Latch
<1>6. todo'[t] = << >> /\ stack'[t] = << >> /\ \A u \in Threads : u # t => cas'[u] = cas[u]
  BY <1>1 DEF TypeOK, Idle
<1>7. \A u \in Threads : u # t => SetterOK(u)'
  BY <1>1, <1>6, OtherSetter DEF Setters, SetterOK, OnlyOwner, TypeOK, chain, Top
<1>8. Setters'
  BY <1>1, <1>6, <1>7 DEF Setters, SetterOK
<1>9. QED
  BY <1>3, <1>4, <1>5, <1>8

\* Whoever takes the count to 0 finds that nobody has set the promise.
LEMMA CompareExchangeStep ==
  ASSUME IInv, NEW t \in Threads, CompareExchange(t)
  PROVE  IInv'
<1> USE DEF IInv
<1>1. UNCHANGED <<value, own, isSet, gone, chain, stack>> /\ cas[t] # << >>
  BY DEF CompareExchange
<1>2. PICK old \in Nat \ {0}, amount \in Nat \ {0} : cas[t] = <<old, amount>>
  <2>1. cas[t] \in (Nat \ {0}) \X (Nat \ {0})
    BY <1>1 DEF TypeOK
  <2>2. QED
    BY <2>1
<1>3. todo[t] = << >> /\ stack[t] = << >>
  BY <1>1 DEF Setters, SetterOK
<1>4. PICK new \in Nat : new = IF count > amount THEN count - amount ELSE 0
  <2>1. count \in Nat
    BY DEF TypeOK
  <2>2. CASE count > amount
    <3>1. count - amount \in Nat
      BY <2>1, <2>2
    <3>2. QED
      BY <2>2, <3>1
  <2>3. CASE ~(count > amount)
    BY <2>3
  <2>4. QED
    BY <2>2, <2>3
<1>5. FramesOnce' /\ HeldOnce' /\ HeldAlive' /\ CalledOnce'
  BY <1>1, SameHolders DEF chain
<1>6. Unsettled'
  BY <1>1 DEF Unsettled, OnlyOwner, chain
<1>7. CASE count = old
  <2>1. /\ count' = new /\ cas' = [cas EXCEPT ![t] = << >>]
        /\ todo' = [todo EXCEPT ![t] = IF new = 0 THEN <<1, <<"value">>>> ELSE << >>]
    BY <1>2, <1>4, <1>7 DEF CompareExchange
  <2>2. <<"value">> \in Outcomes
    BY DEF Outcomes
  <2>3. TypeOK'
    BY <1>1, <2>1, <2>2, IdFacts DEF TypeOK, chain
  <2>4. /\ todo'[t] = IF new = 0 THEN <<1, <<"value">>>> ELSE << >>
        /\ \A u \in Threads : u # t => todo'[u] = todo[u] /\ cas'[u] = cas[u]
        /\ cas'[t] = << >>
    BY <2>1 DEF TypeOK
  <2>5. ~isSet[1] /\ \A u \in Threads : todo[u] # << >> => todo[u][1] # 1
    BY <1>2, <1>7 DEF Latch
  <2>6. SetterOK(t)'
    <3>1. 1 \notin gone' /\ 1 <= used' /\ 1 \notin Conts
      BY <1>1, IdFacts, FuturesAssumption DEF TypeOK, chain
    <3>2. QED
      BY <2>4, <3>1 DEF SetterOK
  <2>7. \A u \in Threads : u # t => SetterOK(u)'
    BY <1>1, <2>4, OtherSetter DEF Setters, SetterOK, OnlyOwner, TypeOK, chain, Top
  <2>8. Setters'
    <3>1. todo'[t] = << >> \/ todo'[t][1] = 1
      BY <2>4
    <3>2. QED
      BY <2>4, <2>5, <2>6, <2>7, <3>1, NewSetter, ZenonT(60)
  <2>9. Latch'
    <3>1. CASE new = 0
      <4>1. todo'[t] = <<1, <<"value">>>> /\ count' = 0 /\ ~isSet'[1]
        BY <1>1, <2>1, <2>4, <2>5, <3>1
      <4>2. todo'[t] # << >> /\ todo'[t][1] = 1
        BY <4>1
      <4>3. QED
        BY <4>1, <4>2 DEF Latch
    <3>2. CASE new # 0
      BY <1>1, <2>1, <2>4, <2>5, <3>2 DEF Latch
    <3>3. QED
      BY <3>1, <3>2
  <2>10. QED
    BY <1>5, <1>6, <2>3, <2>8, <2>9
<1>8. CASE count # old
  <2>1. /\ cas' = [cas EXCEPT ![t] = IF count = 0 THEN << >> ELSE <<count, amount>>]
        /\ UNCHANGED <<count, todo>>
    BY <1>2, <1>8 DEF CompareExchange
  <2>2. TypeOK'
    <3>1. cas' \in [Threads -> {<< >>} \cup ((Nat \ {0}) \X (Nat \ {0}))]
      BY <2>1 DEF TypeOK
    <3>2. QED
      BY <1>1, <2>1, <3>1 DEF TypeOK, chain
  <2>3. Latch'
    BY <1>1, <2>1 DEF Latch
  <2>4. \A u \in Threads : u # t => cas'[u] = cas[u]
    BY <2>1 DEF TypeOK
  <2>5. \A u \in Threads : u # t => SetterOK(u)'
    BY <1>1, <2>1, <2>4, OtherSetter DEF Setters, SetterOK, OnlyOwner, TypeOK, chain, Top
  <2>6. Setters'
    BY <1>1, <1>3, <2>1, <2>5 DEF Setters, SetterOK
  <2>7. QED
    BY <1>5, <1>6, <2>2, <2>3, <2>6
<1>9. QED
  BY <1>7, <1>8

----------------------------------------------------------------------------
(***************************************************************************)
(* promise::set.                                                           *)
(***************************************************************************)

\* How promise p is marked by the set of r that thread t is in.
Marks(t, p, r) ==
  \/ r[1] = "broken" /\ UNCHANGED isSet
  \/ r[1] # "broken" /\ isSet[p] /\ UNCHANGED isSet
  \/ r[1] # "broken" /\ ~isSet[p] /\ isSet' = [isSet EXCEPT ![p] = TRUE]

\* Thread t ends its set of r to promise p.
Ends(t, p, r) ==
  /\ todo[t] # << >> /\ todo[t][1] = p /\ todo[t][2] = r
  /\ todo' = [todo EXCEPT ![t] = << >>]
  /\ UNCHANGED <<gone, chain, latch>>
  /\ Marks(t, p, r)

\* What every end of a set comes to.
LEMMA EndFacts ==
  ASSUME IInv, NEW t \in Threads, NEW p \in Ids, NEW r \in Outcomes, Ends(t, p, r)
  PROVE  /\ todo' \in [Threads -> {<< >>} \cup (Ids \X Outcomes)]
         /\ todo'[t] = << >> /\ \A u \in Threads : u # t => todo'[u] = todo[u]
         /\ \A u \in Threads : u # t /\ todo[u] # << >> => todo[u][1] # p
         /\ isSet' \in [Ids -> BOOLEAN]
         /\ \A q \in Ids : q # p => isSet'[q] = isSet[q]
         /\ isSet[p] => isSet'[p]
         /\ r[1] # "broken" => isSet'[p] /\ p \notin gone
         /\ r[1] = "broken" => p \in gone
         /\ p <= used
         /\ Latch'
<1> USE DEF IInv
<1>1. /\ todo' \in [Threads -> {<< >>} \cup (Ids \X Outcomes)]
      /\ todo'[t] = << >> /\ \A u \in Threads : u # t => todo'[u] = todo[u]
  BY DEF TypeOK, Ends
<1>2. \A u \in Threads : u # t /\ todo[u] # << >> => todo[u][1] # p
  BY DEF Setters, Ends
<1>3. isSet \in [Ids -> BOOLEAN]
  BY DEF TypeOK
<1>4. /\ isSet' \in [Ids -> BOOLEAN]
      /\ \A q \in Ids : q # p => isSet'[q] = isSet[q]
      /\ isSet[p] => isSet'[p]
      /\ r[1] # "broken" => isSet'[p]
  BY <1>3 DEF Ends, Marks
<1>5. /\ p <= used
      /\ p = 1 => r[1] = "value"
      /\ r[1] # "broken" => p \notin gone
      /\ r[1] = "broken" => p \in gone
  BY DEF Setters, SetterOK, Ends
<1>6. Latch'
  <2>1. CASE p = 1
    <3>1. isSet'[1] /\ count = 0
      BY <1>4, <1>5, <2>1 DEF Latch, Ends
    <3>2. \A u \in Threads : todo'[u] # << >> => todo'[u][1] # 1
      BY <1>1, <1>2, <2>1
    <3>3. QED
      BY <3>1, <3>2 DEF Latch, Ends, latch
  <2>2. CASE p # 1
    <3>1. isSet'[1] = isSet[1] /\ count' = count
      BY <1>4, <2>2, IdFacts DEF Ends, latch
    <3>2. \A u \in Threads : (todo'[u] # << >> /\ todo'[u][1] = 1)
                               <=> (todo[u] # << >> /\ todo[u][1] = 1)
      BY <1>1, <2>2 DEF Ends
    <3>3. QED
      BY <3>1, <3>2 DEF Latch
  <2>3. QED
    BY <2>1, <2>2
<1>7. QED
  BY <1>1, <1>2, <1>4, <1>5, <1>6

\* The value is stored: promise p is the only owner of its state, or has taken
\* over that of another.
LEMMA StoreStep ==
  ASSUME IInv, NEW t \in Threads, NEW p \in Ids, NEW r \in Outcomes, Ends(t, p, r),
         NEW v \in {"value", "exception", "broken"}, own[p] # 0, Store(t, p, v)
  PROVE  IInv'
<1> USE DEF IInv
<1>1. /\ value' = [value EXCEPT ![own[p]] = v] /\ own' = own
      /\ Push(t, <<"state", own[p]>>) /\ ~Locked(own[p])
      /\ UNCHANGED <<gone, chain, latch>>
  BY DEF Store, Ends
<1>2. PICK s \in Ids : s = own[p]
  BY DEF TypeOK
<1>3. <<"state", s>> \in Frames
  BY DEF Frames
<1>4. /\ stack' \in [Threads -> Seq(Frames)]
      /\ \A u \in Threads : u # t => stack'[u] = stack[u]
      /\ Len(stack[t]) \in Nat /\ Len(stack'[t]) = Len(stack[t]) + 1
      /\ \A i \in 1 .. Len(stack[t]) : stack'[t][i] = stack[t][i]
      /\ stack'[t][Len(stack[t]) + 1] = <<"state", s>>
  BY <1>1, <1>2, <1>3, PushFacts
<1>5. \A u \in Threads : \A i \in 1 .. Len(stack[u]) : stack[u][i] # <<"state", s>>
  BY <1>1, <1>2, LockFacts
<1>6. /\ value' \in [Ids -> {"none", "value", "exception", "broken"}]
      /\ \A q \in Ids : q # s => value'[q] = value[q]
  BY <1>1, <1>2 DEF TypeOK
<1>7. TypeOK'
  BY <1>1, <1>4, <1>6, EndFacts DEF TypeOK, chain, latch
<1>8. FramesOnce'
  <2> SUFFICES ASSUME NEW u \in Threads, NEW w \in Threads,
                      NEW i \in 1 .. Len(stack'[u]), NEW j \in 1 .. Len(stack'[w]),
                      stack'[u][i] = stack'[w][j]
               PROVE  u = w /\ i = j
    BY DEF FramesOnce
  <2>1. \A x \in Threads : \A k \in 1 .. Len(stack'[x]) :
          \/ k \in 1 .. Len(stack[x]) /\ stack'[x][k] = stack[x][k]
          \/ x = t /\ k = Len(stack[t]) + 1 /\ stack'[x][k] = <<"state", s>>
    BY <1>4, SMTT(30)
  <2>2. CASE u = t /\ i = Len(stack[t]) + 1 /\ stack'[u][i] = <<"state", s>>
    BY <1>5, <2>1, <2>2
  <2>3. CASE w = t /\ j = Len(stack[t]) + 1 /\ stack'[w][j] = <<"state", s>>
    BY <1>5, <2>1, <2>3
  <2>4. CASE /\ i \in 1 .. Len(stack[u]) /\ stack'[u][i] = stack[u][i]
             /\ j \in 1 .. Len(stack[w]) /\ stack'[w][j] = stack[w][j]
    <3>1. stack[u][i] = stack[w][j]
      BY <2>4
    <3>2. i \in 1 .. Len(stack[u]) /\ j \in 1 .. Len(stack[w])
      BY <2>4
    <3>3. QED
      BY <3>1, <3>2, SameFrame
  <2>5. QED
    BY <2>1, <2>2, <2>3, <2>4
<1>9. \A u \in Threads : \A i \in 1 .. Len(stack'[u]), q \in Conts :
        stack'[u][i] = <<"task", q>> => i \in 1 .. Len(stack[u]) /\ HeldByFrame(u, i, q)
  BY <1>4, SMTT(30) DEF HeldByFrame
<1>10. HeldOnce'
  BY <1>1, <1>9 DEF HeldOnce, HeldByCallback, HeldByTask, HeldByFrame, chain
<1>11. HeldAlive'
  BY <1>1, <1>9 DEF HeldAlive, HeldByCallback, HeldByTask, HeldByFrame, chain
<1>12. CalledOnce'
  BY <1>1 DEF CalledOnce, HeldByCallback, HeldByTask, chain
<1>13. own[p] # p => ~OnlyOwner(s)
  BY <1>2 DEF OnlyOwner
<1>14. Unsettled'
  <2> SUFFICES ASSUME NEW q \in Ids
               PROVE  /\ own'[q] # q => isSet'[q]
                      /\ q > used' => q \notin gone' /\ ~isSet'[q]
                      /\ (q \notin gone' /\ ~isSet'[q]) \/ own'[q] # q =>
                           (OnlyOwner(q)' => value'[q] = "none")
    BY DEF Unsettled
  <2>1. own'[q] # q => isSet'[q]
    BY <1>1, EndFacts DEF Unsettled
  <2>2. q > used' => q \notin gone' /\ ~isSet'[q]
    <3>1. q \in Nat /\ p \in Nat /\ used \in Nat
      BY FuturesAssumption DEF Ids, TypeOK
    <3>2. p <= used
      BY EndFacts
    <3>3. q > used => q # p
      BY <3>1, <3>2
    <3>4. QED
      BY <1>1, <3>3, EndFacts DEF Unsettled, chain
  <2>3. ASSUME (q \notin gone' /\ ~isSet'[q]) \/ own'[q] # q, OnlyOwner(q)'
        PROVE  value'[q] = "none"
    <3>1. OnlyOwner(q)
      BY <1>1, <2>3 DEF OnlyOwner
    <3>2. q # s
      <4>1. CASE own[p] = p
        <5>1. p \in gone' \/ isSet'[p]
          BY <1>1, EndFacts
        <5>2. QED
          BY <1>1, <1>2, <2>3, <4>1, <5>1
      <4>2. CASE own[p] # p
        BY <1>13, <3>1, <4>2
      <4>3. QED
        BY <4>1, <4>2
    <3>3. (q \notin gone /\ ~isSet[q]) \/ own[q] # q
      BY <1>1, <2>3, EndFacts
    <3>4. QED
      BY <1>6, <3>1, <3>2, <3>3 DEF Unsettled
  <2>4. QED
    BY <2>1, <2>2, <2>3
<1>15. ASSUME NEW u \in Threads, u # t PROVE SetterOK(u)'
  <2>1. /\ todo'[u] = todo[u]
        /\ todo[u] # << >> => todo[u][1] # p
    BY <1>15, EndFacts
  <2>2. ASSUME todo[u] # << >>, todo[u][2][1] = "broken", OnlyOwner(todo[u][1])'
        PROVE  value'[todo[u][1]] = "none"
    <3>1. PICK q \in Ids : q = todo[u][1]
      BY <2>2 DEF TypeOK
    <3>2. OnlyOwner(q)
      BY <1>1, <2>1, <2>2, <3>1 DEF OnlyOwner
    <3>3. value[q] = "none"
      BY <2>2, <3>1, <3>2 DEF Setters, SetterOK
    <3>4. q # s
      BY <1>2, <1>13, <2>1, <2>2, <3>1, <3>2
    <3>5. QED
      BY <1>6, <3>1, <3>3, <3>4
  <2>3. todo[u] # << >> /\ todo[u][2][1] = "broken" => own'[todo[u][1]] # 0
    BY <1>1 DEF Setters, SetterOK
  <2>4. SetterOK(u) /\ used \in Nat /\ used' = used
    BY <1>1 DEF Setters, TypeOK, chain
  <2>5. /\ todo'[u] = todo[u] /\ cas'[u] = cas[u] /\ stack'[u] = stack[u]
        /\ callback' = callback /\ gone' = gone
        /\ todo \in [Threads -> {<< >>} \cup (Ids \X Outcomes)]
    BY <1>1, <1>4, <1>15, EndFacts, SMTT(30) DEF latch, chain, TypeOK
  <2>6. QED
    BY <2>2, <2>3, <2>4, <2>5, OtherSetter
<1>16. SetterOK(t)' /\ todo'[t] = << >>
  <2>1. todo'[t] = << >>
    BY EndFacts
  <2>2. cas[t] = << >>
    BY DEF Setters, SetterOK, Ends
  <2>3. QED
    BY <1>1, <2>1, <2>2 DEF SetterOK, latch
<1>17. Setters'
  BY <1>15, <1>16, EndFacts, NewSetter
<1>18. QED
  BY <1>7, <1>8, <1>10, <1>11, <1>12, <1>14, <1>17, EndFacts

\* The promise gives up its own state, and may take over that of a future; or it
\* was set before, and nothing happens.
LEMMA MovedStep ==
  ASSUME IInv, NEW t \in Threads, NEW p \in Ids, NEW r \in Outcomes, Ends(t, p, r),
         UNCHANGED <<value, stack>>,
         \/ UNCHANGED own
         \/ /\ r[1] # "broken" /\ ~isSet[p]
            /\ \E f \in {0} \cup Ids : own' = [own EXCEPT ![p] = f]
  PROVE  IInv'
<1> USE DEF IInv
<1>1. UNCHANGED <<gone, chain, latch, value, stack>>
  BY DEF Ends
<1>2. own' \in [Ids -> {0} \cup Ids] /\ \A q \in Ids : q # p => own'[q] = own[q]
  BY DEF TypeOK
<1>3. own'[p] # own[p] => ~isSet[p] /\ own[p] = p /\ isSet'[p] /\ p \notin gone
  BY EndFacts DEF Unsettled
<1>4. ASSUME NEW q \in Ids, OnlyOwner(q)' PROVE OnlyOwner(q)
  BY <1>2, <1>3, <1>4 DEF OnlyOwner
<1>5. TypeOK'
  BY <1>1, <1>2, EndFacts DEF TypeOK, chain, latch
<1>6. FramesOnce' /\ HeldOnce' /\ HeldAlive' /\ CalledOnce'
  BY <1>1, SameHolders DEF chain
<1>7. Unsettled'
  <2> SUFFICES ASSUME NEW q \in Ids
               PROVE  /\ own'[q] # q => isSet'[q]
                      /\ q > used' => q \notin gone' /\ ~isSet'[q]
                      /\ (q \notin gone' /\ ~isSet'[q]) \/ own'[q] # q =>
                           (OnlyOwner(q)' => value'[q] = "none")
    BY DEF Unsettled
  <2>1. own'[q] # q => isSet'[q]
    BY <1>2, <1>3, EndFacts DEF Unsettled
  <2>2. q > used' => q \notin gone' /\ ~isSet'[q]
    <3>1. q \in Nat /\ p \in Nat /\ used \in Nat
      BY FuturesAssumption DEF Ids, TypeOK
    <3>2. p <= used
      BY EndFacts
    <3>3. q > used => q # p
      BY <3>1, <3>2
    <3>4. QED
      BY <1>1, <3>3, EndFacts DEF Unsettled, chain
  <2>3. ASSUME (q \notin gone' /\ ~isSet'[q]) \/ own'[q] # q, OnlyOwner(q)'
        PROVE  value'[q] = "none"
    <3>1. OnlyOwner(q)
      BY <1>4, <2>3
    <3>2. (q \notin gone /\ ~isSet[q]) \/ own[q] # q
      BY <1>1, <1>2, <1>3, <2>3, EndFacts
    <3>3. QED
      BY <1>1, <3>1, <3>2 DEF Unsettled
  <2>4. QED
    BY <2>1, <2>2, <2>3
<1>8. ASSUME NEW u \in Threads, u # t PROVE SetterOK(u)'
  <2>1. /\ todo'[u] = todo[u]
        /\ todo[u] # << >> => todo[u][1] # p /\ todo[u][1] \in Ids
    BY <1>8, EndFacts DEF TypeOK
  <2>2. ASSUME todo[u] # << >>, todo[u][2][1] = "broken", OnlyOwner(todo[u][1])'
        PROVE  value'[todo[u][1]] = "none"
    <3>1. PICK q \in Ids : q = todo[u][1]
      BY <2>1, <2>2
    <3>2. OnlyOwner(q)'
      BY <2>1, <2>2, <3>1 DEF OnlyOwner
    <3>3. OnlyOwner(q)
      BY <1>4, <3>2
    <3>4. QED
      BY <1>1, <2>2, <3>1, <3>3 DEF Setters, SetterOK
  <2>3. todo[u] # << >> /\ todo[u][2][1] = "broken" => own'[todo[u][1]] # 0
    BY <1>2, <2>1 DEF Setters, SetterOK
  <2>4. SetterOK(u) /\ used \in Nat /\ used' = used
    BY <1>1 DEF Setters, TypeOK, chain
  <2>5. /\ todo'[u] = todo[u] /\ cas'[u] = cas[u] /\ stack'[u] = stack[u]
        /\ callback' = callback /\ gone' = gone
        /\ todo \in [Threads -> {<< >>} \cup (Ids \X Outcomes)]
    BY <1>1, <1>8, EndFacts DEF latch, chain, TypeOK
  <2>6. QED
    BY <2>2, <2>3, <2>4, <2>5, OtherSetter
<1>9. SetterOK(t)' /\ todo'[t] = << >>
  <2>1. todo'[t] = << >>
    BY EndFacts
  <2>2. cas[t] = << >>
    BY DEF Setters, SetterOK, Ends
  <2>3. QED
    BY <1>1, <2>1, <2>2 DEF SetterOK, latch
<1>10. Setters'
  <2>1. \A u \in Threads : SetterOK(u)'
    BY <1>8, <1>9
  <2>2. \A u \in Threads : u # t => todo'[u] = todo[u]
    BY EndFacts
  <2>3. QED
    BY <1>9, <2>1, <2>2, NewSetter
<1>11. QED
  BY <1>5, <1>6, <1>7, <1>10, EndFacts

\* A state that is ready and has one writer is not written to: the promise that
\* would write to it was set or has broken, and the setters know it.
Settled == \A s \in Ids : Ready(s) /\ OnlyOwner(s) => value'[s] = value[s]

\* What DoSet does to the value, the state and the stack.
LEMMA DoSetCases ==
  ASSUME IInv, NEW t \in Threads, DoSet(t)
  PROVE  \E p \in Ids, r \in Outcomes :
           /\ Ends(t, p, r)
           /\ \/ \E v \in {"value", "exception", "broken"} :
                   /\ own[p] # 0 /\ Store(t, p, v)
                   /\ r[1] # "broken" => ~isSet[p]
              \/ /\ UNCHANGED <<value, stack>>
                 /\ \/ UNCHANGED own
                    \/ /\ r[1] # "broken" /\ ~isSet[p]
                       /\ \E f \in {0} \cup Ids : own' = [own EXCEPT ![p] = f]
<1> USE DEF IInv
<1>1. PICK p \in Ids, r \in Outcomes : todo[t] = <<p, r>>
  <2>1. todo[t] \in Ids \X Outcomes
    BY DEF TypeOK, DoSet
  <2>2. QED
    BY <2>1
<1>2. /\ todo[t] # << >> /\ todo[t][1] = p /\ todo[t][2] = r
      /\ todo' = [todo EXCEPT ![t] = << >>] /\ UNCHANGED <<gone, chain, latch>>
  BY <1>1 DEF DoSet
<1>3. r[1] \in {"value", "exception", "broken", "future"} /\ (r[1] = "future" => r[2] \in Ids)
  BY OutcomeFacts
<1>4. (~isSet[p] => own[p] = p) /\ (r[1] = "broken" => own[p] # 0) /\ p # 0
  BY <1>2, IdFacts DEF Unsettled, Setters, SetterOK
<1>5. CASE r[1] = "broken"
  <2>1. Store(t, p, "broken") /\ UNCHANGED isSet
    BY <1>2, <1>5 DEF DoSet
  <2>2. QED
    BY <1>2, <1>4, <1>5, <2>1 DEF Ends, Marks
<1>6. CASE r[1] # "broken" /\ isSet[p]
  <2>1. UNCHANGED <<value, own, stack, isSet>>
    BY <1>2, <1>6 DEF DoSet
  <2>2. QED
    BY <1>2, <1>6, <2>1 DEF Ends, Marks
<1>7. CASE r[1] # "broken" /\ ~isSet[p]
  <2>1. /\ isSet' = [isSet EXCEPT ![p] = TRUE]
        /\ \/ r[1] # "future" /\ Store(t, p, r[1])
           \/ r[1] = "future" /\ ExtractIntoSharedState(t, p, r[2])
    BY <1>2, <1>7 DEF DoSet
  <2>2. Ends(t, p, r)
    BY <1>2, <1>7, <2>1 DEF Ends, Marks
  <2>3. CASE r[1] # "future" /\ Store(t, p, r[1])
    BY <1>3, <1>4, <1>7, <2>2, <2>3
  <2>4. CASE r[1] = "future" /\ ExtractIntoSharedState(t, p, r[2])
    <3>1. CASE Store(t, p, "value")
      BY <1>4, <1>7, <2>2, <3>1
    <3>2. CASE /\ UNCHANGED <<value, stack>>
               /\ \E f \in {0, r[2]} : own' = [own EXCEPT ![p] = f]
      BY <1>3, <1>7, <2>2, <2>4, <3>2
    <3>3. QED
      BY <2>4, <3>1, <3>2 DEF ExtractIntoSharedState
  <2>5. QED
    BY <2>1, <2>3, <2>4
<1>8. QED
  BY <1>5, <1>6, <1>7

LEMMA DoSetStep ==
  ASSUME IInv, NEW t \in Threads, DoSet(t)
  PROVE  IInv' /\ Settled
<1>1. PICK p \in Ids, r \in Outcomes :
        /\ Ends(t, p, r)
        /\ \/ \E v \in {"value", "exception", "broken"} :
                /\ own[p] # 0 /\ Store(t, p, v)
                /\ r[1] # "broken" => ~isSet[p]
           \/ /\ UNCHANGED <<value, stack>>
              /\ \/ UNCHANGED own
                 \/ /\ r[1] # "broken" /\ ~isSet[p]
                    /\ \E f \in {0} \cup Ids : own' = [own EXCEPT ![p] = f]
  BY DoSetCases
<1>2. CASE UNCHANGED <<value, stack>>
             /\ \/ UNCHANGED own
                \/ /\ r[1] # "broken" /\ ~isSet[p]
                   /\ \E f \in {0} \cup Ids : own' = [own EXCEPT ![p] = f]
  <2>1. IInv'
    BY <1>1, <1>2, MovedStep
  <2>2. QED
    BY <1>2, <2>1 DEF Settled
<1>3. ASSUME NEW v \in {"value", "exception", "broken"}, own[p] # 0, Store(t, p, v),
             r[1] # "broken" => ~isSet[p]
      PROVE  IInv' /\ Settled
  <2>1. IInv'
    BY <1>1, <1>3, StoreStep
  <2>2. ASSUME NEW s \in Ids, Ready(s), OnlyOwner(s) PROVE value'[s] = value[s]
    <3>1. value' = [value EXCEPT ![own[p]] = v] /\ value \in [Ids -> {"none", "value", "exception", "broken"}]
      BY <1>3 DEF Store, IInv, TypeOK
    <3>2. CASE own[p] # s
      BY <3>1, <3>2
    <3>3. CASE own[p] = s
      <4>1. s = p
        BY <2>2, <3>3 DEF OnlyOwner
      <4>2. todo[t] # << >> /\ todo[t][1] = p /\ todo[t][2] = r /\ SetterOK(t)
        BY <1>1 DEF Ends, IInv, Setters
      <4>3. CASE r[1] = "broken"
        BY <2>2, <4>1, <4>2, <4>3 DEF SetterOK, Ready
      <4>4. CASE r[1] # "broken"
        <5>1. p \notin gone /\ ~isSet[p]
          BY <1>3, <4>2, <4>4 DEF SetterOK
        <5>2. QED
          BY <2>2, <4>1, <5>1 DEF IInv, Unsettled, Ready
      <4>5. QED
        BY <4>3, <4>4
    <3>4. QED
      BY <3>2, <3>3
  <2>3. QED
    BY <2>1, <2>2 DEF Settled
<1>4. QED
  BY <1>1, <1>2, <1>3

----------------------------------------------------------------------------
(***************************************************************************)
(* Callbacks and tasks.                                                    *)
(***************************************************************************)

\* A thread in the callback of a state has that state on top of its stack, and
\* no other thread has it.
LEMMA WithinState ==
  ASSUME IInv, NEW t \in Threads, Within(t, "state")
  PROVE  \E s \in Ids :
           /\ s = Top(t)[2] /\ Top(t) = <<"state", s>> /\ stack[t] # << >> /\ todo[t] = << >>
           /\ \A u \in Threads : stack[u] # << >> /\ Top(u) = <<"state", s>> => u = t
<1>1. stack[t] # << >> /\ todo[t] = << >> /\ Top(t)[1] = "state"
  BY DEF Within
<1>2. Top(t) \in Frames /\ Len(stack[t]) \in 1 .. Len(stack[t]) /\ Top(t) = stack[t][Len(stack[t])]
  BY <1>1, TopFacts DEF IInv
<1>3. PICK s \in Ids : Top(t) = <<"state", s>>
  BY <1>1, <1>2 DEF Frames
<1>4. ASSUME NEW u \in Threads, stack[u] # << >>, Top(u) = <<"state", s>> PROVE u = t
  <2>1. Len(stack[u]) \in 1 .. Len(stack[u]) /\ Top(u) = stack[u][Len(stack[u])]
    BY <1>4, TopFacts DEF IInv
  <2>2. QED
    BY <1>2, <1>3, <1>4, <2>1 DEF IInv, FramesOnce
<1>5. QED
  BY <1>1, <1>3, <1>4

\* The callback of state s runs on thread t: it hands the promise q it holds an
\* exception, or calls the continuation, and is to be destroyed.
CallsBack(t, s, kind, q, r) ==
  /\ stack[t] # << >> /\ Top(t) = <<"state", s>> /\ todo[t] = << >>
  /\ \A u \in Threads : stack[u] # << >> /\ Top(u) = <<"state", s>> => u = t
  /\ callback[s] = <<kind, q>> /\ kind # "ran" /\ r[1] # "broken"
  /\ todo' = [todo EXCEPT ![t] = <<q, r>>]
  /\ callback' = [callback EXCEPT ![s] = <<"ran", q>>]
  /\ futures' \subseteq Ids
  /\ UNCHANGED runs \/ runs' = [runs EXCEPT ![q] = @ + 1]
  /\ UNCHANGED <<value, own, isSet, gone, used, tasks, stack, latch>>

LEMMA CalledBack ==
  ASSUME IInv, NEW t \in Threads, NEW s \in Ids, NEW q \in Conts, NEW kind, NEW r \in Outcomes,
         CallsBack(t, s, kind, q, r)
  PROVE  IInv'
<1> USE DEF IInv, CallsBack
<1>1. HeldByCallback(s, q)
  BY DEF HeldByCallback
<1>2. /\ q \in Ids /\ q \notin {1, 2} /\ q <= used /\ q \notin gone /\ runs[q] = 0
  BY <1>1, IdFacts DEF HeldAlive, CalledOnce
<1>3. <<q, r>> \in Ids \X Outcomes /\ <<"ran", q>> \in Callbacks
  BY <1>2 DEF Callbacks
<1>4. /\ todo'[t] = <<q, r>> /\ \A u \in Threads : u # t => todo'[u] = todo[u]
      /\ callback'[s] = <<"ran", q>> /\ \A z \in Ids : z # s => callback'[z] = callback[z]
  BY DEF TypeOK
<1>5. /\ runs' \in [Ids -> Nat] /\ runs'[q] <= 1
      /\ \A p \in Ids : p # q => runs'[p] = runs[p]
  BY <1>2 DEF TypeOK
<1>6. TypeOK'
  <2>1. todo' \in [Threads -> {<< >>} \cup (Ids \X Outcomes)]
        /\ callback' \in [Ids -> {<< >>} \cup Callbacks]
    BY <1>3 DEF TypeOK
  <2>2. QED
    BY <1>5, <2>1 DEF TypeOK, latch
<1>7. \A z \in Ids, p \in Conts : HeldByCallback(z, p)' <=> HeldByCallback(z, p)
  BY <1>1, <1>4 DEF HeldByCallback
<1>8. FramesOnce' /\ HeldOnce'
  BY <1>7, SMTT(30) DEF FramesOnce, HeldOnce, HeldByTask, HeldByFrame
<1>9. HeldAlive'
  BY <1>7 DEF HeldAlive, HeldByTask, HeldByFrame
<1>10. CalledOnce'
  <2>1. \A p \in Ids : runs'[p] <= 1
    BY <1>5 DEF CalledOnce
  <2>2. ASSUME NEW p \in Conts,
               \/ \E z \in Ids : HeldByCallback(z, p)' /\ callback'[z][1] # "ran"
               \/ \E i \in 1 .. Len(tasks') : HeldByTask(i, p)'
               \/ p > used'
        PROVE  runs'[p] = 0
    <3>1. p # q
      <4>1. ASSUME NEW z \in Ids, HeldByCallback(z, q)', callback'[z][1] # "ran" PROVE FALSE
        <5>1. z = s
          BY <1>1, <1>7, <4>1 DEF HeldOnce
        <5>2. QED
          BY <1>4, <4>1, <5>1
      <4>2. \A i \in 1 .. Len(tasks') : ~HeldByTask(i, q)'
        BY <1>1 DEF HeldOnce, HeldByTask
      <4>3. ~(q > used')
        BY <1>2, IdFacts DEF TypeOK
      <4>4. QED
        BY <2>2, <4>1, <4>2, <4>3
    <3>2. \/ \E z \in Ids : HeldByCallback(z, p) /\ callback[z][1] # "ran"
          \/ \E i \in 1 .. Len(tasks) : HeldByTask(i, p)
          \/ p > used
      <4>1. ASSUME NEW z \in Ids, HeldByCallback(z, p)', callback'[z][1] # "ran"
            PROVE  HeldByCallback(z, p) /\ callback[z][1] # "ran"
        BY <1>4, <1>7, <4>1
      <4>2. QED
        BY <2>2, <4>1 DEF HeldByTask
    <3>3. QED
      BY <1>5, <3>1, <3>2, IdFacts DEF CalledOnce
  <2>3. QED
    BY <2>1, <2>2 DEF CalledOnce
<1>11. Unsettled'
  BY DEF Unsettled, OnlyOwner
<1>12. \A u \in Threads : u # t /\ todo[u] # << >> => todo[u][1] # q
  BY <1>1, CallbackAlone
<1>13. ASSUME NEW u \in Threads, u # t PROVE SetterOK(u)'
  <2>1. \A z \in Ids : stack[u] # << >> /\ Top(u) = <<"state", z>> => callback'[z] = callback[z]
    BY <1>4, <1>13
  <2>2. /\ SetterOK(u) /\ used \in Nat
        /\ todo \in [Threads -> {<< >>} \cup (Ids \X Outcomes)]
        /\ todo'[u] = todo[u] /\ cas'[u] = cas[u] /\ stack'[u] = stack[u]
    BY <1>4, <1>13 DEF Setters, TypeOK, latch
  <2>3. todo[u] # << >> /\ todo[u][2][1] = "broken" =>
                /\ own'[todo[u][1]] # 0
                /\ OnlyOwner(todo[u][1])' => value'[todo[u][1]] = "none"
    BY <2>2 DEF SetterOK, OnlyOwner
  <2>4. QED
    BY <2>1, <2>2, <2>3, OtherSetter
<1>14. SetterOK(t)'
  <2>1. Top(t)' = <<"state", s>> /\ stack'[t] # << >> /\ cas'[t] = << >>
    BY DEF Top, latch, Setters, SetterOK
  <2>2. QED
    BY <1>2, <1>4, <2>1 DEF SetterOK
<1>15. Setters'
  <2>1. \A u \in Threads : SetterOK(u)'
    BY <1>13, <1>14
  <2>2. todo'[t][1] = q
    BY <1>4
  <2>3. QED
    BY <1>4, <1>12, <2>1, <2>2, NewSetter, ZenonT(60)
<1>16. Latch'
  BY <1>2, <1>4 DEF Latch, latch
<1>17. QED
  BY <1>6, <1>8, <1>9, <1>10, <1>11, <1>15, <1>16

\* The callback posts the continuation, with the promise q, to its shard.
LEMMA PostedBack ==
  ASSUME IInv, NEW t \in Threads, NEW s \in Ids, NEW q \in Conts, NEW kind,
         stack[t] # << >>, Top(t) = <<"state", s>>, todo[t] = << >>,
         \A u \in Threads : stack[u] # << >> /\ Top(u) = <<"state", s>> => u = t,
         callback[s] = <<kind, q>>, kind # "ran",
         tasks' = Append(tasks, q),
         callback' = [callback EXCEPT ![s] = << >>],
         UNCHANGED <<todo, runs, futures, value, own, isSet, gone, used, stack, latch>>
  PROVE  IInv'
<1> USE DEF IInv
<1>1. HeldByCallback(s, q)
  BY DEF HeldByCallback
<1>2. /\ q <= used /\ q \notin gone /\ runs[q] = 0
  BY <1>1, IdFacts DEF HeldAlive, CalledOnce
<1>3. callback'[s] = << >> /\ \A z \in Ids : z # s => callback'[z] = callback[z]
  BY DEF TypeOK
<1>4. /\ tasks' \in Seq(Conts) /\ Len(tasks) \in Nat /\ Len(tasks') = Len(tasks) + 1
      /\ \A i \in 1 .. Len(tasks) : tasks'[i] = tasks[i]
      /\ tasks'[Len(tasks) + 1] = q
  BY AppendProperties, LenProperties DEF TypeOK
<1>5. TypeOK'
  BY <1>4 DEF TypeOK, latch
<1>6. \A z \in Ids, p \in Conts :
        HeldByCallback(z, p)' => HeldByCallback(z, p) /\ callback'[z] = callback[z] /\ p # q
  BY <1>1, <1>3 DEF HeldByCallback, HeldOnce
<1>7. \A i \in 1 .. Len(tasks') : \A p \in Conts :
        HeldByTask(i, p)' => \/ i \in 1 .. Len(tasks) /\ HeldByTask(i, p) /\ p # q
                             \/ i = Len(tasks) + 1 /\ p = q
  BY <1>1, <1>4 DEF HeldByTask, HeldOnce
<1>8. FramesOnce'
  BY DEF FramesOnce
<1>9. HeldOnce'
  <2> SUFFICES ASSUME NEW p \in Conts
               PROVE  /\ \A w, z \in Ids : HeldByCallback(w, p)' /\ HeldByCallback(z, p)' => w = z
                      /\ \A i, j \in 1 .. Len(tasks') : HeldByTask(i, p)' /\ HeldByTask(j, p)' => i = j
                      /\ \A w \in Ids, i \in 1 .. Len(tasks') : ~(HeldByCallback(w, p)' /\ HeldByTask(i, p)')
                      /\ \A u \in Threads : \A i \in 1 .. Len(stack'[u]) :
                           HeldByFrame(u, i, p)' =>
                             /\ \A w \in Ids : ~HeldByCallback(w, p)'
                             /\ \A j \in 1 .. Len(tasks') : ~HeldByTask(j, p)'
    BY DEF HeldOnce
  <2>1. \A w, z \in Ids : HeldByCallback(w, p)' /\ HeldByCallback(z, p)' => w = z
    BY <1>6 DEF HeldOnce
  <2>2. \A i, j \in 1 .. Len(tasks') : HeldByTask(i, p)' /\ HeldByTask(j, p)' => i = j
    BY <1>7 DEF HeldOnce
  <2>3. \A w \in Ids, i \in 1 .. Len(tasks') : ~(HeldByCallback(w, p)' /\ HeldByTask(i, p)')
    BY <1>6, <1>7 DEF HeldOnce
  <2>4. ASSUME NEW u \in Threads, NEW i \in 1 .. Len(stack'[u]), HeldByFrame(u, i, p)'
        PROVE  /\ \A w \in Ids : ~HeldByCallback(w, p)'
               /\ \A j \in 1 .. Len(tasks') : ~HeldByTask(j, p)'
    <3>1. HeldByFrame(u, i, p) /\ i \in 1 .. Len(stack[u])
      BY <2>4 DEF HeldByFrame
    <3>2. p # q
      BY <1>1, <3>1 DEF HeldOnce
    <3>3. QED
      BY <1>6, <1>7, <3>1, <3>2 DEF HeldOnce
  <2>5. QED
    BY <2>1, <2>2, <2>3, <2>4
<1>10. HeldAlive'
  <2> SUFFICES ASSUME NEW p \in Conts,
                      \/ \E z \in Ids : HeldByCallback(z, p)'
                      \/ \E i \in 1 .. Len(tasks') : HeldByTask(i, p)'
                      \/ \E u \in Threads : \E i \in 1 .. Len(stack'[u]) : HeldByFrame(u, i, p)'
               PROVE  p <= used /\ p \notin gone
    BY DEF HeldAlive
  <2>1. CASE \E z \in Ids : HeldByCallback(z, p)'
    BY <1>6, <2>1 DEF HeldAlive
  <2>2. CASE \E i \in 1 .. Len(tasks') : HeldByTask(i, p)'
    BY <1>2, <1>7, <2>2 DEF HeldAlive
  <2>3. CASE \E u \in Threads : \E i \in 1 .. Len(stack'[u]) : HeldByFrame(u, i, p)'
    BY <2>3 DEF HeldAlive, HeldByFrame
  <2>4. QED
    BY <2>1, <2>2, <2>3
<1>11. CalledOnce'
  <2>1. ASSUME NEW p \in Conts,
               \/ \E z \in Ids : HeldByCallback(z, p)' /\ callback'[z][1] # "ran"
               \/ \E i \in 1 .. Len(tasks') : HeldByTask(i, p)'
               \/ p > used'
        PROVE  runs'[p] = 0
    <3>1. CASE p = q
      BY <1>2, <3>1
    <3>2. CASE p # q
      BY <1>6, <1>7, <2>1, <3>2 DEF CalledOnce
    <3>3. QED
      BY <3>1, <3>2
  <2>2. QED
    BY <2>1 DEF CalledOnce
<1>12. Unsettled' /\ Latch'
  BY DEF Unsettled, OnlyOwner, Latch, latch
<1>13. ASSUME NEW u \in Threads, u # t PROVE SetterOK(u)'
  <2>1. \A z \in Ids : stack[u] # << >> /\ Top(u) = <<"state", z>> => callback'[z] = callback[z]
    BY <1>3, <1>13
  <2>2. /\ SetterOK(u) /\ used \in Nat
        /\ todo \in [Threads -> {<< >>} \cup (Ids \X Outcomes)]
        /\ todo'[u] = todo[u] /\ cas'[u] = cas[u] /\ stack'[u] = stack[u]
    BY <1>3, <1>13 DEF Setters, TypeOK, latch
  <2>3. todo[u] # << >> /\ todo[u][2][1] = "broken" =>
                /\ own'[todo[u][1]] # 0
                /\ OnlyOwner(todo[u][1])' => value'[todo[u][1]] = "none"
    BY <2>2 DEF SetterOK, OnlyOwner
  <2>4. QED
    BY <2>1, <2>2, <2>3, OtherSetter
<1>14. SetterOK(t)'
  BY DEF Setters, SetterOK, latch
<1>15. Setters'
  BY <1>13, <1>14 DEF Setters
<1>16. QED
  BY <1>5, <1>8, <1>9, <1>10, <1>11, <1>12, <1>15

LEMMA RunCallbackStep ==
  ASSUME IInv, NEW t \in Threads, RunCallback(t)
  PROVE  IInv'
<1>1. PICK s \in Ids :
        /\ s = Top(t)[2] /\ Top(t) = <<"state", s>> /\ stack[t] # << >> /\ todo[t] = << >>
        /\ \A u \in Threads : stack[u] # << >> /\ Top(u) = <<"state", s>> => u = t
  BY WithinState DEF RunCallback
<1>2. callback[s] # << >> /\ callback[s][1] # "ran"
  BY <1>1 DEF RunCallback
<1>3. callback[s] \in Callbacks
  BY <1>2 DEF IInv, TypeOK
<1>4. PICK kind \in {"inline", "post", "ran"}, q \in Conts : callback[s] = <<kind, q>>
  BY <1>3 DEF Callbacks
<1>5. kind # "ran" /\ callback[s][2] = q /\ callback[s][1] = kind
  BY <1>2, <1>4
<1>6. UNCHANGED <<value, own, isSet, gone, used, stack, latch>> /\ futures \subseteq Ids
  BY DEF RunCallback, IInv, TypeOK
<1>7. CASE IsException(s)
  <2>1. /\ todo' = [todo EXCEPT ![t] = <<q, <<"exception">>>>]
        /\ callback' = [callback EXCEPT ![s] = <<"ran", q>>]
        /\ UNCHANGED <<runs, tasks, futures>>
    BY <1>1, <1>5, <1>7 DEF RunCallback
  <2>2. <<"exception">> \in Outcomes
    BY DEF Outcomes
  <2>3. PICK r \in Outcomes : r = <<"exception">>
    BY <2>2
  <2>4. r[1] # "broken" /\ todo' = [todo EXCEPT ![t] = <<q, r>>] /\ futures' \subseteq Ids
    BY <1>6, <2>1, <2>3
  <2>5. UNCHANGED <<value, own, isSet, gone, used, tasks, stack, latch>>
    BY <1>6, <2>1
  <2>6. CallsBack(t, s, kind, q, r)
    BY <1>1, <1>4, <1>5, <2>1, <2>4, <2>5 DEF CallsBack
  <2>7. QED
    BY <2>6, CalledBack
<1>8. CASE ~IsException(s) /\ kind = "inline"
  <2>1. PICK r \in Results :
          /\ Called(t, q, r)
          /\ futures' = IF r[1] = "future" THEN futures \ {r[2]} ELSE futures
    BY <1>1, <1>5, <1>8 DEF RunCallback
  <2>2. callback' = [callback EXCEPT ![s] = <<"ran", q>>] /\ UNCHANGED tasks
    BY <1>1, <1>5, <1>8 DEF RunCallback
  <2>3. r \in Outcomes /\ r[1] # "broken"
    BY <1>6, ResultFacts
  <2>4. futures' \subseteq Ids
    BY <1>6, <2>1
  <2>5. runs' = [runs EXCEPT ![q] = @ + 1] /\ todo' = [todo EXCEPT ![t] = <<q, r>>]
    BY <2>1 DEF Called
  <2>6. UNCHANGED <<value, own, isSet, gone, used, tasks, stack, latch>>
    BY <1>6, <2>2
  <2>7. CallsBack(t, s, kind, q, r)
    BY <1>1, <1>4, <1>5, <2>2, <2>3, <2>4, <2>5, <2>6 DEF CallsBack
  <2>8. QED
    BY <2>3, <2>7, CalledBack
<1>9. CASE ~IsException(s) /\ kind = "post"
  <2>1. /\ tasks' = Append(tasks, q) /\ callback' = [callback EXCEPT ![s] = << >>]
        /\ UNCHANGED <<todo, runs, futures>>
    BY <1>1, <1>5, <1>9 DEF RunCallback
  <2>2. QED
    BY <1>1, <1>4, <1>5, <1>6, <2>1, PostedBack
<1>10. QED
  BY <1>5, <1>7, <1>8, <1>9

\* Thread t destroys the promise q that it alone held.
LEMMA Destroyed ==
  ASSUME IInv, NEW t \in Threads, NEW q \in Conts, Destroy(t, q), todo[t] = << >>,
         stack[t] # << >>, q <= used, q \notin gone,
         \A u \in Threads : u # t /\ todo[u] # << >> => todo[u][1] # q,
         \A u \in Threads : u # t => stack'[u] = stack[u],
         \A u \in Threads, z \in Ids :
           u # t /\ stack[u] # << >> /\ Top(u) = <<"state", z>> => callback'[z] = callback[z],
         UNCHANGED <<value, own, isSet, used, latch>>
  PROVE  /\ gone' \subseteq Ids \ {1}
         /\ todo' \in [Threads -> {<< >>} \cup (Ids \X Outcomes)]
         /\ Unsettled' /\ Setters' /\ Latch'
<1> USE DEF IInv
<1>1. q \in Ids /\ q # 1 /\ q \in Nat
  BY IdFacts
<1>2. gone' = gone \cup {q} /\ gone' \subseteq Ids \ {1}
  BY <1>1 DEF Destroy, TypeOK
<1>3. <<q, <<"broken">>>> \in Ids \X Outcomes
  BY <1>1 DEF Outcomes
<1>4. /\ todo' \in [Threads -> {<< >>} \cup (Ids \X Outcomes)]
      /\ todo'[t] = << >> \/ (todo'[t] = <<q, <<"broken">>>> /\ Breaks(q))
      /\ \A u \in Threads : u # t => todo'[u] = todo[u]
  BY <1>3 DEF Destroy, TypeOK
<1>5. Unsettled'
  <2>1. used \in Nat
    BY DEF TypeOK
  <2>2. \A p \in Ids : p > used => p # q
    BY <1>1, <2>1
  <2>3. QED
    BY <1>2, <2>2 DEF Unsettled, OnlyOwner
<1>6. cas'[t] = << >>
  BY DEF Setters, SetterOK, latch
<1>7. SetterOK(t)'
  <2>1. CASE todo'[t] = << >>
    BY <1>6, <2>1 DEF SetterOK
  <2>2. CASE todo'[t] = <<q, <<"broken">>>> /\ Breaks(q)
    <3>1. own[q] # 0 /\ (OnlyOwner(q) => value[q] = "none")
      BY <1>1, <2>2, BreaksFacts
    <3>2. own'[q] # 0 /\ (OnlyOwner(q)' => value'[q] = "none")
      BY <3>1 DEF OnlyOwner
    <3>3. q \in gone' /\ q <= used' /\ q # 1
      BY <1>1, <1>2
    <3>4. QED
      BY <1>6, <2>2, <3>2, <3>3 DEF SetterOK
  <2>3. QED
    BY <1>4, <2>1, <2>2
<1>8. ASSUME NEW u \in Threads, u # t PROVE SetterOK(u)'
  <2>1. /\ SetterOK(u) /\ used \in Nat
        /\ todo \in [Threads -> {<< >>} \cup (Ids \X Outcomes)]
        /\ todo'[u] = todo[u] /\ cas'[u] = cas[u] /\ stack'[u] = stack[u]
    BY <1>4, <1>8 DEF Setters, TypeOK, latch
  <2>2. todo[u] # << >> => (todo[u][1] \in gone' <=> todo[u][1] \in gone)
    BY <1>2, <1>8
  <2>3. todo[u] # << >> /\ todo[u][2][1] = "broken" =>
                /\ own'[todo[u][1]] # 0
                /\ OnlyOwner(todo[u][1])' => value'[todo[u][1]] = "none"
    BY <2>1 DEF SetterOK, OnlyOwner
  <2>4. \A z \in Ids : stack[u] # << >> /\ Top(u) = <<"state", z>> => callback'[z] = callback[z]
    BY <1>8
  <2>5. QED
    BY <2>1, <2>2, <2>3, <2>4, OtherSetter
<1>9. Setters'
  <2>1. \A u \in Threads : SetterOK(u)'
    BY <1>7, <1>8
  <2>2. todo'[t] = << >> \/ todo'[t][1] = q
    BY <1>4
  <2>3. QED
    BY <1>4, <2>1, <2>2, NewSetter
<1>10. Latch'
  BY <1>1, <1>4 DEF Latch, latch
<1>11. QED
  BY <1>2, <1>4, <1>5, <1>9, <1>10

LEMMA CallbackDoneStep ==
  ASSUME IInv, NEW t \in Threads, CallbackDone(t)
  PROVE  IInv'
<1>1. PICK s \in Ids :
        /\ s = Top(t)[2] /\ Top(t) = <<"state", s>> /\ stack[t] # << >> /\ todo[t] = << >>
        /\ \A u \in Threads : stack[u] # << >> /\ Top(u) = <<"state", s>> => u = t
  BY WithinState DEF CallbackDone
<1>2. /\ callback[s] # << >> /\ callback[s][1] = "ran" /\ Destroy(t, callback[s][2])
      /\ callback' = [callback EXCEPT ![s] = << >>]
      /\ UNCHANGED <<value, own, isSet, futures, used, tasks, stack, latch, runs>>
  BY <1>1 DEF CallbackDone
<1>3. callback[s] \in Callbacks
  BY <1>2 DEF IInv, TypeOK
<1>4. PICK q \in Conts : callback[s] = <<"ran", q>> /\ Destroy(t, q)
  BY <1>2, <1>3 DEF Callbacks
<1> USE DEF IInv
<1>5. HeldByCallback(s, q)
  BY <1>4 DEF HeldByCallback
<1>6. q <= used /\ q \notin gone
  BY <1>5 DEF HeldAlive
<1>7. \A u \in Threads : u # t /\ todo[u] # << >> => todo[u][1] # q
  BY <1>1, <1>5, CallbackAlone
<1>8. callback'[s] = << >> /\ \A z \in Ids : z # s => callback'[z] = callback[z]
  BY <1>2 DEF TypeOK
<1>9. /\ gone' \subseteq Ids \ {1}
      /\ todo' \in [Threads -> {<< >>} \cup (Ids \X Outcomes)]
      /\ Unsettled' /\ Setters' /\ Latch'
  <2>1. \A u \in Threads, z \in Ids :
          u # t /\ stack[u] # << >> /\ Top(u) = <<"state", z>> => callback'[z] = callback[z]
    BY <1>1, <1>8
  <2>2. QED
    BY <1>1, <1>2, <1>4, <1>6, <1>7, <2>1, Destroyed
<1>10. TypeOK'
  BY <1>2, <1>9 DEF TypeOK, latch
<1>11. \A z \in Ids, p \in Conts :
        HeldByCallback(z, p)' => HeldByCallback(z, p) /\ callback'[z] = callback[z] /\ p # q
  BY <1>5, <1>8 DEF HeldByCallback, HeldOnce
<1>12. FramesOnce' /\ HeldOnce'
  BY <1>2, <1>11 DEF FramesOnce, HeldOnce, HeldByTask, HeldByFrame
<1>13. HeldAlive'
  <2> SUFFICES ASSUME NEW p \in Conts,
                      \/ \E z \in Ids : HeldByCallback(z, p)'
                      \/ \E i \in 1 .. Len(tasks') : HeldByTask(i, p)'
                      \/ \E u \in Threads : \E i \in 1 .. Len(stack'[u]) : HeldByFrame(u, i, p)'
               PROVE  p <= used' /\ p \notin gone'
    BY DEF HeldAlive
  <2>1. gone' = gone \cup {q}
    BY <1>4 DEF Destroy
  <2>2. /\ \/ \E z \in Ids : HeldByCallback(z, p)
           \/ \E i \in 1 .. Len(tasks) : HeldByTask(i, p)
           \/ \E u \in Threads : \E i \in 1 .. Len(stack[u]) : HeldByFrame(u, i, p)
        /\ p # q
    <3>1. CASE \E z \in Ids : HeldByCallback(z, p)'
      BY <1>11, <3>1
    <3>2. CASE \E i \in 1 .. Len(tasks') : HeldByTask(i, p)'
      BY <1>2, <1>5, <3>2 DEF HeldOnce, HeldByTask
    <3>3. CASE \E u \in Threads : \E i \in 1 .. Len(stack'[u]) : HeldByFrame(u, i, p)'
      BY <1>2, <1>5, <3>3 DEF HeldOnce, HeldByFrame
    <3>4. QED
      BY <3>1, <3>2, <3>3
  <2>3. QED
    BY <1>2, <2>1, <2>2 DEF HeldAlive
<1>14. CalledOnce'
  BY <1>2, <1>11 DEF CalledOnce, HeldByTask
<1>15. QED
  BY <1>9, <1>10, <1>12, <1>13, <1>14

\* A frame is popped: what the others hold is what they held.
LEMMA Popped ==
  ASSUME IInv, NEW t \in Threads, stack[t] # << >>, Pop(t)
  PROVE  /\ FramesOnce'
         /\ \A u \in Threads : \A i \in 1 .. Len(stack'[u]) :
              i \in 1 .. Len(stack[u]) /\ stack'[u][i] = stack[u][i]
         /\ \A i \in 1 .. Len(stack'[t]) : stack'[t][i] # Top(t)
<1>1. /\ \A u \in Threads : u # t => stack'[u] = stack[u]
      /\ Len(stack[t]) \in Nat \ {0} /\ Len(stack'[t]) = Len(stack[t]) - 1
      /\ \A i \in 1 .. Len(stack'[t]) : stack'[t][i] = stack[t][i]
  BY PopFacts DEF IInv
<1>2. \A u \in Threads : \A i \in 1 .. Len(stack'[u]) :
        i \in 1 .. Len(stack[u]) /\ stack'[u][i] = stack[u][i]
  BY <1>1
<1>3. FramesOnce'
  <2> SUFFICES ASSUME NEW u \in Threads, NEW w \in Threads,
                      NEW i \in 1 .. Len(stack'[u]), NEW j \in 1 .. Len(stack'[w]),
                      stack'[u][i] = stack'[w][j]
               PROVE  u = w /\ i = j
    BY DEF FramesOnce
  <2>1. i \in 1 .. Len(stack[u]) /\ j \in 1 .. Len(stack[w]) /\ stack[u][i] = stack[w][j]
    BY <1>2
  <2>2. QED
    BY <2>1, SameFrame DEF IInv
<1>4. ASSUME NEW i \in 1 .. Len(stack'[t]), stack'[t][i] = Top(t) PROVE FALSE
  <2>1. /\ Len(stack[t]) \in 1 .. Len(stack[t]) /\ Top(t) = stack[t][Len(stack[t])]
    BY TopFacts DEF IInv
  <2>2. i \in 1 .. Len(stack[t]) /\ stack[t][i] = stack[t][Len(stack[t])]
    BY <1>2, <1>4, <2>1
  <2>3. i = Len(stack[t])
    BY <2>1, <2>2, Zenon DEF IInv, FramesOnce
  <2>4. QED
    BY <1>1, <2>3
<1>5. QED
  BY <1>2, <1>3, <1>4

LEMMA UnlockStep ==
  ASSUME IInv, NEW t \in Threads, Unlock(t)
  PROVE  IInv'
<1> USE DEF IInv
<1>1. /\ stack[t] # << >> /\ todo[t] = << >> /\ Pop(t)
      /\ UNCHANGED <<value, own, isSet, gone, chain, todo, latch>>
  BY DEF Unlock, Within
<1>2. /\ stack' \in [Threads -> Seq(Frames)]
      /\ \A u \in Threads : u # t => stack'[u] = stack[u]
  BY <1>1, PopFacts
<1>3. /\ FramesOnce'
      /\ \A u \in Threads : \A i \in 1 .. Len(stack'[u]) :
           i \in 1 .. Len(stack[u]) /\ stack'[u][i] = stack[u][i]
  BY <1>1, Popped
<1>4. TypeOK'
  BY <1>1, <1>2 DEF TypeOK, chain, latch
<1>5. \A u \in Threads : \A i \in 1 .. Len(stack'[u]), q \in Conts :
        HeldByFrame(u, i, q)' => i \in 1 .. Len(stack[u]) /\ HeldByFrame(u, i, q)
  BY <1>3 DEF HeldByFrame
<1>6. HeldOnce'
  BY <1>1, <1>5 DEF HeldOnce, HeldByCallback, HeldByTask, chain
<1>7. HeldAlive'
  BY <1>1, <1>5 DEF HeldAlive, HeldByCallback, HeldByTask, chain
<1>8. CalledOnce' /\ Unsettled' /\ Latch'
  BY <1>1 DEF CalledOnce, HeldByCallback, HeldByTask, chain, Unsettled, OnlyOwner, Latch, latch
<1>9. ASSUME NEW u \in Threads, u # t PROVE SetterOK(u)'
  <2>1. stack'[u] = stack[u] /\ Top(u)' = Top(u)
    BY <1>2, <1>9 DEF Top
  <2>2. QED
    BY <1>1, <2>1 DEF Setters, SetterOK, OnlyOwner, chain, latch
<1>10. SetterOK(t)'
  BY <1>1 DEF Setters, SetterOK, latch
<1>11. Setters'
  BY <1>1, <1>9, <1>10 DEF Setters
<1>12. QED
  BY <1>3, <1>4, <1>6, <1>7, <1>8, <1>11

LEMMA TaskDoneStep ==
  ASSUME IInv, NEW t \in Threads, TaskDone(t)
  PROVE  IInv'
<1> USE DEF IInv
<1>1. /\ stack[t] # << >> /\ todo[t] = << >> /\ Top(t)[1] = "task"
      /\ Destroy(t, Top(t)[2]) /\ Pop(t)
      /\ UNCHANGED <<value, own, isSet, chain, latch>>
  BY DEF TaskDone, Within
<1>2. Top(t) \in Frames /\ Len(stack[t]) \in 1 .. Len(stack[t]) /\ Top(t) = stack[t][Len(stack[t])]
  BY <1>1, TopFacts
<1>3. PICK q \in Conts : Top(t) = <<"task", q>> /\ Destroy(t, q)
  BY <1>1, <1>2 DEF Frames
<1>4. HeldByFrame(t, Len(stack[t]), q)
  BY <1>2, <1>3 DEF HeldByFrame
<1>5. q <= used /\ q \notin gone
  BY <1>2, <1>4 DEF HeldAlive
<1>6. \A u \in Threads : u # t /\ todo[u] # << >> => todo[u][1] # q
  BY <1>1, <1>3, TaskAlone
<1>7. /\ stack' \in [Threads -> Seq(Frames)]
      /\ \A u \in Threads : u # t => stack'[u] = stack[u]
  BY <1>1, PopFacts
<1>8. /\ FramesOnce'
      /\ \A u \in Threads : \A i \in 1 .. Len(stack'[u]) :
           i \in 1 .. Len(stack[u]) /\ stack'[u][i] = stack[u][i]
      /\ \A i \in 1 .. Len(stack'[t]) : stack'[t][i] # Top(t)
  BY <1>1, Popped
<1>9. /\ gone' \subseteq Ids \ {1}
      /\ todo' \in [Threads -> {<< >>} \cup (Ids \X Outcomes)]
      /\ Unsettled' /\ Setters' /\ Latch'
  <2>1. UNCHANGED <<value, own, isSet, used, latch>> /\ UNCHANGED callback
    BY <1>1 DEF chain
  <2>2. QED
    BY <1>1, <1>3, <1>5, <1>6, <1>7, <2>1, Destroyed
<1>10. TypeOK'
  BY <1>1, <1>7, <1>9 DEF TypeOK, chain, latch
<1>11. \A u \in Threads : \A i \in 1 .. Len(stack'[u]), p \in Conts :
        HeldByFrame(u, i, p)' => i \in 1 .. Len(stack[u]) /\ HeldByFrame(u, i, p) /\ p # q
  <2> SUFFICES ASSUME NEW u \in Threads, NEW i \in 1 .. Len(stack'[u]), NEW p \in Conts,
                      HeldByFrame(u, i, p)'
               PROVE  i \in 1 .. Len(stack[u]) /\ HeldByFrame(u, i, p) /\ p # q
    OBVIOUS
  <2>1. i \in 1 .. Len(stack[u]) /\ HeldByFrame(u, i, p) /\ stack'[u][i] = stack[u][i]
    BY <1>8 DEF HeldByFrame
  <2>2. ASSUME p = q PROVE FALSE
    <3>1. stack[u][i] = stack[t][Len(stack[t])]
      BY <1>2, <1>3, <2>1, <2>2 DEF HeldByFrame
    <3>2. u = t
      BY <1>2, <2>1, <3>1, Zenon DEF FramesOnce
    <3>3. QED
      BY <1>2, <1>8, <2>1, <3>1, <3>2
  <2>3. QED
    BY <2>1, <2>2
<1>12. HeldOnce'
  BY <1>1, <1>11 DEF HeldOnce, HeldByCallback, HeldByTask, chain
<1>13. HeldAlive'
  <2> SUFFICES ASSUME NEW p \in Conts,
                      \/ \E z \in Ids : HeldByCallback(z, p)'
                      \/ \E i \in 1 .. Len(tasks') : HeldByTask(i, p)'
                      \/ \E u \in Threads : \E i \in 1 .. Len(stack'[u]) : HeldByFrame(u, i, p)'
               PROVE  p <= used' /\ p \notin gone'
    BY DEF HeldAlive
  <2>1. gone' = gone \cup {q} /\ used' = used
    BY <1>1, <1>3 DEF Destroy, chain
  <2>2. /\ \/ \E z \in Ids : HeldByCallback(z, p)
           \/ \E i \in 1 .. Len(tasks) : HeldByTask(i, p)
           \/ \E u \in Threads : \E i \in 1 .. Len(stack[u]) : HeldByFrame(u, i, p)
        /\ p # q
    <3>1. CASE \E z \in Ids : HeldByCallback(z, p)'
      BY <1>1, <1>2, <1>4, <3>1 DEF HeldOnce, HeldByCallback, chain
    <3>2. CASE \E i \in 1 .. Len(tasks') : HeldByTask(i, p)'
      BY <1>1, <1>2, <1>4, <3>2 DEF HeldOnce, HeldByTask, chain
    <3>3. CASE \E u \in Threads : \E i \in 1 .. Len(stack'[u]) : HeldByFrame(u, i, p)'
      BY <1>11, <3>3
    <3>4. QED
      BY <3>1, <3>2, <3>3
  <2>3. QED
    BY <2>1, <2>2 DEF HeldAlive
<1>14. CalledOnce'
  BY <1>1 DEF CalledOnce, HeldByTask, HeldByCallback, chain
<1>15. QED
  BY <1>8, <1>9, <1>10, <1>12, <1>13, <1>14

LEMMA RunTaskStep ==
  ASSUME IInv, NEW t \in Threads, RunTask(t)
  PROVE  IInv'
<1> USE DEF IInv
<1>1. /\ Idle(t) /\ tasks # << >> /\ tasks' = Tail(tasks)
      /\ Push(t, <<"task", Head(tasks)>>)
      /\ UNCHANGED <<value, callback, own, isSet, gone, used, latch>>
  BY DEF RunTask
<1>2. PICK r \in Results :
        /\ Called(t, Head(tasks), r)
        /\ futures' = IF r[1] = "future" THEN futures \ {r[2]} ELSE futures
  BY DEF RunTask
<1>3. futures' \subseteq Ids /\ r \in Outcomes /\ r[1] # "broken"
  BY <1>2, ResultFacts DEF TypeOK
<1>4. /\ tasks \in Seq(Conts) /\ Len(tasks) \in Nat \ {0}
      /\ Tail(tasks) \in Seq(Conts) /\ Len(Tail(tasks)) = Len(tasks) - 1
      /\ \A i \in 1 .. Len(Tail(tasks)) : Tail(tasks)[i] = tasks[i + 1]
      /\ Head(tasks) = tasks[1] /\ Head(tasks) \in Conts
  <2>1. tasks \in Seq(Conts)
    BY DEF TypeOK
  <2>2. Len(tasks) \in Nat \ {0}
    BY <1>1, <2>1, LenProperties, EmptySeq
  <2>3. QED
    BY <1>1, <2>1, <2>2, HeadTailProperties
<1>5. PICK q \in Conts : q = Head(tasks)
  BY <1>4
<1>6. HeldByTask(1, q) /\ 1 \in 1 .. Len(tasks)
  BY <1>4, <1>5 DEF HeldByTask
<1>7. q \in Ids /\ q \notin {1, 2} /\ q <= used /\ q \notin gone /\ runs[q] = 0
  BY <1>6, IdFacts DEF HeldAlive, CalledOnce
<1>8. <<"task", q>> \in Frames
  BY DEF Frames
<1>9. /\ stack' \in [Threads -> Seq(Frames)]
      /\ \A u \in Threads : u # t => stack'[u] = stack[u]
      /\ Len(stack[t]) \in Nat /\ Len(stack'[t]) = Len(stack[t]) + 1
      /\ \A i \in 1 .. Len(stack[t]) : stack'[t][i] = stack[t][i]
      /\ stack'[t][Len(stack[t]) + 1] = <<"task", q>>
      /\ stack'[t] # << >> /\ Last(stack'[t]) = <<"task", q>>
  BY <1>1, <1>5, <1>8, PushFacts
<1>10. /\ todo' \in [Threads -> {<< >>} \cup (Ids \X Outcomes)]
       /\ todo'[t] = <<q, r>> /\ \A u \in Threads : u # t => todo'[u] = todo[u]
       /\ todo[t] = << >> /\ cas'[t] = << >>
  BY <1>1, <1>2, <1>3, <1>5, <1>7 DEF Called, TypeOK, Idle, latch
<1>11. /\ runs' \in [Ids -> Nat] /\ runs'[q] = 1
       /\ \A p \in Ids : p # q => runs'[p] = runs[p]
  BY <1>2, <1>5, <1>7 DEF TypeOK, Called
<1>12. TypeOK'
  BY <1>1, <1>3, <1>4, <1>9, <1>10, <1>11 DEF TypeOK, latch
<1>13. \A x \in Threads : \A k \in 1 .. Len(stack'[x]) :
         \/ k \in 1 .. Len(stack[x]) /\ stack'[x][k] = stack[x][k]
         \/ x = t /\ k = Len(stack[t]) + 1 /\ stack'[x][k] = <<"task", q>>
  BY <1>9
<1>14. \A x \in Threads : \A k \in 1 .. Len(stack[x]) : stack[x][k] # <<"task", q>>
  BY <1>6 DEF HeldOnce, HeldByFrame
<1>15. FramesOnce'
  <2> SUFFICES ASSUME NEW u \in Threads, NEW w \in Threads,
                      NEW i \in 1 .. Len(stack'[u]), NEW j \in 1 .. Len(stack'[w]),
                      stack'[u][i] = stack'[w][j]
               PROVE  u = w /\ i = j
    BY DEF FramesOnce
  <2>1. CASE u = t /\ i = Len(stack[t]) + 1 /\ stack'[u][i] = <<"task", q>>
    BY <1>13, <1>14, <2>1
  <2>2. CASE w = t /\ j = Len(stack[t]) + 1 /\ stack'[w][j] = <<"task", q>>
    BY <1>13, <1>14, <2>2
  <2>3. CASE /\ i \in 1 .. Len(stack[u]) /\ stack'[u][i] = stack[u][i]
             /\ j \in 1 .. Len(stack[w]) /\ stack'[w][j] = stack[w][j]
    <3>1. stack[u][i] = stack[w][j]
      BY <2>3
    <3>2. QED
      BY <2>3, <3>1, SameFrame
  <2>4. QED
    BY <1>13, <2>1, <2>2, <2>3
<1>16. \A i \in 1 .. Len(tasks'), p \in Conts :
         HeldByTask(i, p)' => i + 1 \in 1 .. Len(tasks) /\ HeldByTask(i + 1, p) /\ p # q
  <2> SUFFICES ASSUME NEW i \in 1 .. Len(tasks'), NEW p \in Conts, HeldByTask(i, p)'
               PROVE  i + 1 \in 1 .. Len(tasks) /\ HeldByTask(i + 1, p) /\ p # q
    OBVIOUS
  <2>1. PICK k \in 1 .. Len(tasks) : k = i + 1 /\ k # 1
    BY <1>1, <1>4
  <2>2. HeldByTask(k, p)
    BY <1>1, <1>4, <2>1 DEF HeldByTask
  <2>3. p # q
    BY <1>6, <2>1, <2>2 DEF HeldOnce
  <2>4. QED
    BY <2>1, <2>2, <2>3
<1>17. \A u \in Threads : \A i \in 1 .. Len(stack'[u]), p \in Conts :
         HeldByFrame(u, i, p)' => (i \in 1 .. Len(stack[u]) /\ HeldByFrame(u, i, p)) \/ p = q
  BY <1>13 DEF HeldByFrame
<1>18. \A z \in Ids, p \in Conts :
         (HeldByCallback(z, p)' <=> HeldByCallback(z, p)) /\ ~HeldByCallback(z, q)
  BY <1>1, <1>6 DEF HeldByCallback, HeldOnce
<1>19. HeldOnce'
  <2> SUFFICES ASSUME NEW p \in Conts
               PROVE  /\ \A w, z \in Ids : HeldByCallback(w, p)' /\ HeldByCallback(z, p)' => w = z
                      /\ \A i, j \in 1 .. Len(tasks') : HeldByTask(i, p)' /\ HeldByTask(j, p)' => i = j
                      /\ \A w \in Ids, i \in 1 .. Len(tasks') : ~(HeldByCallback(w, p)' /\ HeldByTask(i, p)')
                      /\ \A u \in Threads : \A i \in 1 .. Len(stack'[u]) :
                           HeldByFrame(u, i, p)' =>
                             /\ \A w \in Ids : ~HeldByCallback(w, p)'
                             /\ \A j \in 1 .. Len(tasks') : ~HeldByTask(j, p)'
    BY DEF HeldOnce
  <2>1. \A w, z \in Ids : HeldByCallback(w, p)' /\ HeldByCallback(z, p)' => w = z
    BY <1>18 DEF HeldOnce
  <2>2. ASSUME NEW i \in 1 .. Len(tasks'), NEW j \in 1 .. Len(tasks'),
               HeldByTask(i, p)', HeldByTask(j, p)'
        PROVE  i = j
    <3>1. i + 1 = j + 1
      BY <1>16, <2>2 DEF HeldOnce
    <3>2. QED
      BY <3>1
  <2>3. \A w \in Ids, i \in 1 .. Len(tasks') : ~(HeldByCallback(w, p)' /\ HeldByTask(i, p)')
    BY <1>16, <1>18 DEF HeldOnce
  <2>4. ASSUME NEW u \in Threads, NEW i \in 1 .. Len(stack'[u]), HeldByFrame(u, i, p)'
        PROVE  /\ \A w \in Ids : ~HeldByCallback(w, p)'
               /\ \A j \in 1 .. Len(tasks') : ~HeldByTask(j, p)'
    <3>1. CASE p = q
      BY <1>16, <1>18, <3>1
    <3>2. CASE p # q
      BY <1>16, <1>17, <1>18, <2>4, <3>2 DEF HeldOnce
    <3>3. QED
      BY <3>1, <3>2
  <2>5. QED
    BY <2>1, <2>2, <2>3, <2>4
<1>20. HeldAlive'
  <2> SUFFICES ASSUME NEW p \in Conts,
                      \/ \E z \in Ids : HeldByCallback(z, p)'
                      \/ \E i \in 1 .. Len(tasks') : HeldByTask(i, p)'
                      \/ \E u \in Threads : \E i \in 1 .. Len(stack'[u]) : HeldByFrame(u, i, p)'
               PROVE  p <= used /\ p \notin gone
    BY <1>1 DEF HeldAlive
  <2>1. CASE \E z \in Ids : HeldByCallback(z, p)'
    BY <1>18, <2>1 DEF HeldAlive
  <2>2. CASE \E i \in 1 .. Len(tasks') : HeldByTask(i, p)'
    BY <1>16, <2>2 DEF HeldAlive
  <2>3. CASE \E u \in Threads : \E i \in 1 .. Len(stack'[u]) : HeldByFrame(u, i, p)'
    BY <1>7, <1>17, <2>3 DEF HeldAlive
  <2>4. QED
    BY <2>1, <2>2, <2>3
<1>21. CalledOnce'
  <2>1. \A p \in Ids : runs'[p] <= 1
    BY <1>11 DEF CalledOnce
  <2>2. ASSUME NEW p \in Conts,
               \/ \E z \in Ids : HeldByCallback(z, p)' /\ callback'[z][1] # "ran"
               \/ \E i \in 1 .. Len(tasks') : HeldByTask(i, p)'
               \/ p > used'
        PROVE  runs'[p] = 0
    <3>1. p # q
      <4>1. ~(q > used)
        BY <1>7, IdFacts DEF TypeOK
      <4>2. QED
        BY <1>1, <1>16, <1>18, <2>2, <4>1
    <3>2. \/ \E z \in Ids : HeldByCallback(z, p) /\ callback[z][1] # "ran"
          \/ \E i \in 1 .. Len(tasks) : HeldByTask(i, p)
          \/ p > used
      BY <1>1, <1>16, <1>18, <2>2
    <3>3. QED
      BY <1>11, <3>1, <3>2, IdFacts DEF CalledOnce
  <2>3. QED
    BY <2>1, <2>2 DEF CalledOnce
<1>22. Unsettled'
  BY <1>1 DEF Unsettled, OnlyOwner
<1>23. \A u \in Threads : u # t /\ todo[u] # << >> => todo[u][1] # q
  BY <1>4, <1>5, <1>6, QueuedAlone
<1>24. ASSUME NEW u \in Threads, u # t PROVE SetterOK(u)'
  <2>1. /\ stack'[u] = stack[u] /\ Top(u)' = Top(u) /\ todo'[u] = todo[u]
    BY <1>9, <1>10, <1>24 DEF Top
  <2>2. QED
    BY <1>1, <2>1 DEF Setters, SetterOK, OnlyOwner, latch
<1>25. SetterOK(t)'
  BY <1>1, <1>3, <1>7, <1>9, <1>10 DEF SetterOK, Top
<1>26. Setters'
  <2>1. \A u \in Threads : SetterOK(u)'
    BY <1>24, <1>25
  <2>2. todo'[t][1] = q
    BY <1>10
  <2>3. QED
    BY <1>10, <1>23, <2>1, <2>2, NewSetter
<1>27. Latch'
  BY <1>1, <1>7, <1>10 DEF Latch, latch
<1>28. QED
  BY <1>12, <1>15, <1>19, <1>20, <1>21, <1>22, <1>26, <1>27

----------------------------------------------------------------------------
(***************************************************************************)
(* future::then.                                                           *)
(***************************************************************************)

\* The next promise is nobody's.
LEMMA FreshFacts ==
  ASSUME IInv, NEW q \in Conts, q = used + 1
  PROVE  /\ q \in Ids /\ q \notin gone /\ ~isSet[q] /\ own[q] = q /\ runs[q] = 0
         /\ \A z \in Ids : ~HeldByCallback(z, q)
         /\ \A i \in 1 .. Len(tasks) : ~HeldByTask(i, q)
         /\ \A u \in Threads : \A i \in 1 .. Len(stack[u]) : ~HeldByFrame(u, i, q)
         /\ \A u \in Threads : todo[u] # << >> => todo[u][1] # q
<1>1. used \in Nat /\ q \in Ids /\ q > used /\ ~(q <= used)
  BY IdFacts DEF IInv, TypeOK
<1>2. q \notin gone /\ ~isSet[q] /\ own[q] = q /\ runs[q] = 0
  BY <1>1 DEF IInv, Unsettled, CalledOnce
<1>3. /\ \A z \in Ids : ~HeldByCallback(z, q)
      /\ \A i \in 1 .. Len(tasks) : ~HeldByTask(i, q)
      /\ \A u \in Threads : \A i \in 1 .. Len(stack[u]) : ~HeldByFrame(u, i, q)
  BY <1>1 DEF IInv, HeldAlive
<1>4. \A u \in Threads : todo[u] # << >> => todo[u][1] # q
  BY <1>1 DEF IInv, Setters, SetterOK
<1>5. QED
  BY <1>1, <1>2, <1>3, <1>4

\* The set of every thread goes on as it was, whatever is made of promise q.
LEMMA ThenSetters ==
  ASSUME IInv, NEW t \in Threads, NEW f \in Ids, NEW q \in Conts, q = used + 1, ~Locked(f),
         UNCHANGED <<own, isSet, stack, todo, latch>>, used' \in {used, q},
         \A z \in Ids : z # f => callback'[z] = callback[z],
         \A p \in Ids : p # q => (p \in gone' <=> p \in gone) /\ value'[p] = value[p]
  PROVE  Setters' /\ Latch'
<1> USE DEF IInv
<1>1. \A u \in Threads : todo[u] # << >> => todo[u][1] # q /\ todo[u][1] \in Ids
  BY FreshFacts DEF TypeOK
<1>2. ASSUME NEW u \in Threads PROVE SetterOK(u)'
  <2>1. \A z \in Ids : stack[u] # << >> /\ Top(u) = <<"state", z>> => callback'[z] = callback[z]
    <3>1. \A i \in 1 .. Len(stack[u]) : stack[u][i] # <<"state", f>>
      BY LockFacts
    <3>2. stack[u] # << >> => Top(u) # <<"state", f>>
      BY <3>1, TopFacts
    <3>3. QED
      BY <3>2
  <2>2. /\ SetterOK(u) /\ used \in Nat /\ used' \in Nat /\ used' >= used
        /\ todo \in [Threads -> {<< >>} \cup (Ids \X Outcomes)]
        /\ todo'[u] = todo[u] /\ cas'[u] = cas[u] /\ stack'[u] = stack[u]
    BY DEF Setters, TypeOK, latch
  <2>3. ASSUME todo[u] # << >>
        PROVE  /\ todo[u][1] \in gone' <=> todo[u][1] \in gone
               /\ todo[u][2][1] = "broken" =>
                    /\ own'[todo[u][1]] # 0
                    /\ OnlyOwner(todo[u][1])' => value'[todo[u][1]] = "none"
    <3>1. PICK p \in Ids : p = todo[u][1] /\ p # q
      BY <1>1, <2>3
    <3>2. OnlyOwner(p)' <=> OnlyOwner(p)
      BY DEF OnlyOwner
    <3>3. OnlyOwner(todo[u][1])' <=> OnlyOwner(p)'
      BY <2>2, <3>1 DEF OnlyOwner
    <3>4. value'[p] = value[p] /\ (p \in gone' <=> p \in gone) /\ own'[p] = own[p]
      BY <3>1
    <3>5. todo[u][2][1] = "broken" => own[p] # 0 /\ (OnlyOwner(p) => value[p] = "none")
      BY <2>2, <2>3, <3>1 DEF SetterOK
    <3>6. QED
      BY <3>1, <3>2, <3>3, <3>4, <3>5
  <2>4. QED
    BY <2>1, <2>2, <2>3, OtherSetter
<1>3. Setters'
  BY <1>2 DEF Setters
<1>4. Latch'
  BY DEF Latch, latch
<1>5. QED
  BY <1>3, <1>4

LEMMA ThenLaterStep ==
  ASSUME IInv, NEW t \in Threads, NEW f \in Ids, NEW q \in Conts, q = used + 1, ~Locked(f),
         NEW kind \in {"inline", "post"}, UNCHANGED <<own, isSet, stack, todo, latch>>,
         ThenLater(f, kind, q)
  PROVE  IInv'
<1> USE DEF IInv
<1>1. /\ callback' = [callback EXCEPT ![f] = <<kind, q>>]
      /\ used' = q /\ futures' = (futures \ {f}) \cup {q}
      /\ UNCHANGED <<value, gone, tasks, runs>>
  BY DEF ThenLater
<1>2. /\ q \in Ids /\ q \notin gone /\ ~isSet[q] /\ own[q] = q /\ runs[q] = 0
      /\ \A z \in Ids : ~HeldByCallback(z, q)
      /\ \A i \in 1 .. Len(tasks) : ~HeldByTask(i, q)
      /\ \A u \in Threads : \A i \in 1 .. Len(stack[u]) : ~HeldByFrame(u, i, q)
  BY FreshFacts
<1>3. <<kind, q>> \in Callbacks
  BY DEF Callbacks
<1>4. callback'[f] = <<kind, q>> /\ \A z \in Ids : z # f => callback'[z] = callback[z]
  BY <1>1 DEF TypeOK
<1>5. TypeOK'
  <2>1. callback' \in [Ids -> {<< >>} \cup Callbacks]
    BY <1>1, <1>3 DEF TypeOK
  <2>2. futures' \subseteq Ids /\ used' \in 2 .. MaxStates
    BY <1>1, <1>2, FuturesAssumption DEF TypeOK, Conts
  <2>3. QED
    BY <1>1, <2>1, <2>2 DEF TypeOK, latch
<1>6. \A z \in Ids, p \in Conts :
        HeldByCallback(z, p)' => \/ HeldByCallback(z, p) /\ p # q /\ callback'[z] = callback[z]
                                 \/ z = f /\ p = q
  BY <1>2, <1>4 DEF HeldByCallback
<1>7. FramesOnce'
  BY DEF FramesOnce
<1>8. HeldOnce'
  <2> SUFFICES ASSUME NEW p \in Conts
               PROVE  /\ \A w, z \in Ids : HeldByCallback(w, p)' /\ HeldByCallback(z, p)' => w = z
                      /\ \A w \in Ids, i \in 1 .. Len(tasks) : ~(HeldByCallback(w, p)' /\ HeldByTask(i, p))
                      /\ \A u \in Threads : \A i \in 1 .. Len(stack[u]) :
                           HeldByFrame(u, i, p) => \A w \in Ids : ~HeldByCallback(w, p)'
    BY <1>1 DEF HeldOnce, HeldByTask, HeldByFrame
  <2>1. CASE p = q
    BY <1>2, <1>6, <2>1
  <2>2. CASE p # q
    BY <1>6, <2>2 DEF HeldOnce
  <2>3. QED
    BY <2>1, <2>2
<1>9. used \in Nat /\ q \in Nat /\ (\A p \in Conts : p <= used => p <= q /\ p \in Nat)
  BY IdFacts DEF TypeOK
<1>10. HeldAlive'
  <2> SUFFICES ASSUME NEW p \in Conts,
                      \/ \E z \in Ids : HeldByCallback(z, p)'
                      \/ \E i \in 1 .. Len(tasks) : HeldByTask(i, p)
                      \/ \E u \in Threads : \E i \in 1 .. Len(stack[u]) : HeldByFrame(u, i, p)
               PROVE  p <= q /\ p \notin gone
    BY <1>1 DEF HeldAlive, HeldByTask, HeldByFrame
  <2>1. CASE p = q
    BY <1>2, <1>9, <2>1
  <2>2. CASE p # q
    BY <1>6, <1>9, <2>2 DEF HeldAlive
  <2>3. QED
    BY <2>1, <2>2
<1>11. CalledOnce'
  <2>1. ASSUME NEW p \in Conts,
               \/ \E z \in Ids : HeldByCallback(z, p)' /\ callback'[z][1] # "ran"
               \/ \E i \in 1 .. Len(tasks') : HeldByTask(i, p)'
               \/ p > used'
        PROVE  runs'[p] = 0
    <3>1. CASE p = q
      BY <1>1, <1>2, <3>1
    <3>2. CASE p # q
      <4>1. p > q => p > used
        BY <1>9, IdFacts
      <4>2. \/ \E z \in Ids : HeldByCallback(z, p) /\ callback[z][1] # "ran"
            \/ \E i \in 1 .. Len(tasks) : HeldByTask(i, p)
            \/ p > used
        BY <1>1, <1>6, <2>1, <3>2, <4>1 DEF HeldByTask
      <4>3. QED
        BY <1>1, <4>2 DEF CalledOnce
    <3>3. QED
      BY <3>1, <3>2
  <2>2. QED
    BY <1>1, <2>1 DEF CalledOnce
<1>12. Unsettled'
  <2>1. \A p \in Ids : p > q => p > used
    BY <1>9, FuturesAssumption DEF Ids
  <2>2. QED
    BY <1>1, <2>1 DEF Unsettled, OnlyOwner
<1>13. Setters' /\ Latch'
  BY <1>1, <1>4, ThenSetters
<1>14. QED
  BY <1>5, <1>7, <1>8, <1>10, <1>11, <1>12, <1>13

\* The result is there at once, in the state of a promise that is not kept.
LEMMA ReadyMadeStep ==
  ASSUME IInv, NEW t \in Threads, NEW f \in Ids, NEW q \in Conts, q = used + 1, ~Locked(f),
         NEW v \in {"value", "exception"}, UNCHANGED <<own, isSet, stack, todo, latch>>,
         ReadyMade(q, f, v), UNCHANGED runs \/ runs' = [runs EXCEPT ![q] = 1]
  PROVE  IInv' /\ Settled
<1> USE DEF IInv
<1>1. /\ value' = [value EXCEPT ![q] = v] /\ gone' = gone \cup {q}
      /\ used' = q /\ futures' = (futures \ {f}) \cup {q}
      /\ UNCHANGED <<callback, tasks>>
  BY DEF ReadyMade
<1>2. /\ q \in Ids /\ q \notin gone /\ ~isSet[q] /\ own[q] = q /\ runs[q] = 0
      /\ \A z \in Ids : ~HeldByCallback(z, q)
      /\ \A i \in 1 .. Len(tasks) : ~HeldByTask(i, q)
      /\ \A u \in Threads : \A i \in 1 .. Len(stack[u]) : ~HeldByFrame(u, i, q)
  BY FreshFacts
<1>3. /\ value' \in [Ids -> {"none", "value", "exception", "broken"}]
      /\ \A p \in Ids : p # q => value'[p] = value[p]
      /\ runs' \in [Ids -> Nat] /\ runs'[q] <= 1
      /\ \A p \in Ids : p # q => runs'[p] = runs[p]
  <2>1. /\ value' \in [Ids -> {"none", "value", "exception", "broken"}]
        /\ \A p \in Ids : p # q => value'[p] = value[p]
    BY <1>1, <1>2 DEF TypeOK
  <2>2. CASE UNCHANGED runs
    BY <1>2, <2>1, <2>2 DEF TypeOK
  <2>3. CASE runs' = [runs EXCEPT ![q] = 1]
    BY <1>2, <2>1, <2>3 DEF TypeOK
  <2>4. QED
    BY <2>2, <2>3
<1>4. used \in Nat /\ q \in Nat /\ q # 1
      /\ (\A p \in Conts : p <= used => p <= q /\ p \in Nat)
      /\ (\A p \in Ids : p > q => p > used /\ p # q)
  <2>1. used \in Nat /\ q \in Nat /\ q # 1 /\ \A p \in Ids : p \in Nat
    BY IdFacts, FuturesAssumption DEF TypeOK, Ids
  <2>2. QED
    BY <2>1, IdFacts
<1>5. TypeOK'
  <2>1. futures' \subseteq Ids /\ used' \in 2 .. MaxStates /\ gone' \subseteq Ids \ {1}
    BY <1>1, <1>2, <1>4, FuturesAssumption DEF TypeOK, Conts
  <2>2. QED
    BY <1>1, <1>3, <2>1 DEF TypeOK, latch
<1>6. FramesOnce' /\ HeldOnce'
  BY <1>1, SMTT(30) DEF FramesOnce, HeldOnce, HeldByTask, HeldByFrame, HeldByCallback
<1>7. HeldAlive'
  <2> SUFFICES ASSUME NEW p \in Conts,
                      \/ \E z \in Ids : HeldByCallback(z, p)
                      \/ \E i \in 1 .. Len(tasks) : HeldByTask(i, p)
                      \/ \E u \in Threads : \E i \in 1 .. Len(stack[u]) : HeldByFrame(u, i, p)
               PROVE  p <= q /\ p \notin gone \cup {q}
    BY <1>1 DEF HeldAlive, HeldByTask, HeldByFrame, HeldByCallback
  <2>1. p # q
    BY <1>2
  <2>2. QED
    BY <1>4, <2>1 DEF HeldAlive
<1>8. CalledOnce'
  <2>1. ASSUME NEW p \in Conts,
               \/ \E z \in Ids : HeldByCallback(z, p)' /\ callback'[z][1] # "ran"
               \/ \E i \in 1 .. Len(tasks') : HeldByTask(i, p)'
               \/ p > used'
        PROVE  runs'[p] = 0
    <3>1. \/ \E z \in Ids : HeldByCallback(z, p) /\ callback[z][1] # "ran"
          \/ \E i \in 1 .. Len(tasks) : HeldByTask(i, p)
          \/ p > used
      BY <1>1, <1>4, <2>1, IdFacts DEF HeldByTask, HeldByCallback
    <3>2. p # q
      BY <1>1, <1>2, <1>4, <2>1, IdFacts DEF HeldByTask, HeldByCallback
    <3>3. QED
      BY <1>3, <3>1, <3>2, IdFacts DEF CalledOnce
  <2>2. \A p \in Ids : runs'[p] <= 1
    BY <1>3 DEF CalledOnce
  <2>3. QED
    BY <2>1, <2>2 DEF CalledOnce
<1>9. Unsettled'
  BY <1>1, <1>2, <1>3, <1>4 DEF Unsettled, OnlyOwner
<1>10. Setters' /\ Latch'
  BY <1>1, <1>3, ThenSetters
<1>11. Settled
  BY <1>2, <1>3 DEF Settled, Unsettled, Ready
<1>12. QED
  BY <1>5, <1>6, <1>7, <1>8, <1>9, <1>10, <1>11

\* The continuation is posted at once.
LEMMA ThenPostStep ==
  ASSUME IInv, NEW t \in Threads, NEW f \in Ids, NEW q \in Conts, q = used + 1, ~Locked(f),
         UNCHANGED <<own, isSet, stack, todo, latch>>,
         tasks' = Append(tasks, q), used' = q, futures' = (futures \ {f}) \cup {q},
         UNCHANGED <<value, gone, callback, runs>>
  PROVE  IInv'
<1> USE DEF IInv
<1>1. /\ q \in Ids /\ q \notin gone /\ ~isSet[q] /\ own[q] = q /\ runs[q] = 0
      /\ \A z \in Ids : ~HeldByCallback(z, q)
      /\ \A i \in 1 .. Len(tasks) : ~HeldByTask(i, q)
      /\ \A u \in Threads : \A i \in 1 .. Len(stack[u]) : ~HeldByFrame(u, i, q)
  BY FreshFacts
<1>2. /\ tasks' \in Seq(Conts) /\ Len(tasks) \in Nat /\ Len(tasks') = Len(tasks) + 1
      /\ \A i \in 1 .. Len(tasks) : tasks'[i] = tasks[i]
      /\ tasks'[Len(tasks) + 1] = q
  BY AppendProperties, LenProperties DEF TypeOK
<1>3. used \in Nat /\ q \in Nat
      /\ (\A p \in Conts : p <= used => p <= q /\ p \in Nat)
      /\ (\A p \in Ids : p > q => p > used /\ p # q)
  <2>1. used \in Nat /\ q \in Nat /\ \A p \in Ids : p \in Nat
    BY IdFacts, FuturesAssumption DEF TypeOK, Ids
  <2>2. QED
    BY <2>1, IdFacts
<1>4. TypeOK'
  <2>1. futures' \subseteq Ids /\ used' \in 2 .. MaxStates
    BY <1>1, FuturesAssumption DEF TypeOK, Conts
  <2>2. QED
    BY <1>2, <2>1 DEF TypeOK, latch
<1>5. \A i \in 1 .. Len(tasks') : \A p \in Conts :
        HeldByTask(i, p)' => \/ i \in 1 .. Len(tasks) /\ HeldByTask(i, p) /\ p # q
                             \/ i = Len(tasks) + 1 /\ p = q
  BY <1>1, <1>2 DEF HeldByTask
<1>6. FramesOnce'
  BY DEF FramesOnce
<1>7. HeldOnce'
  <2> SUFFICES ASSUME NEW p \in Conts
               PROVE  /\ \A i, j \in 1 .. Len(tasks') : HeldByTask(i, p)' /\ HeldByTask(j, p)' => i = j
                      /\ \A w \in Ids, i \in 1 .. Len(tasks') : ~(HeldByCallback(w, p) /\ HeldByTask(i, p)')
                      /\ \A u \in Threads : \A i \in 1 .. Len(stack[u]) :
                           HeldByFrame(u, i, p) => \A j \in 1 .. Len(tasks') : ~HeldByTask(j, p)'
    BY DEF HeldOnce, HeldByCallback, HeldByFrame
  <2>1. CASE p = q
    BY <1>1, <1>5, <2>1
  <2>2. CASE p # q
    BY <1>5, <2>2 DEF HeldOnce
  <2>3. QED
    BY <2>1, <2>2
<1>8. HeldAlive'
  <2> SUFFICES ASSUME NEW p \in Conts,
                      \/ \E z \in Ids : HeldByCallback(z, p)
                      \/ \E i \in 1 .. Len(tasks') : HeldByTask(i, p)'
                      \/ \E u \in Threads : \E i \in 1 .. Len(stack[u]) : HeldByFrame(u, i, p)
               PROVE  p <= q /\ p \notin gone
    BY DEF HeldAlive, HeldByCallback, HeldByFrame
  <2>1. CASE p = q
    BY <1>1, <1>3, <2>1
  <2>2. CASE p # q
    BY <1>3, <1>5, <2>2 DEF HeldAlive
  <2>3. QED
    BY <2>1, <2>2
<1>9. CalledOnce'
  <2>1. ASSUME NEW p \in Conts,
               \/ \E z \in Ids : HeldByCallback(z, p)' /\ callback'[z][1] # "ran"
               \/ \E i \in 1 .. Len(tasks') : HeldByTask(i, p)'
               \/ p > used'
        PROVE  runs'[p] = 0
    <3>1. CASE p = q
      BY <1>1, <3>1
    <3>2. CASE p # q
      BY <1>3, <1>5, <2>1, <3>2, IdFacts DEF CalledOnce, HeldByCallback
    <3>3. QED
      BY <3>1, <3>2
  <2>2. QED
    BY <2>1 DEF CalledOnce
<1>10. Unsettled'
  BY <1>3 DEF Unsettled, OnlyOwner
<1>11. Setters' /\ Latch'
  BY ThenSetters
<1>12. QED
  BY <1>4, <1>6, <1>7, <1>8, <1>9, <1>10, <1>11

LEMMA ThenStep ==
  ASSUME IInv, NEW t \in Threads, NEW f \in futures, NEW kind \in {"inline", "post"},
         Then(t, f, kind)
  PROVE  IInv' /\ Settled
<1>1. /\ used < MaxStates /\ ~Locked(f)
      /\ ThenLater(f, kind, used + 1) \/ ThenNow(f, kind, used + 1)
      /\ UNCHANGED <<own, isSet, stack, todo, latch>>
  BY DEF Then
<1>2. PICK q \in Conts : q = used + 1
  BY <1>1, IdFacts DEF IInv, TypeOK
<1>3. f \in Ids
  BY DEF IInv, TypeOK
<1>4. CASE ThenLater(f, kind, q)
  <2>1. IInv'
    BY <1>1, <1>2, <1>3, <1>4, ThenLaterStep
  <2>2. QED
    BY <1>4, <2>1 DEF ThenLater, Settled
<1>5. ASSUME NEW v \in {"value", "exception"}, ReadyMade(q, f, v),
             UNCHANGED runs \/ runs' = [runs EXCEPT ![q] = 1]
      PROVE  IInv' /\ Settled
  BY <1>1, <1>2, <1>3, <1>5, ReadyMadeStep
<1>6. CASE futures' = futures \ {f} /\ UNCHANGED <<value, gone, used, callback, tasks, runs>>
  <2> USE DEF IInv
  <2>1. FramesOnce' /\ HeldOnce' /\ HeldAlive' /\ CalledOnce'
    BY <1>1, <1>6, SameHolders
  <2>2. TypeOK'
    BY <1>1, <1>6 DEF TypeOK, latch
  <2>3. Unsettled' /\ Settled
    BY <1>1, <1>6 DEF Unsettled, OnlyOwner, Settled
  <2>4. Setters' /\ Latch'
    BY <1>1, <1>2, <1>3, <1>6, ThenSetters
  <2>5. QED
    BY <2>1, <2>2, <2>3, <2>4
<1>7. CASE /\ tasks' = Append(tasks, q) /\ used' = q /\ futures' = (futures \ {f}) \cup {q}
           /\ UNCHANGED <<value, gone, callback, runs>>
  <2>1. IInv'
    BY <1>1, <1>2, <1>3, <1>7, ThenPostStep
  <2>2. QED
    BY <1>7, <2>1 DEF Settled
<1>8. ASSUME ThenNow(f, kind, q) PROVE IInv' /\ Settled
  <2>1. CASE ReadyMade(q, f, "exception") /\ UNCHANGED runs
    BY <1>5, <2>1
  <2>2. CASE runs' = [runs EXCEPT ![q] = 1] /\ \E v \in {"value", "exception"} : ReadyMade(q, f, v)
    BY <1>5, <2>2
  <2>3. QED
    BY <1>6, <1>7, <1>8, <2>1, <2>2 DEF ThenNow
<1>9. QED
  BY <1>1, <1>2, <1>4, <1>8

----------------------------------------------------------------------------
(***************************************************************************)
(* The theorems.                                                           *)
(***************************************************************************)

LEMMA NextIInv ==
  ASSUME IInv, Next
  PROVE  IInv' /\ Settled
<1>1. PICK t \in Threads : Begin(t) \/ Continue(t)
  BY DEF Next
<1>2. ASSUME NEW r \in {<<"value">>, <<"exception">>}, Set(t, r) PROVE IInv' /\ Settled
  BY <1>2, SetStep DEF Set, Settled
<1>3. CASE Drop(t)
  BY <1>3, DropStep DEF Drop, Settled
<1>4. ASSUME NEW f \in futures, NEW kind \in {"inline", "post"}, Then(t, f, kind)
      PROVE  IInv' /\ Settled
  BY <1>4, ThenStep
<1>5. ASSUME NEW amount \in Amounts, CountDown(t, amount) PROVE IInv' /\ Settled
  BY <1>5, CountDownStep DEF CountDown, Settled
<1>6. CASE DoSet(t)
  BY <1>6, DoSetStep
<1>7. CASE RunCallback(t)
  BY <1>7, RunCallbackStep DEF RunCallback, Settled
<1>8. CASE CallbackDone(t)
  BY <1>8, CallbackDoneStep DEF CallbackDone, Settled
<1>9. CASE Unlock(t)
  BY <1>9, UnlockStep DEF Unlock, Settled
<1>10. CASE RunTask(t)
  BY <1>10, RunTaskStep DEF RunTask, Settled
<1>11. CASE TaskDone(t)
  BY <1>11, TaskDoneStep DEF TaskDone, Settled
<1>12. CASE CompareExchange(t)
  BY <1>12, CompareExchangeStep DEF CompareExchange, Settled
<1>13. CASE Begin(t)
  BY <1>2, <1>3, <1>4, <1>5, <1>13 DEF Begin
<1>14. CASE Continue(t)
  BY <1>6, <1>7, <1>8, <1>9, <1>10, <1>11, <1>12, <1>14 DEF Continue
<1>15. QED
  BY <1>1, <1>13, <1>14

\* The inductive invariant holds in every state that threads can reach.
THEOREM Invariant == Spec => []IInv
<1>1. Init => IInv
  BY InitIInv
<1>2. IInv /\ [Next]_vars => IInv'
  BY NextIInv, Stutters
<1>3. QED
  BY <1>1, <1>2, PTL DEF Spec

\* The latch's promise is set by one thread, once, when count_down has reached 0.
THEOREM LatchOpens == Spec => []LatchOpensOnce
<1>1. ASSUME IInv PROVE LatchOpensOnce
  <2>1. Cardinality(Setting(1)) <= 1
    <3>1. CASE Setting(1) = {}
      BY <3>1, FS_EmptySet
    <3>2. CASE Setting(1) # {}
      <4>1. PICK t \in Setting(1) : TRUE
        BY <3>2
      <4>2. Setting(1) = {t}
        BY <1>1, <4>1 DEF Setting, IInv, Setters
      <4>3. QED
        BY <4>2, FS_Singleton
    <3>3. QED
      BY <3>1, <3>2
  <2>2. Setting(1) # {} <=> \E t \in Threads : todo[t] # << >> /\ todo[t][1] = 1
    BY DEF Setting
  <2>3. QED
    BY <1>1, <2>1, <2>2 DEF LatchOpensOnce, IInv, Latch
<1>2. IInv => LatchOpensOnce
  BY <1>1
<1>3. QED
  BY <1>2, Invariant, PTL

\* Neither a second set, nor ~promise, nor a continuation of a continuation
\* changes a value that is there; no continuation is called twice.
THEOREM Settles == Spec => SettlesOnce
<1>1. ASSUME IInv, IInv', [Next]_vars
      PROVE  [\A s \in Ids :
                /\ Ready(s) /\ (\A p \in Ids \ {s} : own[p] # s) => value'[s] = value[s]
                /\ runs'[s] <= 1]_vars
  <2>1. CASE Next
    <3>1. Settled /\ \A s \in Ids : runs'[s] <= 1
      BY <1>1, <2>1, NextIInv DEF IInv, CalledOnce
    <3>2. QED
      BY <3>1 DEF Settled, OnlyOwner
  <2>2. CASE UNCHANGED vars
    BY <2>2
  <2>3. QED
    BY <1>1, <2>1, <2>2
<1>2. IInv /\ IInv' /\ [Next]_vars =>
        [\A s \in Ids :
           /\ Ready(s) /\ (\A p \in Ids \ {s} : own[p] # s) => value'[s] = value[s]
           /\ runs'[s] <= 1]_vars
  BY <1>1
<1>3. QED
  BY <1>2, Invariant, PTL DEF Spec, SettlesOnce
=============================================================================
