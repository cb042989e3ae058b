----------------------------- MODULE MessageBus -----------------------------
(***************************************************************************)
(* What a message bus (abstract_message_bus of xi/core/channel.h) promises *)
(* its tasks, without its lock, its deques and its ring of slots: a value  *)
(* that is put is handed to exactly one task that gets, directly when the  *)
(* bus holds nothing, or through at most Capacity values it holds in       *)
(* between, in the order in which it took them.                            *)
(***************************************************************************)
EXTENDS Naturals, Sequences

CONSTANTS
  Tasks,     \* the tasks that use the bus
  Values,    \* what they send
  Capacity,  \* how many values the bus may hold
  Nothing    \* no value

VARIABLES
  offer,    \* per task: the value of its unfinished put
  wants,    \* the tasks with an unfinished get that has no value yet
  held,     \* the values the bus has taken and not handed over
  storage   \* per task: the value its get is about to return

vars == <<offer, wants, held, storage>>

Idle(t) == offer[t] = Nothing /\ t \notin wants /\ storage[t] = Nothing

Init ==
  /\ offer = [t \in Tasks |-> Nothing]
  /\ wants = {}
  /\ held = << >>
  /\ storage = [t \in Tasks |-> Nothing]

Put(t, v) ==
  /\ Idle(t)
  /\ offer' = [offer EXCEPT ![t] = v]
  /\ UNCHANGED <<wants, held, storage>>

Get(t) ==
  /\ Idle(t)
  /\ wants' = wants \cup {t}
  /\ UNCHANGED <<offer, held, storage>>

\* A value goes straight from s to r.
Meet(s, r) ==
  /\ offer[s] # Nothing
  /\ r \in wants
  /\ held = << >>
  /\ offer' = [offer EXCEPT ![s] = Nothing]
  /\ wants' = wants \ {r}
  /\ storage' = [storage EXCEPT ![r] = offer[s]]
  /\ UNCHANGED held

Take(s) ==
  /\ offer[s] # Nothing
  /\ Len(held) < Capacity
  /\ held' = Append(held, offer[s])
  /\ offer' = [offer EXCEPT ![s] = Nothing]
  /\ UNCHANGED <<wants, storage>>

Give(r) ==
  /\ r \in wants
  /\ held # << >>
  /\ storage' = [storage EXCEPT ![r] = Head(held)]
  /\ held' = Tail(held)
  /\ wants' = wants \ {r}
  /\ UNCHANGED offer

Return(r) ==
  /\ storage[r] # Nothing
  /\ storage' = [storage EXCEPT ![r] = Nothing]
  /\ UNCHANGED <<offer, wants, held>>

Next ==
  \/ \E t \in Tasks, v \in Values : Put(t, v)
  \/ \E t \in Tasks : Get(t) \/ Take(t) \/ Give(t) \/ Return(t)
  \/ \E s, r \in Tasks : Meet(s, r)

Spec == Init /\ [][Next]_vars
=============================================================================
