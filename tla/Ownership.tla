----------------------------- MODULE Ownership -----------------------------
(***************************************************************************)
(* What the pool promises: a slot is free, owned by one component, or in   *)
(* transfer from its owner to one next owner, and each of its moves is one *)
(* indivisible step.                                                       *)
(***************************************************************************)
CONSTANTS Components, NoComponent, Slots, Links, Allocators

VARIABLE place

Free == [kind |-> "FREE", owner |-> NoComponent, next |-> NoComponent]
OwnedBy(c) == [kind |-> "OWNED", owner |-> c, next |-> NoComponent]
Moving(c, d) == [kind |-> "MOVING", owner |-> c, next |-> d]

Init == place = [s \in Slots |-> Free]

Move(s, from, to) ==
  /\ place[s] = from
  /\ place' = [place EXCEPT ![s] = to]

Allocate(c, s) == c \in Allocators /\ Move(s, Free, OwnedBy(c))
Release(c, s) == Move(s, OwnedBy(c), Free)
Send(c, d, s) == <<c, d>> \in Links /\ Move(s, OwnedBy(c), Moving(c, d))
Rollback(c, d, s) == Move(s, Moving(c, d), OwnedBy(c))
Receive(c, d, s) == Move(s, Moving(c, d), OwnedBy(d))

\* The receiver cannot map the payload: the buffer is given up.
Discard(c, d, s) == Move(s, Moving(c, d), Free)

Next ==
  \E s \in Slots, c \in Components :
    \/ Allocate(c, s)
    \/ Release(c, s)
    \/ \E d \in Components :
         \/ Send(c, d, s)
         \/ Rollback(c, d, s)
         \/ Receive(c, d, s)
         \/ Discard(c, d, s)

Spec == Init /\ [][Next]_place
=============================================================================
