------------------------------ MODULE Channel ------------------------------
(***************************************************************************)
(* What a link's descriptor ring promises the slot protocol: a bounded     *)
(* first-in first-out queue that holds each descriptor at most once.       *)
(***************************************************************************)
EXTENDS Sequences, Naturals

CONSTANTS Messages, Depth

VARIABLE queue

Init == queue = <<>>

Push(m) ==
  /\ Len(queue) < Depth
  /\ \A i \in 1..Len(queue) : queue[i] # m
  /\ queue' = Append(queue, m)

Commit ==
  /\ queue # <<>>
  /\ queue' = Tail(queue)

Next == Commit \/ \E m \in Messages : Push(m)

Spec == Init /\ [][Next]_queue
=============================================================================
