--------------------------- MODULE MCSlotProtocol ---------------------------
(* Instances of SlotProtocol for TLC. *)
EXTENDS SlotInvariant, TLC

CONSTANTS a, b, d

Edge == {<<a, b>>}

Chain == {<<a, b>>, <<b, d>>}
Cycle == {<<a, b>>, <<b, a>>, <<b, d>>}

\* The pool after the online restart of a sender that stopped between the
\* publication of TRANSFER and the removal of its token: the descriptor was
\* sent again, the token is still there.
InheritedInit ==
  LET sent == [InitialSlot EXCEPT
                 !.state = "TRANSFER", !.token = Token("SEND", a, 1),
                 !.generation = 1, !.owner = a, !.next = b, !.epoch = 1,
                 !.hops = 1, !.sequence = 1, !.region = "SET", !.source = a,
                 !.sourceEpoch = 1, !.sourceHops = 1]
      first == CHOOSE s \in Slots : TRUE
  IN /\ slot = [s \in Slots |-> IF s = first THEN sent ELSE InitialSlot]
     /\ ring = [l \in Links |->
                 IF l = <<a, b>>
                 THEN <<[slot |-> first, generation |-> 1, source |-> a,
                         destination |-> b, sequence |-> 1]>>
                 ELSE <<>>]
     /\ life = [c \in Components |->
                 [epoch |-> IF c = a THEN 2 ELSE 1, state |-> "ACTIVE"]]
     /\ views = [c \in Components |-> {}]
     /\ pc = [c \in Components |-> [op |-> "NONE", at |-> "idle"]]
     /\ loc = [c \in Components |-> NoCall]

InheritedSpec == (Init \/ InheritedInit) /\ [][Next]_vars /\ Fairness

\* Slots are interchangeable.
SlotSymmetry == Permutations(Slots)
=============================================================================
