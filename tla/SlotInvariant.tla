--------------------------- MODULE SlotInvariant ---------------------------
(***************************************************************************)
(* The inductive invariant of SlotProtocol: what each runtime may rely on  *)
(* at each point of a call, and what a descriptor in a ring says of its    *)
(* slot.                                                                   *)
(***************************************************************************)
EXTENDS SlotProtocol

Steps(kind) ==
  CASE kind = "NONE" -> {"idle"}
    [] kind = "ALLOCATE" ->
         {"scan", "token", "claim", "undo", "fill", "free", "publish", "clear"}
    [] kind = "SEND" ->
         {"token", "claim", "undo", "fill", "publish", "clear", "push"}
    [] kind = "ROLLBACK" ->
         {"check", "token", "claim", "undo", "fill", "publish", "clear", "lost"}
    [] kind = "RECEIVE" ->
         {"check", "token", "claim", "undo", "fill", "free", "publish",
          "clear", "commit", "drop"}
    [] kind = "RELEASE" ->
         {"token", "claim", "undo", "fill", "publish", "clear"}

\* Control: a runtime is at a step of its call and has a slot from the first
\* probe on.
ControlInv(c) ==
  /\ pc[c].at \in Steps(pc[c].op)
  /\ pc[c].op = "NONE" => loc[c].slot = NoSlot
  /\ pc[c].at \notin {"idle", "scan"} => loc[c].slot \in Slots

\* Tokens: from the compare-and-swap of claim_token to its removal the slot
\* carries this claim's token, and it is CLAIMING between the other two.
TokenInv(c) ==
  /\ HoldsToken(c) => Here(c).token = Token(pc[c].op, c, loc[c].epoch)
  /\ InClaim(c) => Here(c).state = "CLAIMING"

\* The slot of the call is the buffer the caller owns.
Mine(c) ==
  /\ Here(c).owner = c
  /\ Here(c).generation = loc[c].generation
  /\ Here(c).epoch = loc[c].epoch
  /\ loc[c].epoch = RegisteredEpoch(c)

Transferring(c) ==
  /\ Mine(c)
  /\ Here(c).next = loc[c].peer
  /\ Here(c).sequence = loc[c].sequence
  /\ loc[c].sequence > 0

AllocInv(c) ==
  pc[c].op = "ALLOCATE" =>
    /\ loc[c].epoch = RegisteredEpoch(c)
    /\ pc[c].at \in {"publish", "clear"} => Mine(c)
    /\ pc[c].at = "clear" => Here(c).state = "OWNED"

SendInv(c) ==
  pc[c].op = "SEND" =>
    /\ <<c, loc[c].peer>> \in Links
    /\ Mine(c)
    /\ pc[c].at \in {"token", "claim", "undo"} => Here(c).state = "OWNED"
    /\ pc[c].at \in {"publish", "clear", "push"} => Transferring(c)
    /\ pc[c].at \in {"clear", "push"} => Here(c).state = "TRANSFER"

RollbackInv(c) ==
  pc[c].op = "ROLLBACK" =>
    /\ loc[c].sequence > 0
    /\ pc[c].at \notin {"undo", "lost"} => Mine(c)
    /\ pc[c].at \in {"check", "token", "claim", "fill"} => Transferring(c)
    /\ pc[c].at \in {"check", "token", "claim"} => Here(c).state = "TRANSFER"
    /\ pc[c].at = "clear" => Here(c).state = "OWNED"

ReleaseInv(c) ==
  pc[c].op = "RELEASE" =>
    /\ pc[c].at \in {"token", "claim", "undo", "fill"} => Mine(c)
    /\ pc[c].at \in {"token", "claim", "undo"} => Here(c).state = "OWNED"

\* A descriptor is live while its transfer waits for the receiver: the slot
\* names it, its sender has finished the send, and only the receiver has
\* claimed the slot, if anyone has.
Sending(c, s) == pc[c].op \in {"SEND", "ROLLBACK"} /\ loc[c].slot = s

Claiming(l, s) ==
  /\ At(l[2], "RECEIVE", "fill")
  /\ loc[l[2]].slot = s
  /\ loc[l[2]].peer = l[1]

Live(l, m) ==
  /\ slot[m.slot].generation = m.generation
  /\ slot[m.slot].owner = l[1]
  /\ slot[m.slot].next = l[2]
  /\ slot[m.slot].sequence = m.sequence
  /\ ~Sending(l[1], m.slot)
  /\ \/ slot[m.slot].state = "TRANSFER"
     \/ slot[m.slot].state = "CLAIMING" /\ Claiming(l, m.slot)

\* The receiver is done with the descriptor at the head and will commit it.
Done(l) ==
  /\ pc[l[2]].op = "RECEIVE"
  /\ loc[l[2]].peer = l[1]
  /\ pc[l[2]].at \in {"publish", "free", "clear", "undo", "commit", "drop"}

RecvInv(c) ==
  LET l == <<loc[c].peer, c>>
  IN pc[c].op = "RECEIVE" =>
       /\ l \in Links
       /\ ring[l] # <<>>
       /\ ring[l][1].slot = loc[c].slot
       /\ ring[l][1].generation = loc[c].generation
       /\ ring[l][1].sequence = loc[c].sequence
       /\ pc[c].at # "check" => loc[c].epoch = RegisteredEpoch(c)
       /\ pc[c].at \in {"check", "token", "claim", "fill"} => Live(l, ring[l][1])
       /\ pc[c].at \in {"check", "token", "claim"} => Here(c).state = "TRANSFER"
       /\ pc[c].at \in {"publish", "clear", "commit"} => Mine(c)
       /\ pc[c].at \in {"clear", "commit"} => Here(c).state = "OWNED"

\* Every descriptor in a ring is live or is the head its receiver is about to
\* commit, and no descriptor is in the ring twice.
RingInv ==
  \A l \in Links : \A i \in 1..Len(ring[l]) :
    /\ ring[l][i].source = l[1]
    /\ ring[l][i].destination = l[2]
    /\ Live(l, ring[l][i]) \/ (i = 1 /\ Done(l))
    /\ \A j \in 1..Len(ring[l]) : ring[l][i] = ring[l][j] => i = j

\* The slot of the current call is exempt from ViewsAreOwned; the view on it,
\* if there is one, still names its generation and epoch.
ViewInv(c) ==
  \A v \in views[c] :
    IF v.slot # loc[c].slot
    THEN BufferOwned(c, v)
    ELSE /\ pc[c].op \in {"SEND", "ROLLBACK", "RELEASE"}
         /\ pc[c].at \notin {"undo", "lost"} \/ pc[c].op # "ROLLBACK" =>
              /\ v.generation = loc[c].generation
              /\ v.epoch = loc[c].epoch

CallInv(c) ==
  /\ ControlInv(c)
  /\ TokenInv(c)
  /\ AllocInv(c)
  /\ SendInv(c)
  /\ RollbackInv(c)
  /\ RecvInv(c)
  /\ ReleaseInv(c)
  /\ ViewInv(c)

\* The claims of all runtimes fit together.
Coherent ==
  /\ TypeOK
  /\ \A c \in Components : CallInv(c)
  /\ NoLeakedToken
  /\ RingInv

(***************************************************************************)
(* The journey of a buffer: what the journal of a transfer says about it   *)
(* while nobody or only its receiver claims the slot.                      *)
(***************************************************************************)
\* The slot was prepared by its owner for a link, with hops to go.
Prepared(s) ==
  /\ <<slot[s].owner, slot[s].next>> \in Links
  /\ slot[s].source = slot[s].owner
  /\ slot[s].sourceHops = slot[s].hops
  /\ slot[s].hops < HopLimit

\* A claimed slot carries the token of its claimer, who is at work on it or
\* has abandoned it in a rollback.
JourneyInv(s) ==
  /\ slot[s].state # "ERROR"
  /\ slot[s].hops <= HopLimit
  /\ slot[s].state = "TRANSFER" => Prepared(s)
  /\ slot[s].state = "CLAIMING" =>
       /\ slot[s].token # NoToken
       /\ \A c \in Components :
            slot[s].token.comp = c /\ HoldsToken(c) /\ loc[c].slot = s => InClaim(c)

TravelInv(c) ==
  /\ pc[c].op = "ALLOCATE" => c \in Allocators
  /\ pc[c].op = "SEND" /\ pc[c].at = "publish" => Prepared(loc[c].slot)
  /\ pc[c].op = "RECEIVE" /\ pc[c].at = "fill" => Prepared(loc[c].slot)
  /\ pc[c].op = "RECEIVE" /\ pc[c].at \in {"publish", "free"} =>
       /\ Here(c).next = NoComponent
       /\ Here(c).source \in Components

Journeys ==
  /\ \A s \in Slots : JourneyInv(s)
  /\ \A c \in Components : TravelInv(c)

\* What every step of every runtime preserves, whatever the constants are.
Inductive == Coherent /\ Journeys

(***************************************************************************)
(* One allocating component and no deadlines: nobody disturbs a transfer.  *)
(***************************************************************************)
OneAllocator == \A c, e \in Allocators : c = e

\* The buffer of the descriptor that c is about to drop was given up: its
\* slot is free, is being allocated, or has been allocated again.
GivenUp(c) ==
  \/ Here(c).generation > loc[c].generation
  \/ /\ Here(c).generation = loc[c].generation
     /\ \/ Here(c).state = "FREE"
        \/ \E e \in Components :
             /\ pc[e].op = "ALLOCATE" /\ pc[e].at = "fill"
             /\ loc[e].slot = loc[c].slot

\* A free slot that was probed stays free, no claim fails and only a claim
\* whose page access failed is abandoned.
ServedInv(c) ==
  /\ pc[c].op = "ALLOCATE" /\ pc[c].at \in {"token", "claim", "undo"} =>
       Here(c).state = "FREE"
  /\ pc[c].op = "RELEASE" /\ pc[c].at = "clear" => Here(c).state = "FREE"
  /\ pc[c].op = "ROLLBACK" => pc[c].at # "undo"
  /\ pc[c].op = "ROLLBACK" /\ pc[c].at = "lost" =>
       Here(c).state = "CLAIMING" /\ Here(c).token.comp = c
  /\ pc[c].op = "RECEIVE" /\ pc[c].at \in {"free", "undo"} =>
       Here(c).generation = loc[c].generation
  /\ pc[c].op = "RECEIVE" /\ pc[c].at = "undo" => Here(c).state = "FREE"
  /\ pc[c].op = "RECEIVE" /\ pc[c].at = "drop" => GivenUp(c)

Served == \A c \in Components : ServedInv(c)
=============================================================================
