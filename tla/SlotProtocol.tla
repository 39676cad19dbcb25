---------------------------- MODULE SlotProtocol ----------------------------
(***************************************************************************)
(* The lock-free ownership protocol of the zIPC pool (src/core/zipc.c):    *)
(* allocate, send, rollback, receive and release of a fixed slot by        *)
(* components that share only the slot control blocks and one descriptor   *)
(* ring per link.                                                          *)
(*                                                                         *)
(* A component is one sequential runtime.  Every atomic access to          *)
(* slot->state or slot->claim_token is a step of its own.  Ordinary fields *)
(* are written only between the claim of a slot and the publication of its *)
(* next state, in one step that is separate from the publication, so that  *)
(* a runtime can be observed (or stopped) between the two.                 *)
(***************************************************************************)
EXTENDS Integers, Sequences

CONSTANTS
  Components,     \* usable component ids
  NoComponent,    \* ZIPC_INVALID_COMPONENT_ID
  Slots,          \* slot ids of the pool
  NoSlot,         \* no slot
  Links,          \* pairs <<local, remote>> with a ring from local to remote
  Allocators,     \* components that call zipc_buffer_alloc
  RingDepth,      \* ring->depth of every link
  HopLimit,       \* link->hop_limit
  MaxGeneration,  \* bound: allocations stop when a generation reaches it
  Faults,         \* TRUE: platform calls (page protection, session entropy,
                  \* descriptor publication) may report an error
  Deadlines       \* TRUE: buffers carry a deadline that may have passed

ASSUME ProtocolAssumption ==
  /\ NoComponent \notin Components
  /\ NoSlot \notin Slots
  /\ Links \subseteq Components \X Components
  /\ Allocators \subseteq Components
  /\ RingDepth \in Nat /\ RingDepth >= 2
  /\ HopLimit \in Nat \ {0}
  /\ MaxGeneration \in Nat \ {0}
  /\ Faults \in BOOLEAN /\ Deadlines \in BOOLEAN

VARIABLES
  slot,   \* slot control blocks, in shared memory
  ring,   \* descriptor ring of each link, oldest first, in shared memory
  life,   \* packed epoch/state of each component, in shared memory
  views,  \* valid zipc_buffer_t objects of each component
  pc,     \* where each component's runtime stands in the call it executes
  loc     \* local variables of that call

vars == <<slot, ring, life, views, pc, loc>>

States == {"FREE", "CLAIMING", "OWNED", "TRANSFER", "ERROR"}
Kinds == {"ALLOCATE", "SEND", "ROLLBACK", "RECEIVE", "RELEASE"}

\* claim_token_make; the zero token is NoToken.
Token(kind, c, epoch) == [kind |-> kind, comp |-> c, epoch |-> epoch]
NoToken == Token("NONE", NoComponent, 0)
Tokens == {NoToken} \cup
          [kind : Kinds, comp : Components, epoch : Nat]

\* The slot control fields that ownership depends on.  The visited sets, the
\* identity and the trace are left out; the payload window is EMPTY or SET.
SlotControl ==
  [state : States, token : Tokens, generation : Nat,
   owner : Components \cup {NoComponent}, next : Components \cup {NoComponent},
   epoch : Nat, hops : Nat, sequence : Nat, region : {"EMPTY", "SET"},
   prevSequence : Nat, prevOwner : Components \cup {NoComponent},
   prevEpoch : Nat, prevRegion : {"EMPTY", "SET"},
   source : Components \cup {NoComponent}, sourceEpoch : Nat,
   sourceHops : Nat]

Message ==
  [slot : Slots, generation : Nat, source : Components,
   destination : Components, sequence : Nat]

View == [slot : Slots, generation : Nat, epoch : Nat]

\* component_lifecycle_make and registered_epoch.
RegisteredEpoch(c) ==
  IF life[c].state = "INACTIVE" THEN 0 ELSE life[c].epoch

\* buffer_owned: the view still names a slot that its component owns.
BufferOwned(c, v) ==
  /\ slot[v.slot].generation = v.generation
  /\ slot[v.slot].state = "OWNED"
  /\ slot[v.slot].owner = c
  /\ slot[v.slot].epoch = v.epoch
  /\ RegisteredEpoch(c) = v.epoch

\* Locals of a call: the slot and handle generation, the link's other end,
\* the transfer sequence of the descriptor, the epoch of the claim token, the
\* slots an allocation or sweep has still to visit, the token a receive or
\* sweep observed and the slot state a sweep observed.
NoCall ==
  [slot |-> NoSlot, generation |-> 0, peer |-> NoComponent, sequence |-> 0,
   epoch |-> 0, todo |-> {}, seen |-> NoToken, was |-> "FREE"]

InitialSlot ==
  [state |-> "FREE", token |-> NoToken, generation |-> 0,
   owner |-> NoComponent, next |-> NoComponent, epoch |-> 0, hops |-> 0,
   sequence |-> 0, region |-> "EMPTY", prevSequence |-> 0,
   prevOwner |-> NoComponent, prevEpoch |-> 0, prevRegion |-> "EMPTY",
   source |-> NoComponent, sourceEpoch |-> 0, sourceHops |-> 0]

\* A formatted pool to which every component has registered once.
Init ==
  /\ slot = [s \in Slots |-> InitialSlot]
  /\ ring = [l \in Links |-> <<>>]
  /\ life = [c \in Components |-> [epoch |-> 1, state |-> "ACTIVE"]]
  /\ views = [c \in Components |-> {}]
  /\ pc = [c \in Components |-> [op |-> "NONE", at |-> "idle"]]
  /\ loc = [c \in Components |-> NoCall]

(***************************************************************************)
(* Steps shared by the five operations.                                    *)
(***************************************************************************)
At(c, kind, label) == pc[c] = [op |-> kind, at |-> label]
Idle(c) == At(c, "NONE", "idle")

Enter(c, kind, label) == pc' = [pc EXCEPT ![c] = [op |-> kind, at |-> label]]
Goto(c, label) == pc' = [pc EXCEPT ![c].at = label]

\* The call returns; its locals are forgotten.
Return(c) ==
  /\ Enter(c, "NONE", "idle")
  /\ loc' = [loc EXCEPT ![c] = NoCall]

Here(c) == slot[loc[c].slot]

\* Compare-and-swap of claim_token from 0 to the token of this claim.
CasToken(c, kind, failed) ==
  /\ At(c, kind, "token")
  /\ IF Here(c).token = NoToken
     THEN /\ slot' = [slot EXCEPT ![loc[c].slot].token =
                        Token(kind, c, loc[c].epoch)]
          /\ Goto(c, "claim")
          /\ UNCHANGED loc
     ELSE /\ failed
          /\ UNCHANGED slot
  /\ UNCHANGED <<ring, life, views>>

CasStateBlind(c, kind, from) ==
  /\ At(c, kind, "claim")
  /\ slot' = [slot EXCEPT ![loc[c].slot].state = "CLAIMING"]
  /\ Goto(c, "fill")
  /\ UNCHANGED <<ring, life, views, loc>>

\* Compare-and-swap of state from `from' to CLAIMING.
CasState(c, kind, from) ==
  /\ At(c, kind, "claim")
  /\ IF Here(c).state = from
     THEN /\ slot' = [slot EXCEPT ![loc[c].slot].state = "CLAIMING"]
          /\ Goto(c, "fill")
     ELSE /\ Goto(c, "undo")
          /\ UNCHANGED slot
  /\ UNCHANGED <<ring, life, views, loc>>

\* Release store of the next state, which ends the claim.
Publish(c, kind, at, state, then) ==
  /\ At(c, kind, at)
  /\ slot' = [slot EXCEPT ![loc[c].slot].state = state]
  /\ Goto(c, then)
  /\ UNCHANGED <<ring, life, views, loc>>

\* clear_claim_token: compare-and-swap of claim_token from this claim to 0.
ClearToken(c, kind) ==
  slot' = [slot EXCEPT ![loc[c].slot].token =
             IF @ = Token(kind, c, loc[c].epoch) THEN NoToken ELSE @]

ClearAndGoto(c, kind, at, then) ==
  /\ At(c, kind, at)
  /\ ClearToken(c, kind)
  /\ Goto(c, then)
  /\ UNCHANGED <<ring, life, views, loc>>

ClearAndReturn(c, kind, at) ==
  /\ At(c, kind, at)
  /\ ClearToken(c, kind)
  /\ Return(c)
  /\ UNCHANGED <<ring, life>>

\* make_view and buffer_invalidate.
AddView(c) ==
  views' = [views EXCEPT ![c] = @ \cup
              {[slot |-> loc[c].slot, generation |-> loc[c].generation,
                epoch |-> loc[c].epoch]}]
DropView(c) ==
  views' = [views EXCEPT ![c] = {v \in @ : v.slot # loc[c].slot}]

(***************************************************************************)
(* zipc_buffer_alloc.  The scan visits every slot once, from an advisory   *)
(* cursor; the model visits them in any order.                             *)
(***************************************************************************)
AllocCall(c) ==
  /\ Idle(c)
  /\ c \in Allocators
  /\ LET probed == {s \in Slots : slot[s].generation < MaxGeneration}
     IN /\ probed # {}
        /\ loc' = [loc EXCEPT ![c].todo = probed,
                              ![c].epoch = RegisteredEpoch(c)]
  /\ Enter(c, "ALLOCATE", "scan")
  /\ UNCHANGED <<slot, ring, life, views>>

AllocProbe(c) ==
  /\ At(c, "ALLOCATE", "scan")
  /\ \E s \in loc[c].todo :
       IF slot[s].state = "FREE"
       THEN /\ loc' = [loc EXCEPT ![c].slot = s, ![c].todo = @ \ {s}]
            /\ Goto(c, "token")
       ELSE /\ loc' = [loc EXCEPT ![c].todo = @ \ {s}]
            /\ UNCHANGED pc
  /\ UNCHANGED <<slot, ring, life, views>>

AllocNone(c) ==
  /\ At(c, "ALLOCATE", "scan")
  /\ loc[c].todo = {}
  /\ Return(c)
  /\ UNCHANGED <<slot, ring, life, views>>

AllocTokenSpins(c) == CasToken(c, "ALLOCATE", UNCHANGED <<pc, loc>>)

AllocToken(c) ==
  CasToken(c, "ALLOCATE", Goto(c, "scan") /\ UNCHANGED loc)

AllocClaim(c) == CasState(c, "ALLOCATE", "FREE")

AllocUndo(c) == ClearAndGoto(c, "ALLOCATE", "undo", "scan")

\* The fields of a new buffer; on failure (no identity, no page access) those
\* that free_claiming_slot leaves.
AllocFill(c) ==
  LET allocated ==
        [InitialSlot EXCEPT !.state = "CLAIMING", !.token = Here(c).token,
           !.generation = Here(c).generation + 1, !.owner = c,
           !.epoch = loc[c].epoch, !.hops = 1, !.region = "SET"]
  IN /\ At(c, "ALLOCATE", "fill")
     /\ \/ /\ slot' = [slot EXCEPT ![loc[c].slot] = allocated]
           /\ loc' = [loc EXCEPT ![c].generation = allocated.generation]
           /\ Goto(c, "publish")
        \/ /\ Faults
           /\ slot' = [slot EXCEPT ![loc[c].slot] =
                         [allocated EXCEPT !.owner = NoComponent,
                                           !.region = "EMPTY"]]
           /\ loc' = [loc EXCEPT ![c].todo = {}]
           /\ Goto(c, "free")
     /\ UNCHANGED <<ring, life, views>>

AllocFree(c) == Publish(c, "ALLOCATE", "free", "FREE", "undo")

AllocPublish(c) == Publish(c, "ALLOCATE", "publish", "OWNED", "clear")

AllocClear(c) ==
  /\ ClearAndReturn(c, "ALLOCATE", "clear")
  /\ AddView(c)

(***************************************************************************)
(* zipc_send: buffer_prepare_transfer_internal, the transport's send and,  *)
(* when that did not publish, rollback_transfer.                           *)
(***************************************************************************)
\* The checks of zipc_send and of the preparation, up to the journal entry
\* that precedes the claim.
SendCall(c) ==
  /\ Idle(c)
  /\ \E v \in views[c], l \in Links :
       /\ l[1] = c
       /\ BufferOwned(c, v)
       /\ slot' = [slot EXCEPT ![v.slot].prevSequence = slot[v.slot].sequence]
       /\ loc' = [loc EXCEPT ![c] =
                    [NoCall EXCEPT !.slot = v.slot, !.generation = v.generation,
                                   !.peer = l[2], !.epoch = v.epoch]]
  /\ Enter(c, "SEND", "token")
  /\ UNCHANGED <<ring, life, views>>

SendToken(c) == CasToken(c, "SEND", Return(c))

SendClaim(c) == CasState(c, "SEND", "OWNED")

SendUndoKeepsToken(c) ==
  /\ At(c, "SEND", "undo")
  /\ Return(c)
  /\ UNCHANGED <<slot, ring, life, views>>

SendUndo(c) == ClearAndReturn(c, "SEND", "undo") /\ UNCHANGED views

WithinHopsInclusive(c) == Here(c).hops <= HopLimit

WithinHops(c) == Here(c).hops < HopLimit

SendAccepts(c) ==
  /\ Here(c).generation = loc[c].generation
  /\ Here(c).owner = c
  /\ Here(c).epoch = loc[c].epoch
  /\ WithinHops(c)

SendFillKeepsClaim(c) ==
  /\ At(c, "SEND", "fill")
  /\ \/ /\ SendAccepts(c)
        /\ slot' = [slot EXCEPT ![loc[c].slot].next = loc[c].peer,
                                ![loc[c].slot].sequence = @ + 1]
        /\ loc' = [loc EXCEPT ![c].sequence = Here(c).sequence + 1]
        /\ Goto(c, "publish")
     \/ /\ ~SendAccepts(c) \/ Deadlines \/ Faults
        /\ Goto(c, "undo")
        /\ UNCHANGED <<slot, loc>>
  /\ UNCHANGED <<ring, life, views>>

SendFill(c) ==
  /\ At(c, "SEND", "fill")
  /\ \/ /\ SendAccepts(c)
        /\ slot' = [slot EXCEPT ![loc[c].slot] =
                      [@ EXCEPT !.next = loc[c].peer, !.source = c,
                                !.sourceEpoch = Here(c).epoch,
                                !.sourceHops = Here(c).hops,
                                !.sequence = Here(c).sequence + 1]]
        /\ loc' = [loc EXCEPT ![c].sequence = Here(c).sequence + 1]
        /\ Goto(c, "publish")
     \/ /\ ~SendAccepts(c) \/ Deadlines \/ Faults
        /\ slot' = [slot EXCEPT ![loc[c].slot].state = "OWNED"]
        /\ Goto(c, "undo")
        /\ UNCHANGED loc
  /\ UNCHANGED <<ring, life, views>>

SendPublish(c) == Publish(c, "SEND", "publish", "TRANSFER", "clear")

SendClear(c) == ClearAndGoto(c, "SEND", "clear", "push")

\* zipc_linux_common_ring_push: the ring after a push of m.
Pushed(q, m) == IF \E i \in DOMAIN q : q[i] = m THEN q ELSE Append(q, m)

Descriptor(c) ==
  [slot |-> loc[c].slot, generation |-> loc[c].generation, source |-> c,
   destination |-> loc[c].peer, sequence |-> loc[c].sequence]

SendPushKeepsView(c) ==
  LET l == <<c, loc[c].peer>>
  IN /\ At(c, "SEND", "push")
     /\ ring' = [ring EXCEPT ![l] = Pushed(@, Descriptor(c))]
     /\ Return(c)
     /\ UNCHANGED <<slot, life, views>>

SendPushNoRollback(c) ==
  LET l == <<c, loc[c].peer>>
  IN /\ At(c, "SEND", "push")
     /\ ring' = [ring EXCEPT ![l] =
                   IF Len(@) < RingDepth /\ ~Faults
                   THEN Pushed(@, Descriptor(c)) ELSE @]
     /\ DropView(c)
     /\ Return(c)
     /\ UNCHANGED <<slot, life>>

\* ZIPC_OK and ZIPC_ERR_TRANSPORT_PUBLISHED both consume the buffer; any other
\* status leads to the rollback.
SendPush(c) ==
  LET l == <<c, loc[c].peer>>
  IN /\ At(c, "SEND", "push")
     /\ \/ /\ Len(ring[l]) < RingDepth
           /\ ring' = [ring EXCEPT ![l] = Pushed(@, Descriptor(c))]
           /\ DropView(c)
           /\ Return(c)
        \/ /\ Len(ring[l]) >= RingDepth \/ Faults
           /\ Enter(c, "ROLLBACK", "check")
           /\ UNCHANGED <<ring, views, loc>>
     /\ UNCHANGED <<slot, life>>

RollbackCheck(c) ==
  /\ At(c, "ROLLBACK", "check")
  /\ IF Here(c).state = "TRANSFER"
     THEN /\ slot' = [slot EXCEPT ![loc[c].slot].prevSequence =
                        loc[c].sequence - 1]
          /\ Goto(c, "token")
     ELSE Goto(c, "lost") /\ UNCHANGED slot
  /\ UNCHANGED <<ring, life, views, loc>>

RollbackToken(c) ==
  CasToken(c, "ROLLBACK", Goto(c, "lost") /\ UNCHANGED loc)

RollbackClaim(c) ==
  CasState(c, "ROLLBACK", "TRANSFER")

RollbackUndo(c) == ClearAndGoto(c, "ROLLBACK", "undo", "lost")

RollbackAccepts(c) ==
  /\ Here(c).generation = loc[c].generation
  /\ Here(c).owner = c
  /\ Here(c).next = loc[c].peer
  /\ Here(c).sequence = loc[c].sequence

\* Without page access the claim is kept for administrative recovery.
RollbackFill(c) ==
  /\ At(c, "ROLLBACK", "fill")
  /\ IF RollbackAccepts(c)
     THEN /\ slot' = [slot EXCEPT ![loc[c].slot] =
                        [@ EXCEPT !.next = NoComponent,
                                  !.sequence = loc[c].sequence - 1]]
          /\ \/ Goto(c, "publish")
             \/ Faults /\ Goto(c, "lost")
     ELSE /\ slot' = [slot EXCEPT ![loc[c].slot].state = "TRANSFER"]
          /\ Goto(c, "undo")
  /\ UNCHANGED <<ring, life, views, loc>>

RollbackPublish(c) ==
  Publish(c, "ROLLBACK", "publish", "OWNED", "clear")

RollbackClear(c) ==
  ClearAndReturn(c, "ROLLBACK", "clear") /\ UNCHANGED views

\* ZIPC_ERR_RECOVERY_REQUIRED: the local buffer is invalidated.
RollbackLost(c) ==
  /\ At(c, "ROLLBACK", "lost")
  /\ DropView(c)
  /\ Return(c)
  /\ UNCHANGED <<slot, ring, life>>

(***************************************************************************)
(* zipc_recv: peek, zipc_buffer_claim, commit.  A descriptor whose claim   *)
(* fails is committed as well, that is, dropped.                           *)
(***************************************************************************)
RecvCall(c) ==
  /\ Idle(c)
  /\ \E l \in Links :
       /\ l[2] = c
       /\ ring[l] # <<>>
       /\ LET m == Head(ring[l])
          IN loc' = [loc EXCEPT ![c] =
                       [NoCall EXCEPT !.slot = m.slot, !.peer = l[1],
                                      !.generation = m.generation,
                                      !.sequence = m.sequence]]
  /\ Enter(c, "RECEIVE", "check")
  /\ UNCHANGED <<slot, ring, life, views>>

RecvCheck(c) ==
  /\ At(c, "RECEIVE", "check")
  /\ IF Here(c).state = "TRANSFER"
     THEN /\ loc' = [loc EXCEPT ![c].epoch = RegisteredEpoch(c)]
          /\ Goto(c, "token")
     ELSE Goto(c, "drop") /\ UNCHANGED loc
  /\ UNCHANGED <<slot, ring, life, views>>

RecvTokenNoSteal(c) ==
  CasToken(c, "RECEIVE", Goto(c, "drop") /\ UNCHANGED loc)

\* A token its sender has not cleared yet may be replaced.
RecvToken(c) ==
  CasToken(c, "RECEIVE", IF Here(c).token.kind = "SEND"
    THEN /\ loc' = [loc EXCEPT ![c].seen = Here(c).token]
         /\ Goto(c, "steal")
    ELSE Goto(c, "drop") /\ UNCHANGED loc)

RecvSteal(c) ==
  /\ At(c, "RECEIVE", "steal")
  /\ Goto(c, IF Here(c).state = "TRANSFER" THEN "swap" ELSE "drop")
  /\ UNCHANGED <<slot, ring, life, views, loc>>

RecvSwap(c) ==
  /\ At(c, "RECEIVE", "swap")
  /\ IF Here(c).token = loc[c].seen
     THEN /\ slot' = [slot EXCEPT ![loc[c].slot].token =
                        Token("RECEIVE", c, loc[c].epoch)]
          /\ Goto(c, "claim")
     ELSE Goto(c, "drop") /\ UNCHANGED slot
  /\ UNCHANGED <<ring, life, views, loc>>

RecvClaim(c) == CasState(c, "RECEIVE", "TRANSFER")

RecvUndo(c) == ClearAndGoto(c, "RECEIVE", "undo", "drop")

RecvAcceptsAnyGeneration(c) ==
  /\ Here(c).owner = loc[c].peer
  /\ Here(c).next = c
  /\ Here(c).sequence = loc[c].sequence
  /\ WithinHops(c)

RecvAccepts(c) ==
  /\ Here(c).generation = loc[c].generation
  /\ Here(c).owner = loc[c].peer
  /\ Here(c).next = c
  /\ Here(c).sequence = loc[c].sequence
  /\ WithinHops(c)

\* A passed deadline restores the transfer; without page access the buffer is
\* given up as free_claiming_slot does.
RecvFill(c) ==
  LET received ==
        [Here(c) EXCEPT !.owner = c, !.next = NoComponent,
           !.epoch = loc[c].epoch, !.hops = Here(c).sourceHops + 1]
  IN /\ At(c, "RECEIVE", "fill")
     /\ \/ /\ RecvAccepts(c)
           /\ slot' = [slot EXCEPT ![loc[c].slot] = received]
           /\ Goto(c, "publish")
        \/ /\ RecvAccepts(c) /\ Faults
           /\ slot' = [slot EXCEPT ![loc[c].slot] =
                         [received EXCEPT !.owner = NoComponent,
                                          !.region = "EMPTY"]]
           /\ Goto(c, "free")
        \/ /\ ~RecvAccepts(c) \/ Deadlines
           /\ slot' = [slot EXCEPT ![loc[c].slot].state = "TRANSFER"]
           /\ Goto(c, "undo")
     /\ UNCHANGED <<ring, life, views, loc>>

RecvFree(c) == Publish(c, "RECEIVE", "free", "FREE", "undo")

RecvPublish(c) == Publish(c, "RECEIVE", "publish", "OWNED", "clear")

RecvClear(c) == ClearAndGoto(c, "RECEIVE", "clear", "commit")

\* zipc_linux_common_ring_commit of the descriptor at the head.
Commit(c) == ring' = [ring EXCEPT ![<<loc[c].peer, c>>] = Tail(@)]

RecvCommit(c) ==
  /\ At(c, "RECEIVE", "commit")
  /\ Commit(c)
  /\ AddView(c)
  /\ Return(c)
  /\ UNCHANGED <<slot, life>>

RecvDrop(c) ==
  /\ At(c, "RECEIVE", "drop")
  /\ Commit(c)
  /\ Return(c)
  /\ UNCHANGED <<slot, life, views>>

(***************************************************************************)
(* zipc_buffer_release.                                                    *)
(***************************************************************************)
ReleaseCall(c) ==
  /\ Idle(c)
  /\ \E v \in views[c] :
       /\ BufferOwned(c, v)
       /\ slot' = [slot EXCEPT ![v.slot] =
                     [@ EXCEPT !.prevRegion = slot[v.slot].region,
                               !.prevOwner = slot[v.slot].owner,
                               !.prevEpoch = slot[v.slot].epoch]]
       /\ loc' = [loc EXCEPT ![c] =
                    [NoCall EXCEPT !.slot = v.slot, !.generation = v.generation,
                                   !.epoch = v.epoch]]
  /\ Enter(c, "RELEASE", "token")
  /\ UNCHANGED <<ring, life, views>>

ReleaseToken(c) ==
  CasToken(c, "RELEASE", Return(c))

ReleaseClaim(c) ==
  CasState(c, "RELEASE", "OWNED")

ReleaseUndo(c) ==
  ClearAndReturn(c, "RELEASE", "undo") /\ UNCHANGED views

ReleaseFill(c) ==
  LET owned == Here(c).owner = c /\ Here(c).epoch = loc[c].epoch
  IN /\ At(c, "RELEASE", "fill")
     /\ \/ /\ owned
           /\ slot' = [slot EXCEPT ![loc[c].slot] =
                         [@ EXCEPT !.owner = NoComponent, !.next = NoComponent,
                                   !.region = "EMPTY"]]
           /\ Goto(c, "publish")
        \/ /\ ~owned \/ Faults
           /\ slot' = [slot EXCEPT ![loc[c].slot].state = "OWNED"]
           /\ Goto(c, "undo")
     /\ UNCHANGED <<ring, life, views, loc>>

ReleasePublish(c) == Publish(c, "RELEASE", "publish", "FREE", "clear")

ReleaseClear(c) ==
  /\ ClearAndReturn(c, "RELEASE", "clear")
  /\ DropView(c)

(***************************************************************************)
(* The protocol.                                                           *)
(***************************************************************************)
\* The application's calls, and the steps of a call under way.
Call(c) ==
  \/ AllocCall(c) \/ SendCall(c) \/ RecvCall(c) \/ ReleaseCall(c)

AllocStep(c) ==
  \/ AllocProbe(c) \/ AllocNone(c) \/ AllocToken(c) \/ AllocClaim(c)
  \/ AllocUndo(c) \/ AllocFill(c) \/ AllocFree(c) \/ AllocPublish(c)
  \/ AllocClear(c)

SendStep(c) ==
  \/ SendToken(c) \/ SendClaim(c) \/ SendUndo(c) \/ SendFill(c)
  \/ SendPublish(c) \/ SendClear(c) \/ SendPush(c)

RollbackStep(c) ==
  \/ RollbackCheck(c) \/ RollbackToken(c) \/ RollbackClaim(c)
  \/ RollbackUndo(c) \/ RollbackFill(c)
  \/ RollbackPublish(c) \/ RollbackClear(c) \/ RollbackLost(c)

RecvStep(c) ==
  \/ RecvCheck(c) \/ RecvToken(c) \/ RecvSteal(c) \/ RecvSwap(c)
  \/ RecvClaim(c) \/ RecvUndo(c) \/ RecvFill(c) \/ RecvFree(c)
  \/ RecvPublish(c) \/ RecvClear(c) \/ RecvCommit(c)
  \/ RecvDrop(c)

ReleaseStep(c) ==
  \/ ReleaseToken(c) \/ ReleaseClaim(c) \/ ReleaseUndo(c) \/ ReleaseFill(c)
  \/ ReleasePublish(c) \/ ReleaseClear(c)

Step(c) ==
  \/ AllocStep(c) \/ SendStep(c) \/ RollbackStep(c) \/ RecvStep(c)
  \/ ReleaseStep(c)

Next == \E c \in Components : Call(c) \/ Step(c)

Spec == Init /\ [][Next]_vars

\* Every call under way proceeds, and every application keeps receiving.
Fairness ==
  \A c \in Components : WF_vars(Step(c)) /\ SF_vars(RecvCall(c))

FairSpec == Spec /\ Fairness

(***************************************************************************)
(* Properties.                                                             *)
(***************************************************************************)

\* The runtime's claim token is on its slot; the slot is claimed by it.
HoldsToken(c) ==
  pc[c].at \in {"claim", "undo", "fill", "free", "publish", "clear"}
InClaim(c) == pc[c].at \in {"fill", "free", "publish"}

PCs ==
  [op : Kinds \cup {"NONE"},
   at : {"idle", "scan", "token", "claim", "undo", "fill", "free", "publish",
         "clear", "push", "check", "lost", "steal", "swap", "commit", "drop"}]

Locals ==
  [slot : Slots \cup {NoSlot}, generation : Nat,
   peer : Components \cup {NoComponent}, sequence : Nat, epoch : Nat,
   todo : SUBSET Slots, seen : Tokens, was : States]

\* Every variable keeps its type; the header's slot states are the ones the
\* protocol stores.
TypeOK ==
  /\ slot \in [Slots -> SlotControl]
  /\ ring \in [Links -> Seq(Message)]
  /\ life \in [Components ->
                [epoch : Nat, state : {"INACTIVE", "ACTIVE", "RECOVERING"}]]
  /\ views \in [Components -> SUBSET View]
  /\ pc \in [Components -> PCs]
  /\ loc \in [Components -> Locals]

\* "Atomic state transitions, no global mutex": a runtime between the
\* compare-and-swap to CLAIMING and the store of the next state is the only one
\* there, and its own token is the one recovery would find on the slot.
ExclusiveClaim ==
  \A c \in Components :
    InClaim(c) =>
      /\ Here(c).state = "CLAIMING"
      /\ Here(c).token = Token(pc[c].op, c, loc[c].epoch)
      /\ \A d \in Components \ {c} : InClaim(d) => loc[d].slot # loc[c].slot

\* A component that holds a valid zipc_buffer_t and is not executing a call on
\* it passes buffer_owned: nobody took the slot away behind its back.
ViewsAreOwned ==
  \A c \in Components : \A v \in views[c] :
    loc[c].slot # v.slot => BufferOwned(c, v)

\* A slot in TRANSFER has its descriptor in the ring of its link, or its
\* sender is still about to publish the descriptor or to take the slot back.
NotStranded(s) ==
  LET c == slot[s].owner
      l == <<c, slot[s].next>>
  IN \/ /\ pc[c].op \in {"SEND", "ROLLBACK"}
        /\ loc[c].slot = s
     \/ \E i \in DOMAIN ring[l] :
          /\ ring[l][i].slot = s
          /\ ring[l][i].generation = slot[s].generation
          /\ ring[l][i].sequence = slot[s].sequence

NoStrandedTransfer ==
  \A s \in Slots : slot[s].state = "TRANSFER" => NotStranded(s)

\* A claim token outlives its call only on the slot of a rollback that could
\* not restore page access, which stays CLAIMING for recovery.
NoLeakedToken ==
  \A s \in Slots : slot[s].token # NoToken =>
    LET c == slot[s].token.comp
    IN \/ HoldsToken(c) /\ loc[c].slot = s
       \/ slot[s].state = "CLAIMING" /\ slot[s].token.kind = "ROLLBACK"

\* hop_limit bounds a buffer's journey, also around a cycle of links.
HopsBounded == \A s \in Slots : slot[s].hops <= HopLimit

\* Where ownership stands while the slot is being claimed: the claim has not
\* happened for others until the next state is published, except that the
\* rollback takes the buffer back when it claims it.
Standing(kind, owner, next) ==
  [kind |-> kind, owner |-> owner, next |-> next]

PlaceOf(control) ==
  LET t == control.token
  IN CASE control.state = "FREE" -> Standing("FREE", NoComponent, NoComponent)
       [] control.state = "OWNED" ->
            Standing("OWNED", control.owner, NoComponent)
       [] control.state = "TRANSFER" ->
            Standing("MOVING", control.owner, control.next)
       [] OTHER ->
            CASE t.kind = "ALLOCATE" ->
                   Standing("FREE", NoComponent, NoComponent)
              [] t.kind = "RECEIVE" ->
                   IF control.next # NoComponent
                   THEN Standing("MOVING", control.owner, control.next)
                   ELSE Standing("MOVING", control.source, t.comp)
              [] OTHER -> Standing("OWNED", t.comp, NoComponent)

Place(s) == PlaceOf(slot[s])

Abstract == INSTANCE Ownership WITH place <- [s \in Slots |-> Place(s)]

\* Seen through the slot states alone, the interleaved steps of all runtimes
\* move each slot as if every call were one indivisible move.
RefinesOwnership == Abstract!Spec

\* Every call returns whatever the other components do or stop doing.
CallsReturn ==
  \A c \in Components : WF_vars(Step(c)) => (~Idle(c) ~> Idle(c))

\* A buffer in transfer reaches its receiver, or comes back to its sender.
TransfersEnd ==
  \A s \in Slots : Place(s).kind = "MOVING" ~> Place(s).kind # "MOVING"
=============================================================================
