--------------------------- MODULE OnlineRestart ---------------------------
(***************************************************************************)
(* Online recovery of a terminated component over the slot protocol, while *)
(* the other components keep running: zipc_component_restart_begin,        *)
(* zipc_link_reconcile of every consumer link and then of every producer   *)
(* link, zipc_component_restart_next until it reports no buffer, and       *)
(* zipc_component_restart_finish.                                          *)
(*                                                                         *)
(* A runtime can stop between any two of its steps, once it is ACTIVE; a   *)
(* second failure during the recovery is left to the administrative        *)
(* sweeps.  The sweeps over the pool visit the slots in any order.         *)
(***************************************************************************)
EXTENDS SlotProtocol

CONSTANTS
  Restartable,  \* components that may be terminated
  MaxEpoch      \* bound: epochs stop when they reach it

ASSUME RestartAssumption ==
  /\ Restartable \subseteq Components
  /\ MaxEpoch \in Nat \ {0}

VARIABLE restart  \* zipc_restart_t of each component, and its phase

rvars == <<vars, restart>>

\* links: links still to reconcile; todo: slots the cursor has not passed.
Active(dead) ==
  [phase |-> "active", dead |-> dead, links |-> {}, todo |-> {}]

RestartInit ==
  /\ Init
  /\ restart = [c \in Components |-> Active(0)]

\* The token was left by the terminated runtime.
OfDead(c, t) == t.comp = c /\ t.epoch = restart[c].dead

(***************************************************************************)
(* Termination and lifecycle.                                              *)
(***************************************************************************)
\* The runtime stops: shared memory keeps what it has written so far.
Crash(c) ==
  /\ c \in Restartable
  /\ restart[c].phase = "active"
  /\ life[c].epoch < MaxEpoch
  /\ restart' = [restart EXCEPT ![c].phase = "crashed"]
  /\ Enter(c, "NONE", "halted")
  /\ loc' = [loc EXCEPT ![c] = NoCall]
  /\ views' = [views EXCEPT ![c] = {}]
  /\ UNCHANGED <<slot, ring, life>>

\* zipc_component_restart_begin by the replacement.
RestartBegin(c) ==
  /\ restart[c].phase = "crashed"
  /\ life[c].state # "RECOVERING"
  /\ life' = [life EXCEPT ![c] = [epoch |-> @.epoch + 1,
                                  state |-> "RECOVERING"]]
  /\ restart' = [restart EXCEPT ![c] =
                   [phase |-> "links", dead |-> life[c].epoch,
                    links |-> {l \in Links : l[1] = c \/ l[2] = c},
                    todo |-> Slots]]
  /\ Enter(c, "RESTART", "next")
  /\ UNCHANGED <<slot, ring, views, loc>>

\* zipc_component_restart_finish.
RestartFinish(c) ==
  /\ Idle(c)
  /\ restart[c].phase = "complete"
  /\ life[c].state = "RECOVERING"
  /\ life' = [life EXCEPT ![c].state = "ACTIVE"]
  /\ restart' = [restart EXCEPT ![c] = Active(restart[c].dead)]
  /\ UNCHANGED <<slot, ring, views, pc, loc>>

\* The replacement reconciles its consumer links first, then its producer
\* links, and then asks for the buffers to adopt.
NextLink(c) ==
  LET rx == {l \in restart[c].links : l[2] = c}
      tx == {l \in restart[c].links : l[1] = c}
  IN /\ At(c, "RESTART", "next")
     /\ \/ \E l \in rx :
             /\ Enter(c, "CONSUMER", "visit")
             /\ loc' = [loc EXCEPT ![c].peer = l[1], ![c].todo = Slots]
             /\ UNCHANGED restart
        \/ /\ rx = {}
           /\ \E l \in tx :
                /\ Enter(c, "PRODUCER", "visit")
                /\ loc' = [loc EXCEPT ![c].peer = l[2], ![c].todo = Slots]
                /\ UNCHANGED restart
        \/ /\ rx = {} /\ tx = {}
           /\ restart' = [restart EXCEPT ![c].phase = "scan"]
           /\ Return(c)
     /\ UNCHANGED <<slot, ring, life, views>>

\* zipc_component_restart_next is called; the application may use its links
\* and the buffers adopted so far between two calls.
AdoptCall(c) ==
  /\ Idle(c)
  /\ restart[c].phase = "scan"
  /\ Enter(c, "ADOPT", "visit")
  /\ loc' = [loc EXCEPT ![c].todo = restart[c].todo,
                        ![c].epoch = life[c].epoch]
  /\ UNCHANGED <<slot, ring, life, views, restart>>

(***************************************************************************)
(* The loop body that zipc_link_reconcile and zipc_component_restart_next  *)
(* share: read state, read claim_token, and decide.                        *)
(***************************************************************************)
Sweeps == {"CONSUMER", "PRODUCER", "ADOPT"}

Sweeping(c, label) == pc[c].op \in Sweeps /\ pc[c].at = label

\* A sweep step that changes at most the slot under the cursor.
SweepStep(c, label) ==
  /\ Sweeping(c, label)
  /\ UNCHANGED <<ring, life, views, restart>>

SetState(c, state) == slot' = [slot EXCEPT ![loc[c].slot].state = state]

Visit(c) ==
  /\ Sweeping(c, "visit")
  /\ \E s \in loc[c].todo :
       /\ loc' = [loc EXCEPT ![c].slot = s, ![c].todo = @ \ {s},
                             ![c].was = slot[s].state]
       /\ restart' = [restart EXCEPT ![c].todo =
                        IF pc[c].op = "ADOPT" THEN @ \ {s} ELSE @]
  /\ Goto(c, "look")
  /\ UNCHANGED <<slot, ring, life, views>>

DecisionGrabsLive(c, t) ==
  IF loc[c].was = "CLAIMING" THEN "grab" ELSE "visit"

DecisionSkipsFree(c, t) ==
  CASE pc[c].op = "ADOPT" /\ loc[c].was = "OWNED" -> "take"
    [] loc[c].was = "CLAIMING" /\ OfDead(c, t) -> "grab"
    [] OTHER -> "visit"

\* What a sweep does with a slot in state loc[c].was that carries token t.
Decision(c, t) ==
  LET was == loc[c].was
      mine == OfDead(c, t)
  IN CASE pc[c].op = "CONSUMER" /\ mine /\ t.kind = "RECEIVE" ->
            CASE was = "TRANSFER" -> "wipe"
              [] was = "CLAIMING" -> "grab"
              [] OTHER -> "visit"
       [] pc[c].op = "PRODUCER" /\ was = "TRANSFER" -> "relook"
       [] /\ pc[c].op = "PRODUCER" /\ was = "CLAIMING"
          /\ mine /\ t.kind \in {"SEND", "ROLLBACK"} -> "grab"
       [] pc[c].op = "ADOPT" /\ was = "OWNED" ->
            IF mine THEN "wipe" ELSE "take"
       [] pc[c].op = "ADOPT" /\ was = "CLAIMING" /\ mine -> "grab"
       [] pc[c].op = "ADOPT" /\ was = "FREE" /\ mine -> "wipe"
       [] /\ pc[c].op = "ADOPT" /\ was = "TRANSFER"
          /\ mine /\ t.kind = "RECEIVE" -> "wipe"
       [] OTHER -> "visit"

Look(c) ==
  /\ SweepStep(c, "look")
  /\ loc' = [loc EXCEPT ![c].seen = Here(c).token]
  /\ Goto(c, Decision(c, Here(c).token))
  /\ UNCHANGED slot

\* A producer link reads the token of a transfer once more: only the token of
\* an interrupted rollback is removed.
Relook(c) ==
  /\ SweepStep(c, "relook")
  /\ loc' = [loc EXCEPT ![c].seen = Here(c).token]
  /\ Goto(c, IF Here(c).token.kind = "ROLLBACK" /\ OfDead(c, Here(c).token)
             THEN "wipe" ELSE "probe")
  /\ UNCHANGED slot

WipeSkipsOwned(c) ==
  /\ SweepStep(c, "wipe")
  /\ slot' = [slot EXCEPT ![loc[c].slot].token =
                IF @ = loc[c].seen THEN NoToken ELSE @]
  /\ Goto(c, IF pc[c].op = "PRODUCER" THEN "probe" ELSE "visit")
  /\ UNCHANGED loc

\* Compare-and-swap of claim_token from the token seen to 0.
Wipe(c) ==
  /\ SweepStep(c, "wipe")
  /\ slot' = [slot EXCEPT ![loc[c].slot].token =
                IF @ = loc[c].seen THEN NoToken ELSE @]
  /\ Goto(c, CASE pc[c].op = "ADOPT" /\ loc[c].was = "OWNED" -> "take"
               [] pc[c].op = "PRODUCER" -> "probe"
               [] OTHER -> "visit")
  /\ UNCHANGED loc

\* Compare-and-swap of state to ERROR, which takes the slot out of everyone
\* else's reach; another slot follows when it fails.
Seize(c, label, from, then) ==
  /\ SweepStep(c, label)
  /\ IF Here(c).state = from
     THEN SetState(c, "ERROR") /\ Goto(c, then)
     ELSE Goto(c, "visit") /\ UNCHANGED slot
  /\ UNCHANGED loc

Grab(c) == Seize(c, "grab", "CLAIMING", "restore")

\* The sweep reports a failed page protection; it is called again, and the
\* cursor has not passed the slot.
SweepFails(c) ==
  IF pc[c].op = "ADOPT"
  THEN /\ Return(c)
       /\ restart' = [restart EXCEPT ![c].todo = @ \cup {loc[c].slot}]
  ELSE /\ Enter(c, "RESTART", "next")
       /\ loc' = [loc EXCEPT ![c] = NoCall]
       /\ UNCHANGED restart

UndoneKeepsOwner(c, s) ==
  [s EXCEPT !.next = IF loc[c].seen.kind = "RECEIVE" THEN c ELSE NoComponent,
            !.token = NoToken]

UndoneKeepsRegion(c, s) ==
  IF loc[c].seen.kind = "RELEASE"
  THEN [s EXCEPT !.owner = s.prevOwner, !.epoch = s.prevEpoch,
                 !.next = NoComponent, !.token = NoToken]
  ELSE s

\* The slot as it was before the interrupted claim.
Undone(c, s) ==
  CASE loc[c].seen.kind = "RECEIVE" ->
         [s EXCEPT !.owner = s.source, !.next = c, !.epoch = s.sourceEpoch,
                   !.hops = s.sourceHops, !.token = NoToken]
    [] loc[c].seen.kind = "ALLOCATE" ->
         [s EXCEPT !.owner = NoComponent, !.next = NoComponent,
                   !.region = "EMPTY"]
    [] loc[c].seen.kind \in {"SEND", "ROLLBACK"} ->
         [s EXCEPT !.sequence = s.prevSequence, !.next = NoComponent,
                   !.token = NoToken]
    [] loc[c].seen.kind = "RELEASE" ->
         [s EXCEPT !.owner = s.prevOwner, !.epoch = s.prevEpoch,
                   !.region = s.prevRegion, !.next = NoComponent,
                   !.token = NoToken]

Restore(c) ==
  /\ Sweeping(c, "restore")
  /\ \/ /\ slot' = [slot EXCEPT ![loc[c].slot] = Undone(c, @)]
        /\ Goto(c, "settle")
        /\ UNCHANGED <<loc, restart>>
     \/ /\ Faults /\ loc[c].seen.kind \in {"RECEIVE", "ALLOCATE"}
        /\ SetState(c, "CLAIMING")
        /\ SweepFails(c)
  /\ UNCHANGED <<ring, life, views>>

\* The state that preceded the claim.  free_claiming_slot removes the token
\* after the state; an adoption goes on with a slot that became OWNED.
Settle(c) ==
  LET before == CASE loc[c].seen.kind = "RECEIVE" -> "TRANSFER"
                  [] loc[c].seen.kind = "ALLOCATE" -> "FREE"
                  [] OTHER -> "OWNED"
  IN /\ SweepStep(c, "settle")
     /\ SetState(c, before)
     /\ loc' = [loc EXCEPT ![c].was = before]
     /\ Goto(c, IF before = "FREE" \/ (before = "OWNED" /\ pc[c].op = "ADOPT")
                THEN "wipe" ELSE "visit")

(***************************************************************************)
(* The rest of zipc_component_restart_next: adoption of an OWNED slot.     *)
(***************************************************************************)
Take(c) == Seize(c, "take", "OWNED", "adopt")

AdoptAnyOwner(c) ==
  /\ Sweeping(c, "adopt")
  /\ slot' = [slot EXCEPT ![loc[c].slot].generation = @ + 1,
                          ![loc[c].slot].epoch = life[c].epoch]
  /\ loc' = [loc EXCEPT ![c].generation = Here(c).generation + 1]
  /\ Goto(c, "keep")
  /\ UNCHANGED <<ring, life, views, restart>>

Adopt(c) ==
  LET mine == Here(c).owner = c /\ Here(c).epoch = restart[c].dead
  IN /\ Sweeping(c, "adopt")
     /\ \/ /\ mine
           /\ slot' = [slot EXCEPT ![loc[c].slot].generation = @ + 1,
                                   ![loc[c].slot].epoch = life[c].epoch]
           /\ loc' = [loc EXCEPT ![c].generation = Here(c).generation + 1]
           /\ Goto(c, "keep")
           /\ UNCHANGED restart
        \/ /\ mine /\ Faults
           /\ SetState(c, "OWNED")
           /\ SweepFails(c)
        \/ /\ ~mine
           /\ SetState(c, "OWNED")
           /\ Goto(c, "visit")
           /\ UNCHANGED <<loc, restart>>
     /\ UNCHANGED <<ring, life, views>>

Keep(c) ==
  /\ At(c, "ADOPT", "keep")
  /\ SetState(c, "OWNED")
  /\ AddView(c)
  /\ Return(c)
  /\ UNCHANGED <<ring, life, restart>>

(***************************************************************************)
(* The rest of zipc_link_reconcile: transfers of a producer link and the   *)
(* ring of a consumer link.                                                *)
(***************************************************************************)
Probe(c) == Seize(c, "probe", "TRANSFER", "judge")

\* A transfer of the terminated runtime over this link is sent again; any
\* other transfer only becomes visible again.
Judge(c) ==
  /\ SweepStep(c, "judge")
  /\ SetState(c, "TRANSFER")
  /\ IF /\ Here(c).owner = c
        /\ Here(c).epoch = restart[c].dead
        /\ Here(c).next = loc[c].peer
     THEN /\ loc' = [loc EXCEPT ![c].generation = Here(c).generation,
                                ![c].sequence = Here(c).sequence]
          /\ Goto(c, "resend")
     ELSE Goto(c, "visit") /\ UNCHANGED loc

\* A full ring ends the reconciliation, which is then called again.
Resend(c) ==
  LET l == <<c, loc[c].peer>>
  IN /\ At(c, "PRODUCER", "resend")
     /\ IF Len(ring[l]) < RingDepth
        THEN /\ ring' = [ring EXCEPT ![l] = Pushed(@, Descriptor(c))]
             /\ Goto(c, "visit")
             /\ UNCHANGED <<loc, restart>>
        ELSE SweepFails(c) /\ UNCHANGED ring
     /\ UNCHANGED <<slot, life, views>>

LinkDone(c, l) ==
  /\ restart' = [restart EXCEPT ![c].links = @ \ {l}]
  /\ Enter(c, "RESTART", "next")
  /\ loc' = [loc EXCEPT ![c] = NoCall]

\* Every slot has been visited.
SweepEnd(c) ==
  /\ Sweeping(c, "visit")
  /\ loc[c].todo = {}
  /\ CASE pc[c].op = "CONSUMER" -> Goto(c, "heads") /\ UNCHANGED <<loc, restart>>
       [] pc[c].op = "PRODUCER" -> LinkDone(c, <<c, loc[c].peer>>)
       [] pc[c].op = "ADOPT" ->
            /\ Return(c)
            /\ restart' = [restart EXCEPT ![c].phase = "complete"]
  /\ UNCHANGED <<slot, ring, life, views>>

HeadsDrains(c) ==
  LET l == <<loc[c].peer, c>>
  IN /\ At(c, "CONSUMER", "heads")
     /\ IF ring[l] = <<>>
        THEN LinkDone(c, l)
        ELSE Goto(c, "discard") /\ UNCHANGED <<loc, restart>>
     /\ UNCHANGED <<slot, ring, life, views>>

\* The consumer side discards descriptors at the head whose transfer is over.
Heads(c) ==
  LET l == <<loc[c].peer, c>>
      m == Head(ring[l])
  IN /\ At(c, "CONSUMER", "heads")
     /\ IF \/ ring[l] = <<>>
           \/ /\ slot[m.slot].state = "TRANSFER"
              /\ slot[m.slot].generation = m.generation
        THEN LinkDone(c, l)
        ELSE Goto(c, "discard") /\ UNCHANGED <<loc, restart>>
     /\ UNCHANGED <<slot, ring, life, views>>

DiscardWithoutCommit(c) ==
  /\ At(c, "CONSUMER", "discard")
  /\ Goto(c, "heads")
  /\ UNCHANGED <<slot, ring, life, views, loc, restart>>

Discard(c) ==
  /\ At(c, "CONSUMER", "discard")
  /\ Commit(c)
  /\ Goto(c, "heads")
  /\ UNCHANGED <<slot, life, views, loc, restart>>

(***************************************************************************)
(* The protocol with restarts.                                             *)
(***************************************************************************)
RestartStep(c) ==
  \/ RestartBegin(c) \/ NextLink(c) \/ AdoptCall(c) \/ Visit(c) \/ Look(c)
  \/ Relook(c) \/ Wipe(c) \/ Grab(c) \/ Restore(c) \/ Settle(c) \/ Take(c)
  \/ Adopt(c) \/ Keep(c) \/ Probe(c) \/ Judge(c) \/ Resend(c) \/ SweepEnd(c)
  \/ Heads(c) \/ Discard(c) \/ RestartFinish(c)

RestartNext ==
  \E c \in Components :
    \/ (Call(c) \/ Step(c)) /\ UNCHANGED restart
    \/ Crash(c)
    \/ RestartStep(c)

RestartSpec == RestartInit /\ [][RestartNext]_rvars

\* The calls and the recovery under way proceed, and every application keeps
\* receiving and goes on with its recovery.
RestartFairness ==
  \A c \in Components :
    /\ WF_rvars(Step(c) /\ UNCHANGED restart)
    /\ SF_rvars(RecvCall(c) /\ UNCHANGED restart)
    /\ SF_rvars(RestartStep(c))

FairRestartSpec == RestartSpec /\ RestartFairness

(***************************************************************************)
(* Properties.                                                             *)
(***************************************************************************)
\* Recovery of one component never takes a buffer from another: whoever holds
\* a valid zipc_buffer_t and is not executing a call on it still owns the slot
\* at the same generation.  A sweep may only make the slot unreachable for a
\* moment (ERROR).
RestartKeepsViews ==
  \A c \in Components : \A v \in views[c] :
    loc[c].slot # v.slot =>
      /\ slot[v.slot].state \in {"OWNED", "ERROR"}
      /\ slot[v.slot].generation = v.generation
      /\ slot[v.slot].owner = c
      /\ slot[v.slot].epoch = v.epoch

\* "Adoption preserves the logical data window", and so does every recovered
\* transfer: an owned buffer never has the window of a freed slot.
WindowKept ==
  \A s \in Slots : slot[s].state = "OWNED" => slot[s].region = "SET"

\* When zipc_component_restart_finish has published ACTIVE, the terminated
\* epoch owns no buffer any more: each one it left was adopted.
DeadBuffersAdopted ==
  \A c \in Components, s \in Slots :
    restart[c].phase = "active" =>
      ~(slot[s].state = "OWNED" /\ slot[s].owner = c
        /\ slot[s].epoch = restart[c].dead)

\* By then the terminated epoch has left no claim behind either, except the
\* token of a send, which the receiver of that transfer replaces.
DeadClaimsCleared ==
  \A c \in Components, s \in Slots :
    (restart[c].phase = "active" /\ OfDead(c, slot[s].token)) =>
      slot[s].state = "TRANSFER" /\ slot[s].token.kind = "SEND"

\* Where ownership stands while a sweep holds the slot in ERROR: where it
\* stood before the sweep, or before the interrupted claim.
SweptPlace(s) ==
  LET c == CHOOSE x \in Components :
             /\ pc[x].op \in Sweeps /\ loc[x].slot = s
             /\ pc[x].at \in {"restore", "settle", "adopt", "keep", "judge"}
      kind == loc[c].seen.kind
  IN CASE pc[c].at \in {"adopt", "keep"} ->
            Standing("OWNED", slot[s].owner, NoComponent)
       [] pc[c].at = "judge" ->
            Standing("MOVING", slot[s].owner, slot[s].next)
       [] kind = "ALLOCATE" -> Standing("FREE", NoComponent, NoComponent)
       [] kind = "RECEIVE" -> Standing("MOVING", slot[s].source, c)
       [] OTHER -> Standing("OWNED", c, NoComponent)

RestartPlace(s) == IF slot[s].state = "ERROR" THEN SweptPlace(s) ELSE Place(s)

AbstractRestart ==
  INSTANCE Ownership WITH place <- [s \in Slots |-> RestartPlace(s)]

\* "Adoption is an ownership continuation": a crash between any two steps and
\* the recovery that follows move each slot only as the calls themselves do;
\* no buffer changes hands, is freed or is duplicated by them.
RestartRefinesOwnership == AbstractRestart!Spec

\* When every component is active and idle and every ring is empty, every
\* slot is free or owned by a component that holds the buffer.
Quiescent ==
  /\ \A c \in Components : Idle(c) /\ restart[c].phase = "active"
  /\ \A l \in Links : ring[l] = <<>>

NothingStranded ==
  Quiescent =>
    \A s \in Slots :
      \/ slot[s].state = "FREE"
      \/ /\ slot[s].state = "OWNED"
         /\ \E v \in views[slot[s].owner] : v.slot = s

\* A recovery that was begun is finished: neither the sweeps nor the re-sent
\* descriptors wait for another component forever.
RestartCompletes ==
  \A c \in Components :
    restart[c].phase = "crashed" ~> restart[c].phase = "active"

=============================================================================
