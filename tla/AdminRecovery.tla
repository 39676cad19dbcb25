--------------------------- MODULE AdminRecovery ---------------------------
(***************************************************************************)
(* Administrative recovery over the slot protocol.  A runtime stops at any *)
(* step; the others run on until the integrator quiesces the pool.  Then   *)
(* the terminated components are unregistered, zipc_pool_recover_owner and *)
(* zipc_pool_recover_claiming sweep the pool, replacements register with   *)
(* new epochs and the pool is used again.                                  *)
(*                                                                         *)
(* Nothing runs beside a sweep, so a sweep is one step; where the page     *)
(* protection of a slot fails it stops there and is called again.          *)
(***************************************************************************)
EXTENDS SlotProtocol

CONSTANTS
  Mortal,    \* components that may be terminated
  MaxEpoch   \* bound: runtimes of the last epoch are not terminated

ASSUME RecoveryAssumption == Mortal \subseteq Components /\ MaxEpoch \in Nat

VARIABLES
  down,     \* terminated components that have not been replaced
  quiet,    \* the integrator has quiesced the pool
  swept     \* sweeps that have returned ZIPC_OK in this quiescence

avars == <<vars, down, quiet, swept>>

AdminInit ==
  /\ Init
  /\ down = {} /\ quiet = FALSE /\ swept = {}

\* Calls of the application and their steps.
Run(c) ==
  /\ ~quiet /\ c \notin down
  /\ Call(c) \/ Step(c)
  /\ UNCHANGED <<down, quiet, swept>>

\* The runtime stops: shared memory keeps what it has written so far, its call
\* and its views are gone.
Crash(c) ==
  /\ ~quiet
  /\ c \in Mortal \ down
  /\ life[c].epoch < MaxEpoch
  /\ down' = down \cup {c}
  /\ Return(c)
  /\ views' = [views EXCEPT ![c] = {}]
  /\ UNCHANGED <<slot, ring, life, quiet, swept>>

\* The contract of both sweeps: no protocol operation is under way.
Quiesce ==
  /\ ~quiet
  /\ down # {}
  /\ \A c \in Components : Idle(c)
  /\ quiet' = TRUE
  /\ UNCHANGED <<vars, down, swept>>

\* zipc_component_unregister of the terminated epoch.
Unregister(c) ==
  /\ quiet /\ c \in down
  /\ life[c].state # "INACTIVE"
  /\ life' = [life EXCEPT ![c].state = "INACTIVE"]
  /\ UNCHANGED <<slot, ring, views, pc, loc, down, quiet, swept>>

\* The slots a sweep gets through before it returns: all, or fewer when the
\* page protection of the next one fails.
Reached(found) == IF Faults THEN SUBSET found ELSE {found}

\* reclaimed maps each slot that the sweep finds to its reclaimed contents.
Sweep(name, reclaimed) ==
  \E done \in Reached(DOMAIN reclaimed) :
    /\ slot' = [s \in Slots |-> IF s \in done THEN reclaimed[s] ELSE slot[s]]
    /\ swept' = IF done = DOMAIN reclaimed THEN swept \cup {name} ELSE swept

OrphansOwnedOnly(c) ==
  {s \in Slots : /\ slot[s].state = "OWNED"
                 /\ slot[s].owner = c /\ slot[s].epoch = life[c].epoch}

Orphans(c) ==
  {s \in Slots : /\ slot[s].state \in {"OWNED", "TRANSFER"}
                 /\ slot[s].owner = c
                 /\ slot[s].epoch = life[c].epoch}

\* zipc_pool_recover_owner of the unregistered epoch; the claim token of the
\* slot is left as it is.
RecoverOwner(c) ==
  /\ quiet /\ c \in down
  /\ life[c].state = "INACTIVE"
  /\ Sweep(c, [s \in Orphans(c) |->
                [slot[s] EXCEPT !.state = "FREE", !.owner = NoComponent,
                                !.next = NoComponent, !.region = "EMPTY"]])
  /\ UNCHANGED <<ring, life, views, pc, loc, down, quiet>>

RecoverClaimingRestarts ==
  /\ quiet
  /\ Sweep(NoComponent, [s \in {t \in Slots : slot[t].state = "CLAIMING"} |->
                           [InitialSlot EXCEPT !.generation = 0]])
  /\ UNCHANGED <<ring, life, views, pc, loc, down, quiet>>

\* zipc_pool_recover_claiming; NoComponent names this sweep.
RecoverClaiming ==
  /\ quiet
  /\ Sweep(NoComponent, [s \in {t \in Slots : slot[t].state = "CLAIMING"} |->
                           [InitialSlot EXCEPT !.generation = slot[s].generation]])
  /\ UNCHANGED <<ring, life, views, pc, loc, down, quiet>>

\* The replacement of c registers; the last one ends the quiescence.
Replace(c) ==
  /\ quiet /\ c \in down
  /\ {c, NoComponent} \subseteq swept
  /\ life[c].state = "INACTIVE"
  /\ life' = [life EXCEPT ![c] = [epoch |-> @.epoch + 1, state |-> "ACTIVE"]]
  /\ down' = down \ {c}
  /\ IF down' = {} THEN quiet' = FALSE /\ swept' = {}
                   ELSE UNCHANGED <<quiet, swept>>
  /\ UNCHANGED <<slot, ring, views, pc, loc>>

AdminNext ==
  \/ \E c \in Components :
       Run(c) \/ Crash(c) \/ Unregister(c) \/ RecoverOwner(c) \/ Replace(c)
  \/ Quiesce
  \/ RecoverClaiming

AdminSpec == AdminInit /\ [][AdminNext]_avars

(***************************************************************************)
(* Properties.                                                             *)
(***************************************************************************)
\* At most one runtime works inside a claim of a slot, also when a receiver
\* takes a slot for the descriptor of an earlier, reclaimed buffer.
SoleClaimant ==
  \A c \in Components :
    InClaim(c) =>
      /\ Here(c).state = "CLAIMING"
      /\ \A d \in Components \ {c} : InClaim(d) => loc[d].slot # loc[c].slot

\* "Recover slots belonging to one dead component runtime": the sweeps take
\* no buffer from a component that lives on, and no buffer is received for a
\* descriptor that outlived its transfer in a ring.
LiveViewsKept == ViewsAreOwned

\* No epoch but the current one of a component owns a slot once the component
\* has been replaced, and when all have been no slot is left in CLAIMING
\* without a runtime inside the claim, except for a rollback of a component
\* that lives on and could not restore page access.
OrphansReclaimed ==
  \A s \in Slots :
    /\ slot[s].state \in {"OWNED", "TRANSFER"} /\ slot[s].owner \notin down =>
         slot[s].epoch = life[slot[s].owner].epoch
    /\ slot[s].state = "CLAIMING" /\ down = {} =>
         \/ \E c \in Components : InClaim(c) /\ loc[c].slot = s
         \/ /\ slot[s].token.kind = "ROLLBACK"
            /\ slot[s].token.epoch = life[slot[s].token.comp].epoch

\* "Orphan recovery reclaims slots owned by a failed component epoch": when
\* all components run again, a slot that is FREE can be allocated; it does not
\* carry the token of a call of a terminated runtime on the buffer it owned.
ReclaimedUsable ==
  \A s \in Slots :
    LET t == slot[s].token
    IN down = {} /\ slot[s].state = "FREE" =>
         ~ /\ t.kind \in {"SEND", "ROLLBACK", "RECEIVE", "RELEASE"}
           /\ t.epoch # life[t.comp].epoch
=============================================================================
