---------------------------- MODULE AdminProofs -----------------------------
(***************************************************************************)
(* Proofs about administrative recovery, for every set of components,      *)
(* slots and links and every number of terminations: the sweeps and the    *)
(* stale descriptors and tokens that terminated runtimes leave behind take *)
(* no buffer from a component that lives on.                               *)
(*                                                                         *)
(* First the steps of a rollback, a receive and a release, then the steps  *)
(* of the recovery.                                                        *)
(***************************************************************************)
EXTENDS AdminCalls

(***************************************************************************)
(* rollback_transfer.                                                      *)
(***************************************************************************)
LEMMA RollbackOf ==
  ASSUME NEW c \in Components, NEW label, Goes(c, label), pc[c].op = "ROLLBACK",
         RollbackWork(c)'
  PROVE  Fine(c) /\ RunInv(c)'
BY RunInvOf, Zenon DEF Goes

\* What a rollback relies on until it has claimed the slot.
LEMMA UnpublishedStill ==
  ASSUME NEW c \in Components, loc[c].slot \in Slots, Unpublished(c), SameFields(loc[c].slot),
         loc' = loc, life' = life, ring' = ring
  PROVE  Unpublished(c)'
BY MineKept, BehindAlone, Zenon DEF Unpublished, SameFields

LEMMA RollbackWrites ==
  ASSUME TypeOK, NEW c \in Components, RunInv(c), life[c].state = "ACTIVE", RollbackFill(c)
  PROVE  Fine(c) /\ RunInv(c)'
<1> USE Types
<1>1. pc[c].op = "ROLLBACK" /\ pc[c].at = "fill"
  BY AtFacts, Zenon DEF RollbackFill
<1>2. /\ loc[c].slot \in Slots /\ InClaim(c) /\ Here(c).state = "CLAIMING"
      /\ Unpublished(c) /\ Transferring(c) /\ Mine(c) /\ Here(c).owner = c
      /\ Here(c).token = Token("ROLLBACK", c, loc[c].epoch)
  BY <1>1, WorkFacts, Zenon
     DEF InClaim, HoldsToken, RunInv, RollbackWork, Unpublished, Transferring, Mine
<1>3. RollbackAccepts(c)
  BY <1>2, Zenon DEF RollbackAccepts, Transferring, Mine
<1>4. /\ loc' = loc /\ ring' = ring /\ life' = life /\ views' = views
      /\ slot' = [slot EXCEPT ![loc[c].slot] =
                    [@ EXCEPT !.next = NoComponent, !.sequence = loc[c].sequence - 1]]
      /\ Goto(c, "publish") \/ Goto(c, "lost")
  BY <1>3, Zenon DEF RollbackFill
<1>5. PICK q \in Nat : q = loc[c].sequence - 1
  BY <1>2, LocalTypes DEF Transferring
<1> DEFINE new == [Here(c) EXCEPT !.next = NoComponent, !.sequence = loc[c].sequence - 1]
<1>6. /\ new \in SlotControl
      /\ new.token = Here(c).token /\ new.state = "CLAIMING"
      /\ new.generation = Here(c).generation /\ new.owner = c
      /\ new.epoch = Here(c).epoch /\ new.sequence = q
  <2>1. Here(c) \in SlotControl
    BY <1>2, Zenon DEF Here, SlotType
  <2> QED
    BY <1>2, <1>5, <2>1, Zenon DEF SlotControl
<1>7. OnlySlot(loc[c].slot) /\ slot'[loc[c].slot] = new
  <2>1. slot' = [slot EXCEPT ![loc[c].slot] = new]
    BY <1>2, <1>4, Zenon DEF SlotType, Here
  <2> HIDE DEF new
  <2> QED
    BY <1>2, <1>6, <2>1, RecordUpdate, Zenon
<1> HIDE DEF new
<1>8. EndsWell(loc[c].slot)
  <2>1. slot[loc[c].slot].generation \in Nat
    BY <1>2, FieldTypes, Zenon
  <2>2. /\ slot'[loc[c].slot].generation = slot[loc[c].slot].generation
        /\ slot'[loc[c].slot].state = "CLAIMING"
    BY <1>6, <1>7, Zenon DEF Here
  <2>3. slot'[loc[c].slot].generation >= slot[loc[c].slot].generation
    BY <2>1, <2>2
  <2> QED
    BY <1>4, <2>2, <2>3, Zenon DEF EndsWell
<1>9. CASE Goto(c, "publish")
  <2>1. Inner(c, "publish") /\ Within(c, "publish") /\ InClaim(c)'
    <3>1. Inner(c, "publish")
      BY <1>4, <1>9, GotoMoves, Zenon DEF Inner, Labels
    <3> QED
      BY <3>1, InnerWithin, Zenon DEF Inner, InClaim, Moves
  <2>2. Works(c, loc[c].slot)
    BY <1>2, <1>4, <1>8, <2>1, Zenon DEF Works, Here
  <2>3. Goes(c, "publish")
    BY <1>1, <1>2, <1>4, <1>6, <1>7, <2>1, <2>2, WorkGoes, Zenon DEF RunSteps, Steps
  <2>4. Mine(c)'
    BY <1>2, <1>4, <1>6, <1>7, SameEpoch, Zenon DEF Mine, Here
  <2>5. Behind(loc[c].slot)'
    <3> SUFFICES ASSUME NEW m \in Descriptors, m.slot = loc[c].slot,
                        m.generation = Here(c).generation
                 PROVE  m.sequence <= q
      BY <1>4, <1>6, <1>7, SameRings, Zenon DEF Behind
    <3>1. m.sequence \in Nat /\ loc[c].sequence \in Nat /\ m.sequence < loc[c].sequence
      BY <1>2, DescriptorType, MessageFields, LocalTypes, Zenon
         DEF Unpublished, Fresh, Transferring, Here
    <3> QED
      BY <1>5, <3>1
  <2>6. Here(c)'.token = Token("ROLLBACK", c, loc'[c].epoch)
    BY <1>2, <1>4, <1>6, <1>7, Zenon DEF Here
  <2>7. loc'[c].sequence > 0
    BY <1>2, <1>4, Zenon DEF Transferring
  <2>8. RollbackWork(c)'
    BY <1>4, <2>3, <2>4, <2>5, <2>6, <2>7, Zenon DEF RollbackWork, Goes
  <2> QED
    BY <1>1, <2>3, <2>8, RollbackOf, Zenon
<1>10. CASE Goto(c, "lost")
  <2>1. Inner(c, "lost") /\ Within(c, "lost") /\ ~HoldsToken(c)' /\ ~InClaim(c)'
    <3>1. Inner(c, "lost")
      BY <1>4, <1>10, GotoMoves, Zenon DEF Inner, Labels
    <3> QED
      BY <3>1, InnerWithin, Zenon DEF Inner, InClaim, HoldsToken, Moves
  <2>2. Abandoned(loc[c].slot)'
    <3>1. loc[c].epoch = life[c].epoch
      BY <1>2, Zenon DEF Mine, RegisteredEpoch
    <3>2. slot'[loc[c].slot].token = Token("ROLLBACK", c, life[c].epoch)
      BY <1>2, <1>6, <1>7, <3>1, Zenon
    <3>3. /\ slot'[loc[c].slot].token.kind = "ROLLBACK"
          /\ slot'[loc[c].slot].token.comp = c
          /\ slot'[loc[c].slot].token.epoch = life[c].epoch
      BY <3>2, TokenFields
    <3> QED
      BY <1>4, <2>1, <3>3, Zenon DEF Abandoned
  <2>3. Works(c, loc[c].slot)
    BY <1>2, <1>4, <1>8, <2>2, Zenon DEF Works, Here
  <2>4. Goes(c, "lost")
    BY <1>1, <1>2, <1>4, <1>6, <1>7, <2>1, <2>3, WorkGoes, Zenon DEF RunSteps, Steps, ClaimSteps
  <2>5. loc'[c].sequence > 0
    BY <1>2, <1>4, Zenon DEF Transferring
  <2>6. RollbackWork(c)'
    BY <2>1, <2>4, <2>5, Zenon DEF RollbackWork, Goes
  <2> QED
    BY <1>1, <2>4, <2>6, RollbackOf, Zenon
<1> QED
  BY <1>4, <1>9, <1>10, Zenon

LEMMA RollbackRuns ==
  ASSUME TypeOK, NEW c \in Components, RunInv(c), life[c].state = "ACTIVE", RollbackStep(c)
  PROVE  Fine(c) /\ RunInv(c)'
<1> USE Types
<1>0. pc[c].op = "ROLLBACK" => loc[c].slot \in Slots /\ loc[c].sequence > 0
  BY WorkFacts, Zenon DEF RunInv, RollbackWork, Steps
<1>00. ASSUME pc[c].op = "ROLLBACK", pc[c].at \in {"check", "token", "claim"}
       PROVE  Unpublished(c) /\ Here(c).state \in {"TRANSFER", "CLAIMING"}
  BY <1>00, Zenon DEF RunInv, RollbackWork
<1>1. CASE RollbackCheck(c)
  <2>1. pc[c].op = "ROLLBACK" /\ pc[c].at = "check" /\ loc' = loc
    BY <1>1, AtFacts, Zenon DEF RollbackCheck
  <2>2. CASE Here(c).state = "TRANSFER"
    <3>1. Within(c, "token")
      BY <1>1, <2>2, GotoMoves, InnerWithin, Zenon DEF RollbackCheck, Inner, Labels
    <3>2. Journals(loc[c].slot)
      <4>1. loc[c].sequence - 1 \in Nat
        BY <1>0, <2>1, LocalTypes
      <4> QED
        BY <1>0, <1>1, <2>1, <2>2, <4>1, SequenceJournal, Zenon DEF RollbackCheck
    <3>3. Goes(c, "token") /\ Still(loc[c].slot)
      BY <2>1, <3>1, <3>2, JournalGoes, Zenon
         DEF RunSteps, Steps, InClaim, ClaimSteps, HoldingSteps
    <3>4. Unpublished(c)' /\ Here(c)'.state \in {"TRANSFER", "CLAIMING"}
      BY <1>0, <1>00, <2>1, <3>3, UnpublishedStill, MineStill, Zenon DEF Goes, Still
    <3>5. RollbackWork(c)'
      BY <1>0, <2>1, <3>3, <3>4, Zenon DEF RollbackWork, Goes, HoldsToken
    <3> QED
      BY <2>1, <3>3, <3>5, RollbackOf, Zenon
  <2>3. CASE Here(c).state # "TRANSFER"
    <3>1. Within(c, "lost") /\ slot' = slot
      BY <1>1, <2>3, GotoMoves, InnerWithin, Zenon DEF RollbackCheck, Inner, Labels
    <3>2. Goes(c, "lost")
      BY <2>1, <3>1, QuietGoes, Zenon
         DEF RunSteps, Steps, InClaim, ClaimSteps, HoldingSteps
    <3>3. RollbackWork(c)'
      BY <1>0, <2>1, <3>2, Zenon DEF RollbackWork, Goes, HoldsToken
    <3> QED
      BY <2>1, <3>2, <3>3, RollbackOf, Zenon
  <2> QED
    BY <2>2, <2>3, Zenon
<1>2. CASE RollbackToken(c)
  <2>1. pc[c].op = "ROLLBACK" /\ pc[c].at = "token" /\ loc' = loc
    BY <1>2, AtFacts, Zenon DEF RollbackToken, CasToken
  <2>2. CASE Here(c).token = NoToken
    <3>1. /\ Goes(c, "claim") /\ Still(loc[c].slot)
          /\ slot'[loc[c].slot].token = Token("ROLLBACK", c, loc[c].epoch)
      BY <1>2, <2>2, TokenTakenGoes, Zenon DEF RollbackToken, CasToken, Kinds
    <3>2. Unpublished(c)' /\ Here(c)'.state \in {"TRANSFER", "CLAIMING"}
      BY <1>0, <1>00, <2>1, <3>1, UnpublishedStill, MineStill, Zenon DEF Goes, Still
    <3>3. RollbackWork(c)'
      BY <1>0, <2>1, <3>1, <3>2, Zenon DEF RollbackWork, Goes, Here
    <3> QED
      BY <2>1, <3>1, <3>3, RollbackOf, Zenon
  <2>3. CASE Here(c).token # NoToken
    <3>1. Within(c, "lost") /\ slot' = slot
      BY <1>2, <2>3, GotoMoves, InnerWithin, Zenon DEF RollbackToken, CasToken, Inner, Labels
    <3>2. Goes(c, "lost")
      BY <2>1, <3>1, QuietGoes, Zenon
         DEF RunSteps, Steps, InClaim, ClaimSteps, HoldingSteps
    <3>3. RollbackWork(c)'
      BY <1>0, <2>1, <3>2, Zenon DEF RollbackWork, Goes, HoldsToken
    <3> QED
      BY <2>1, <3>2, <3>3, RollbackOf, Zenon
  <2> QED
    BY <2>2, <2>3, Zenon
<1>3. CASE RollbackClaim(c)
  <2>1. /\ pc[c].op = "ROLLBACK" /\ pc[c].at = "claim" /\ loc' = loc
        /\ \/ Goes(c, "fill") /\ SetsState(loc[c].slot, "CLAIMING")
           \/ Goes(c, "undo") /\ slot' = slot
    BY <1>3, ClaimGoes, Zenon DEF RollbackClaim, Kinds
  <2>2. Here(c).token = Token("ROLLBACK", c, loc[c].epoch)
    BY <2>1, Zenon DEF RunInv, RollbackWork, HoldsToken
  <2>3. CASE Goes(c, "fill") /\ SetsState(loc[c].slot, "CLAIMING")
    <3>1. Unpublished(c)'
      BY <1>0, <1>00, <2>1, <2>3, UnpublishedStill, Zenon DEF Goes, SetsState
    <3>2. /\ Here(c)'.state = "CLAIMING"
          /\ Here(c)'.token = Token("ROLLBACK", c, loc'[c].epoch)
      BY <2>1, <2>2, <2>3, Zenon DEF SetsState, Here
    <3>3. RollbackWork(c)'
      BY <1>0, <2>1, <2>3, <3>1, <3>2, Zenon DEF RollbackWork, Goes
    <3> QED
      BY <2>1, <2>3, <3>3, RollbackOf, Zenon
  <2>4. CASE Goes(c, "undo") /\ slot' = slot
    <3>1. RollbackWork(c)'
      BY <1>0, <2>1, <2>2, <2>4, Zenon DEF RollbackWork, Goes, Here
    <3> QED
      BY <2>1, <2>4, <3>1, RollbackOf, Zenon
  <2> QED
    BY <2>1, <2>3, <2>4, Zenon
<1>4. CASE RollbackUndo(c)
  <2>1. Goes(c, "lost") /\ loc' = loc /\ pc[c].op = "ROLLBACK"
    BY <1>4, ClearGoes, Zenon DEF RollbackUndo, Kinds, RunSteps, Steps
  <2>2. RollbackWork(c)'
    BY <1>0, <2>1, Zenon DEF RollbackWork, Goes, HoldsToken
  <2> QED
    BY <2>1, <2>2, RollbackOf, Zenon
<1>5. CASE RollbackFill(c)
  BY <1>5, RollbackWrites, Zenon
<1>6. CASE RollbackPublish(c)
  <2>1. pc[c].op = "ROLLBACK" /\ pc[c].at = "publish"
    BY <1>6, AtFacts, Zenon DEF RollbackPublish, Publish
  <2>2. /\ Mine(c) /\ Behind(loc[c].slot) /\ Here(c).owner = c
        /\ Here(c).token = Token("ROLLBACK", c, loc[c].epoch)
    BY <2>1, Zenon DEF RunInv, RollbackWork, Mine, HoldsToken
  <2>3. Belongs(loc[c].slot)
    BY <2>2, MineBelongs, Zenon
  <2>4. Goes(c, "clear") /\ loc' = loc /\ SetsState(loc[c].slot, "OWNED")
    BY <1>6, <2>2, <2>3, PublishGoes DEF RollbackPublish, Kinds, RunSteps, Steps, ClaimSteps
  <2>5. /\ Mine(c)' /\ Here(c)'.state = "OWNED"
        /\ Here(c)'.token = Token("ROLLBACK", c, loc'[c].epoch)
    BY <2>2, <2>4, MineKept, Zenon DEF SetsState, Here, Goes
  <2>6. RollbackWork(c)'
    BY <1>0, <2>1, <2>4, <2>5, Zenon DEF RollbackWork, Goes
  <2> QED
    BY <2>1, <2>4, <2>6, RollbackOf, Zenon
<1>7. CASE RollbackClear(c)
  <2>1. pc[c].op = "ROLLBACK" /\ pc[c].at = "clear" /\ life' = life /\ views' = views
    BY <1>7, AtFacts, Zenon DEF RollbackClear, ClearAndReturn
  <2>2. Mine(c) /\ Here(c).state = "OWNED"
    BY <2>1, Zenon DEF RunInv, RollbackWork
  <2>3. ASSUME Still(loc[c].slot), NEW v \in views[c]
        PROVE  v.slot # loc[c].slot \/ BufferOwned(c, v)'
    BY <2>1, <2>2, <2>3, OwnerViews, Zenon
  <2> QED
    BY <1>7, <2>1, <2>3, ClearReturns, Zenon DEF RollbackClear, Kinds, ViewType
<1>8. CASE RollbackLost(c)
  <2>1. /\ pc[c].op = "ROLLBACK" /\ pc[c].at = "lost"
        /\ slot' = slot /\ ring' = ring /\ life' = life /\ Return(c)
    BY <1>8, AtFacts, Zenon DEF RollbackLost
  <2>2. /\ ViewType'
        /\ \A d \in Components \ {c} : views'[d] = views[d]
        /\ \A v \in views'[c] : v \in views[c] /\ v.slot # loc[c].slot
    BY <1>8, Zenon DEF RollbackLost, DropView, ViewType
  <2> QED
    BY <2>1, <2>2, QuietReturns, RingsAlone, Zenon DEF InClaim, RingType
<1> QED
  BY <1>1, <1>2, <1>3, <1>4, <1>5, <1>6, <1>7, <1>8, Zenon DEF RollbackStep

(***************************************************************************)
(* zipc_recv.                                                              *)
(***************************************************************************)
LEMMA RecvOf ==
  ASSUME NEW c \in Components, NEW label, Goes(c, label), pc[c].op = "RECEIVE", RecvWork(c)'
  PROVE  Fine(c) /\ RunInv(c)'
BY RunInvOf, Zenon DEF Goes

LEMMA PeekedKept ==
  ASSUME NEW c \in Components, Peeked(c), ring' = ring,
         loc'[c].slot = loc[c].slot, loc'[c].peer = loc[c].peer,
         loc'[c].generation = loc[c].generation, loc'[c].sequence = loc[c].sequence
  PROVE  Peeked(c)'
BY Zenon DEF Peeked

\* The peeked descriptor is one of those in the rings.
LEMMA PeekedDescriptor ==
  ASSUME TypeOK, NEW c \in Components, Peeked(c)
  PROVE  \E m \in Descriptors : /\ m.slot = loc[c].slot
                                /\ m.generation = loc[c].generation
                                /\ m.sequence = loc[c].sequence
<1>1. PICK l \in Links : l = <<loc[c].peer, c>>
  BY Zenon DEF Peeked
<1>2. ring[l] \in Seq(Message) /\ ring[l] # <<>>
  BY <1>1, Types, Zenon DEF RingType, Peeked
<1>3. 1 \in 1..Len(ring[l])
  BY <1>2
<1>4. ring[l][1] \in Descriptors
  BY <1>3 DEF Descriptors
<1> QED
  BY <1>1, <1>4, Zenon DEF Peeked

LEMMA RecvStarts ==
  ASSUME TypeOK, NEW c \in Components, RunInv(c), RecvCall(c)
  PROVE  Fine(c) /\ RunInv(c)'
<1> USE Types
<1>1. PICK l \in Links :
        /\ l[2] = c
        /\ ring[l] # <<>>
        /\ loc' = [loc EXCEPT ![c] =
                     [NoCall EXCEPT !.slot = Head(ring[l]).slot, !.peer = l[1],
                                    !.generation = Head(ring[l]).generation,
                                    !.sequence = Head(ring[l]).sequence]]
  BY Zenon DEF RecvCall
<1>2. pc[c].op = "NONE" /\ pc[c].at = "idle" /\ Moves(c, "RECEIVE", "check")
  BY EnterMoves, AtFacts, Zenon DEF RecvCall, Idle, Kinds, Labels
<1>3. PICK m \in Message : m = Head(ring[l]) /\ m = ring[l][1]
  BY <1>1 DEF RingType
<1>4. l = <<l[1], c>> /\ l[1] \in Components
  BY <1>1, LinkPair, Zenon
<1>5. /\ LocType'
      /\ \A d \in Components \ {c} : loc'[d] = loc[d]
      /\ loc'[c].slot = m.slot /\ loc'[c].peer = l[1]
      /\ loc'[c].generation = m.generation /\ loc'[c].sequence = m.sequence
  <2> DEFINE r == [NoCall EXCEPT !.slot = m.slot, !.peer = l[1],
                                 !.generation = m.generation, !.sequence = m.sequence]
  <2>1. /\ r \in Locals /\ r.slot = m.slot /\ r.peer = l[1]
        /\ r.generation = m.generation /\ r.sequence = m.sequence
    BY <1>4, MessageFields, TokenTypes, Zenon DEF NoCall, Locals, States
  <2>2. loc' = [loc EXCEPT ![c] = r]
    BY <1>1, <1>3, Zenon
  <2> HIDE DEF r
  <2> QED
    BY <2>1, <2>2, LocalsUpdate, Zenon
<1>6. /\ ring' = ring /\ life' = life /\ views' = views
      /\ SlotType' /\ \A s \in Slots : Still(s) /\ slot'[s].token = slot[s].token
  BY Zenon DEF RecvCall, SlotType, Still, SameFields
<1>7. Fine(c) /\ WorkInv(c)' /\ pc'[c].op = "RECEIVE" /\ pc'[c].at = "check"
  BY <1>2, <1>5, <1>6, MessageFields, Starts, Zenon DEF RunSteps, Steps
<1>8. ViewWork(c)'
  BY <1>2, <1>6, <1>7, StillViews, Zenon
<1>9. RecvWork(c)'
  BY <1>1, <1>3, <1>4, <1>5, <1>6, <1>7, Zenon DEF RecvWork, Peeked
<1> QED
  BY <1>7, <1>8, <1>9, RunInvOf, Zenon

LEMMA RecvWrites ==
  ASSUME TypeOK, NEW c \in Components, RunInv(c), RecvFill(c)
  PROVE  Fine(c) /\ RunInv(c)'
<1> USE Types
<1> DEFINE received ==
      [Here(c) EXCEPT !.owner = c, !.next = NoComponent,
         !.epoch = loc[c].epoch, !.hops = Here(c).sourceHops + 1]
<1> DEFINE freed == [received EXCEPT !.owner = NoComponent, !.region = "EMPTY"]
<1>1. pc[c].op = "RECEIVE" /\ pc[c].at = "fill"
  BY AtFacts, Zenon DEF RecvFill
<1>2. /\ loc[c].slot \in Slots /\ InClaim(c) /\ Here(c).state = "CLAIMING"
      /\ Peeked(c) /\ loc[c].epoch = RegisteredEpoch(c)
      /\ Belongs(loc[c].slot) /\ Behind(loc[c].slot)
  BY <1>1, WorkFacts, Zenon DEF InClaim, RunInv, RecvWork
<1>3. loc' = loc /\ ring' = ring /\ life' = life /\ views' = views
  BY Zenon DEF RecvFill
<1>4. Peeked(c)' /\ loc'[c].epoch = RegisteredEpoch(c)'
  BY <1>2, <1>3, PeekedKept, SameEpoch, Zenon
<1>5. /\ received \in SlotControl
      /\ received.token = Here(c).token /\ received.state = "CLAIMING"
      /\ received.owner = c /\ received.epoch = loc[c].epoch
      /\ received.generation = Here(c).generation
      /\ received.sequence = Here(c).sequence
  <2>1. Here(c) \in SlotControl /\ Here(c).sourceHops + 1 \in Nat /\ loc[c].epoch \in Nat
    BY <1>2, FieldTypes, LocalTypes DEF Here, SlotType
  <2> QED
    BY <1>2, <2>1, Zenon DEF SlotControl
<1>6. /\ freed \in SlotControl
      /\ freed.token = Here(c).token /\ freed.state = "CLAIMING"
      /\ freed.owner = NoComponent
      /\ freed.generation = Here(c).generation
  BY <1>5, Zenon DEF SlotControl
<1> HIDE DEF received, freed
<1>7. ASSUME RecvAccepts(c), slot'[loc[c].slot].state = "CLAIMING", InClaim(c)',
             slot'[loc[c].slot].generation = Here(c).generation
      PROVE  Works(c, loc[c].slot)
  <2>1. ~Fresh(loc[c].slot)
    <3>1. PICK m \in Descriptors : /\ m.slot = loc[c].slot
                                   /\ m.generation = Here(c).generation
                                   /\ m.sequence = Here(c).sequence
      BY <1>2, <1>7, PeekedDescriptor, Zenon DEF RecvAccepts
    <3>2. Here(c).sequence \in Nat /\ ~(m.sequence < Here(c).sequence)
      BY <1>2, <3>1, FieldTypes DEF Here
    <3> QED
      BY <3>1, <3>2, Zenon DEF Fresh, Here
  <2>2. slot[loc[c].slot].generation \in Nat
    BY <1>2, FieldTypes, Zenon
  <2>3. slot'[loc[c].slot].generation >= slot[loc[c].slot].generation
    BY <1>7, <2>2 DEF Here
  <2>4. EndsWell(loc[c].slot)
    BY <1>3, <1>7, <2>3, Zenon DEF EndsWell
  <2> QED
    BY <1>2, <1>3, <1>7, <2>1, <2>4, Zenon DEF Works
<1>8. CASE /\ RecvAccepts(c)
           /\ slot' = [slot EXCEPT ![loc[c].slot] = received]
           /\ Goto(c, "publish")
  <2>1. OnlySlot(loc[c].slot) /\ slot'[loc[c].slot] = received
    BY <1>2, <1>5, <1>8, RecordUpdate, Zenon
  <2>2. Within(c, "publish") /\ InClaim(c)'
    <3>1. Inner(c, "publish")
      BY <1>3, <1>8, GotoMoves, Zenon DEF Inner, Labels
    <3> QED
      BY <3>1, InnerWithin, Zenon DEF Inner, InClaim, Moves
  <2>3. Works(c, loc[c].slot)
    BY <1>5, <1>7, <1>8, <2>1, <2>2, Zenon
  <2>4. Goes(c, "publish")
    BY <1>1, <1>2, <1>5, <2>1, <2>2, <2>3, WorkGoes, Zenon DEF RunSteps, Steps
  <2>5. Mine(c)'
    <3>1. Here(c).generation = loc[c].generation
      BY <1>8, Zenon DEF RecvAccepts
    <3> QED
      BY <1>3, <1>4, <1>5, <2>1, <3>1, Zenon DEF Mine, Here
  <2>6. Behind(loc[c].slot)'
    BY <1>2, <1>3, <1>5, <2>1, BehindAlone, Zenon DEF Here
  <2>7. RecvWork(c)'
    BY <1>3, <1>4, <2>4, <2>5, <2>6, Zenon DEF RecvWork, Goes
  <2> QED
    BY <1>1, <2>4, <2>7, RecvOf, Zenon
<1>9. CASE /\ RecvAccepts(c)
           /\ slot' = [slot EXCEPT ![loc[c].slot] = freed]
           /\ Goto(c, "free")
  <2>1. OnlySlot(loc[c].slot) /\ slot'[loc[c].slot] = freed
    BY <1>2, <1>6, <1>9, RecordUpdate, Zenon
  <2>2. Within(c, "free") /\ InClaim(c)'
    <3>1. Inner(c, "free")
      BY <1>3, <1>9, GotoMoves, Zenon DEF Inner, Labels
    <3> QED
      BY <3>1, InnerWithin, Zenon DEF Inner, InClaim, Moves
  <2>3. Works(c, loc[c].slot)
    BY <1>6, <1>7, <1>9, <2>1, <2>2, Zenon
  <2>4. Goes(c, "free")
    BY <1>1, <1>2, <1>6, <2>1, <2>2, <2>3, WorkGoes, Zenon DEF RunSteps, Steps
  <2>5. Here(c)'.owner = NoComponent
    BY <1>3, <1>6, <2>1, Zenon DEF Here
  <2>6. RecvWork(c)'
    BY <1>4, <2>4, <2>5, Zenon DEF RecvWork, Goes
  <2> QED
    BY <1>1, <2>4, <2>6, RecvOf, Zenon
<1>10. CASE /\ slot' = [slot EXCEPT ![loc[c].slot].state = "TRANSFER"]
            /\ Goto(c, "undo")
  <2>1. Publish(c, "RECEIVE", "fill", "TRANSFER", "undo")
    BY <1>10, Zenon DEF RecvFill, Publish
  <2>2. Goes(c, "undo")
    BY <1>2, <2>1, PublishGoes, Zenon DEF Kinds, RunSteps, Steps, ClaimSteps
  <2>3. RecvWork(c)'
    BY <1>4, <2>2, Zenon DEF RecvWork, Goes
  <2> QED
    BY <1>1, <2>2, <2>3, RecvOf, Zenon
<1> QED
  BY <1>8, <1>9, <1>10, Zenon DEF RecvFill, received, freed

\* zipc_linux_common_ring_commit leaves the other rings alone.
LEMMA CommitRings ==
  ASSUME TypeOK, NEW c \in Components, Peeked(c), Commit(c)
  PROVE  RingType' /\ RingMove(c)
<1> USE Types
<1>1. PICK l \in Links : l = <<loc[c].peer, c>> /\ l[2] = c
  BY Zenon DEF Peeked
<1>2. ring[l] \in Seq(Message) /\ ring[l] # <<>>
  BY <1>1, Zenon DEF RingType, Peeked
<1>3. ring' = [ring EXCEPT ![l] = Tail(ring[l])]
  BY <1>1, Zenon DEF Commit
<1>4. /\ ring'[l] = Tail(ring[l])
      /\ \A k \in Links \ {l} : ring'[k] = ring[k]
      /\ RingType'
  <2>1. Tail(ring[l]) \in Seq(Message)
    BY <1>2
  <2> QED
    BY <1>3, <2>1, Zenon DEF RingType
<1>5. ASSUME NEW m \in Descriptors' PROVE m \in Descriptors
  <2>1. PICK k \in Links : \E i \in 1..Len(ring'[k]) : m = ring'[k][i]
    BY <1>5, Zenon DEF Descriptors
  <2>2. PICK i \in 1..Len(ring'[k]) : m = ring'[k][i]
    BY <2>1, Zenon
  <2>3. CASE ring'[k] = ring[k]
    BY <2>2, <2>3 DEF Descriptors
  <2>4. CASE k = l
    <3>1. ASSUME NEW q \in Seq(Message), q # <<>>, NEW j \in 1..Len(Tail(q))
          PROVE  j + 1 \in 1..Len(q) /\ Tail(q)[j] = q[j + 1]
      BY <3>1
    <3>2. i + 1 \in 1..Len(ring[l]) /\ m = ring[l][i + 1]
      BY <1>2, <1>4, <2>2, <2>4, <3>1, Zenon
    <3> QED
      BY <3>2 DEF Descriptors
  <2> QED
    BY <1>4, <2>3, <2>4, Zenon
<1> QED
  BY <1>1, <1>4, <1>5, Zenon DEF RingMove

LEMMA RecvReturns ==
  ASSUME TypeOK, NEW c \in Components, RunInv(c), RecvCommit(c) \/ RecvDrop(c)
  PROVE  Fine(c) /\ RunInv(c)'
<1> USE Types
<1>1. /\ pc[c].op = "RECEIVE" /\ pc[c].at \in {"commit", "drop"}
      /\ slot' = slot /\ life' = life /\ Return(c) /\ Commit(c)
  BY AtFacts, Zenon DEF RecvCommit, RecvDrop
<1>2. /\ loc[c].slot \in Slots /\ ~InClaim(c) /\ Peeked(c)
  BY <1>1, WorkFacts, Zenon DEF RunInv, RecvWork, InClaim
<1>3. RingType' /\ RingMove(c)
  BY <1>1, <1>2, CommitRings, Zenon
<1>4. ASSUME NEW v, BufferOwned(c, v) PROVE BufferOwned(c, v)'
  BY <1>1, <1>4, SameEpoch, Zenon DEF BufferOwned
<1>5. CASE RecvCommit(c)
  <2>1. pc[c].at = "commit"
    BY <1>5, AtFacts, Zenon DEF RecvCommit
  <2>2. PICK new \in View :
          new = [slot |-> loc[c].slot, generation |-> loc[c].generation,
                 epoch |-> loc[c].epoch]
    BY <1>2, LocalTypes, Zenon DEF View
  <2>3. views' = [views EXCEPT ![c] = @ \cup {new}]
    BY <1>5, <2>2, Zenon DEF RecvCommit, AddView
  <2>4. /\ ViewType' /\ \A d \in Components \ {c} : views'[d] = views[d]
        /\ \A v \in views'[c] : v \in views[c] \/ v = new
    BY <2>3, Zenon DEF ViewType
  <2>5. BufferOwned(c, new)
    BY <1>1, <2>1, <2>2, Zenon DEF BufferOwned, RunInv, RecvWork, Mine, Here
  <2>6. \A v \in views'[c] : BufferOwned(c, v)'
    BY <1>1, <1>4, <2>4, <2>5, ViewsOwned, Zenon
  <2> QED
    BY <1>1, <1>2, <1>3, <2>4, <2>6, QuietReturns, Zenon
<1>6. CASE RecvDrop(c)
  <2>1. views' = views /\ ViewType'
    BY <1>6, Zenon DEF RecvDrop, ViewType
  <2>2. \A v \in views[c] : BufferOwned(c, v)'
    BY <1>1, <1>4, ViewsOwned, Zenon
  <2> QED
    BY <1>1, <1>2, <1>3, <2>1, <2>2, QuietReturns, Zenon
<1> QED
  BY <1>5, <1>6, Zenon

LEMMA RecvRuns ==
  ASSUME TypeOK, NEW c \in Components, RunInv(c), life[c].state = "ACTIVE",
         \A s \in Slots : KeptInv(s), RecvStep(c)
  PROVE  Fine(c) /\ RunInv(c)'
<1> USE Types
<1>0. pc[c].op = "RECEIVE" => loc[c].slot \in Slots /\ Peeked(c)
  BY WorkFacts, Zenon DEF RunInv, RecvWork, Steps
<1>1. CASE RecvCheck(c)
  <2>1. pc[c].op = "RECEIVE" /\ pc[c].at = "check" /\ slot' = slot /\ life' = life
    BY <1>1, AtFacts, Zenon DEF RecvCheck
  <2>2. PICK label \in {"token", "drop"} :
          /\ Within(c, label)
          /\ loc'[c].peer = loc[c].peer /\ loc'[c].generation = loc[c].generation
          /\ loc'[c].sequence = loc[c].sequence
          /\ label = "token" => loc'[c].epoch = RegisteredEpoch(c)
    <3>1. CASE Here(c).state = "TRANSFER"
      <4>1. Moves(c, pc[c].op, "token") /\ RegisteredEpoch(c) \in Nat
        BY <1>1, <3>1, GotoMoves, Zenon DEF RecvCheck, Labels, RegisteredEpoch, LifeType
      <4>2. /\ LocType' /\ loc'[c].slot = loc[c].slot
            /\ \A d \in Components \ {c} : loc'[d] = loc[d]
            /\ loc'[c].peer = loc[c].peer /\ loc'[c].generation = loc[c].generation
            /\ loc'[c].sequence = loc[c].sequence
            /\ loc'[c].epoch = RegisteredEpoch(c)
        BY <1>1, <3>1, <4>1 DEF RecvCheck, LocType, Locals
      <4>3. Within(c, "token")
        BY <1>1, <4>1, <4>2, Zenon DEF Within, RecvCheck
      <4> QED
        BY <4>2, <4>3, Zenon
    <3>2. CASE Here(c).state # "TRANSFER"
      <4>1. Inner(c, "drop")
        BY <1>1, <3>2, GotoMoves, Zenon DEF RecvCheck, Inner, Labels
      <4> QED
        BY <4>1, InnerWithin, Zenon DEF Inner
    <3> QED
      BY <3>1, <3>2, Zenon
  <2>3. Goes(c, label)
    BY <2>1, <2>2, QuietGoes, Zenon DEF RunSteps, Steps, InClaim, ClaimSteps, HoldingSteps
  <2>4. Peeked(c)'
    BY <1>0, <2>1, <2>2, <2>3, PeekedKept, Zenon DEF Goes
  <2>5. RecvWork(c)'
    BY <2>1, <2>2, <2>3, <2>4, SameEpoch, Zenon DEF RecvWork, Goes
  <2> QED
    BY <2>1, <2>3, <2>5, RecvOf, Zenon
<1>2. CASE RecvToken(c)
  <2>1. /\ pc[c].op = "RECEIVE" /\ pc[c].at = "token" /\ life' = life
        /\ loc[c].epoch = RegisteredEpoch(c)
    BY <1>2, AtFacts DEF RecvToken, CasToken, RunInv, RecvWork
  <2>2. CASE Here(c).token = NoToken
    <3>1. Goes(c, "claim") /\ loc' = loc
      BY <1>2, <2>2, TokenTakenGoes, Zenon DEF RecvToken, CasToken, Kinds
    <3>2. Peeked(c)'
      BY <1>0, <2>1, <3>1, PeekedKept, Zenon DEF Goes
    <3>3. RecvWork(c)'
      BY <2>1, <3>1, <3>2, SameEpoch, Zenon DEF RecvWork, Goes
    <3> QED
      BY <2>1, <3>1, <3>3, RecvOf, Zenon
  <2>3. CASE Here(c).token # NoToken
    <3>1. PICK label \in {"steal", "drop"} :
            /\ Within(c, label)
            /\ loc'[c].peer = loc[c].peer /\ loc'[c].generation = loc[c].generation
            /\ loc'[c].sequence = loc[c].sequence /\ loc'[c].epoch = loc[c].epoch
            /\ label = "steal" => loc'[c].seen.kind = "SEND"
      <4>1. CASE Here(c).token.kind = "SEND"
        <5>1. PICK t \in Tokens : t = Here(c).token
          BY <1>0, <2>1, FieldTypes, Zenon DEF Here
        <5>2. Moves(c, pc[c].op, "steal") /\ loc' = [loc EXCEPT ![c].seen = t]
          BY <1>2, <2>3, <4>1, <5>1, GotoMoves, Zenon DEF RecvToken, CasToken, Labels
        <5>3. /\ LocType' /\ loc'[c].slot = loc[c].slot
              /\ \A d \in Components \ {c} : loc'[d] = loc[d]
              /\ loc'[c].peer = loc[c].peer /\ loc'[c].generation = loc[c].generation
              /\ loc'[c].sequence = loc[c].sequence /\ loc'[c].epoch = loc[c].epoch
              /\ loc'[c].seen = t
          BY <5>2 DEF LocType, Locals
        <5>4. Within(c, "steal")
          BY <1>2, <5>2, <5>3, Zenon DEF Within, RecvToken, CasToken
        <5> QED
          BY <4>1, <5>1, <5>3, <5>4, Zenon
      <4>2. CASE Here(c).token.kind # "SEND"
        <5>1. Inner(c, "drop")
          BY <1>2, <2>3, <4>2, GotoMoves, Zenon DEF RecvToken, CasToken, Inner, Labels
        <5> QED
          BY <5>1, InnerWithin, Zenon DEF Inner
      <4> QED
        BY <4>1, <4>2, Zenon
    <3>2. slot' = slot
      BY <1>2, <2>3, Zenon DEF RecvToken, CasToken
    <3>3. Goes(c, label)
      BY <2>1, <3>1, <3>2, QuietGoes, Zenon DEF RunSteps, Steps, InClaim, ClaimSteps, HoldingSteps
    <3>4. Peeked(c)'
      BY <1>0, <2>1, <3>1, <3>3, PeekedKept, Zenon DEF Goes
    <3>5. RecvWork(c)'
      BY <2>1, <3>1, <3>3, <3>4, SameEpoch, Zenon DEF RecvWork, Goes
    <3> QED
      BY <2>1, <3>3, <3>5, RecvOf, Zenon
  <2> QED
    BY <2>2, <2>3, Zenon
<1>3. ASSUME pc[c].op = "RECEIVE", pc[c].at # "check", pc[c].at # "drop",
             loc' = loc, ring' = ring, life' = life
      PROVE  Peeked(c)' /\ loc'[c].epoch = RegisteredEpoch(c)'
  BY <1>0, <1>3, PeekedKept, SameEpoch, Zenon DEF RunInv, RecvWork
<1>4. CASE RecvSteal(c)
  <2>1. /\ pc[c].op = "RECEIVE" /\ pc[c].at = "steal"
        /\ loc' = loc /\ ring' = ring /\ life' = life /\ slot' = slot
    BY <1>4, AtFacts, Zenon DEF RecvSteal
  <2>2. PICK label \in {"swap", "drop"} : Within(c, label)
    BY <1>4, GotoMoves, InnerWithin, Zenon DEF RecvSteal, Inner, Labels
  <2>3. Goes(c, label)
    BY <2>1, <2>2, QuietGoes, Zenon DEF RunSteps, Steps, InClaim, ClaimSteps, HoldingSteps
  <2>4. RecvWork(c)'
    BY <1>3, <2>1, <2>3, Zenon DEF RecvWork, Goes, RunInv
  <2> QED
    BY <2>1, <2>3, <2>4, RecvOf, Zenon
<1>5. CASE RecvSwap(c)
  <2>1. /\ pc[c].op = "RECEIVE" /\ pc[c].at = "swap" /\ loc[c].slot \in Slots
        /\ loc' = loc /\ ring' = ring /\ life' = life
        /\ loc[c].seen.kind = "SEND"
    BY <1>0, <1>5, AtFacts, Zenon DEF RecvSwap, RunInv, RecvWork
  <2>2. CASE Here(c).token = loc[c].seen
    <3>1. Inner(c, "claim")
      BY <1>5, <2>2, GotoMoves, Zenon DEF RecvSwap, Inner, Labels
    <3>2. SetsToken(loc[c].slot, Token("RECEIVE", c, loc[c].epoch))
      <4>1. Token("RECEIVE", c, loc[c].epoch) \in Tokens
        BY TokenTypes, LocalTypes, Zenon DEF Kinds
      <4> QED
        BY <1>5, <2>1, <2>2, <4>1, TokenUpdate, Zenon DEF RecvSwap
    <3>3. Goes(c, "claim")
      BY <2>1, <2>2, <3>1, <3>2, TokenGoes, Zenon DEF RunSteps, Steps, InClaim, ClaimSteps
    <3>4. RecvWork(c)'
      BY <1>3, <2>1, <3>3, Zenon DEF RecvWork, Goes
    <3> QED
      BY <2>1, <3>3, <3>4, RecvOf, Zenon
  <2>3. CASE Here(c).token # loc[c].seen
    <3>1. Within(c, "drop") /\ slot' = slot
      BY <1>5, <2>3, GotoMoves, InnerWithin, Zenon DEF RecvSwap, Inner, Labels
    <3>2. Goes(c, "drop")
      BY <2>1, <3>1, QuietGoes, Zenon DEF RunSteps, Steps, InClaim, ClaimSteps, HoldingSteps
    <3>3. RecvWork(c)'
      BY <1>3, <2>1, <3>2, Zenon DEF RecvWork, Goes
    <3> QED
      BY <2>1, <3>2, <3>3, RecvOf, Zenon
  <2> QED
    BY <2>2, <2>3, Zenon
<1>6. CASE RecvClaim(c)
  <2>1. /\ pc[c].op = "RECEIVE" /\ pc[c].at = "claim" /\ loc' = loc
        /\ \/ /\ Goes(c, "fill") /\ Here(c).state = "TRANSFER"
              /\ SetsState(loc[c].slot, "CLAIMING")
           \/ Goes(c, "undo") /\ slot' = slot
    BY <1>6, ClaimGoes, Zenon DEF RecvClaim, Kinds
  <2>2. Peeked(c)' /\ loc'[c].epoch = RegisteredEpoch(c)'
    BY <1>3, <2>1, Zenon DEF Goes
  <2>3. CASE /\ Goes(c, "fill") /\ Here(c).state = "TRANSFER"
             /\ SetsState(loc[c].slot, "CLAIMING")
    <3>1. Belongs(loc[c].slot) /\ Behind(loc[c].slot)
      BY <2>3, Zenon DEF Goes, KeptInv, Here
    <3>2. Belongs(loc[c].slot)' /\ Behind(loc[c].slot)'
      BY <2>1, <2>3, <3>1, BehindAlone, Zenon DEF Goes, Belongs, SetsState, SameFields
    <3>3. RecvWork(c)'
      BY <2>2, <2>3, <3>2, Zenon DEF RecvWork, Goes
    <3> QED
      BY <2>1, <2>3, <3>3, RecvOf, Zenon
  <2>4. CASE Goes(c, "undo") /\ slot' = slot
    <3>1. RecvWork(c)'
      BY <2>2, <2>4, Zenon DEF RecvWork, Goes
    <3> QED
      BY <2>1, <2>4, <3>1, RecvOf, Zenon
  <2> QED
    BY <2>1, <2>3, <2>4, Zenon
<1>7. CASE RecvUndo(c)
  <2>1. Goes(c, "drop") /\ loc' = loc /\ pc[c].op = "RECEIVE" /\ pc[c].at = "undo"
    BY <1>7, ClearGoes, Zenon DEF RecvUndo, Kinds, RunSteps, Steps
  <2>2. RecvWork(c)'
    BY <1>3, <2>1, Zenon DEF RecvWork, Goes
  <2> QED
    BY <2>1, <2>2, RecvOf, Zenon
<1>8. CASE RecvFill(c)
  BY <1>8, RecvWrites, Zenon
<1>9. CASE RecvFree(c)
  <2>1. pc[c].op = "RECEIVE" /\ pc[c].at = "free" /\ Here(c).owner = NoComponent
    BY <1>9, AtFacts, Zenon DEF RecvFree, Publish, RunInv, RecvWork
  <2>2. Goes(c, "undo") /\ loc' = loc
    BY <1>9, <2>1, PublishGoes, Zenon DEF RecvFree, Kinds, RunSteps, Steps, ClaimSteps
  <2>3. RecvWork(c)'
    BY <1>3, <2>1, <2>2, Zenon DEF RecvWork, Goes
  <2> QED
    BY <2>1, <2>2, <2>3, RecvOf, Zenon
<1>10. CASE RecvPublish(c)
  <2>1. pc[c].op = "RECEIVE" /\ pc[c].at = "publish"
    BY <1>10, AtFacts, Zenon DEF RecvPublish, Publish
  <2>2. Mine(c) /\ Behind(loc[c].slot) /\ Here(c).owner = c
    BY <2>1, Zenon DEF RunInv, RecvWork, Mine
  <2>3. Belongs(loc[c].slot)
    BY <2>2, MineBelongs, Zenon
  <2>4. Goes(c, "clear") /\ loc' = loc /\ SetsState(loc[c].slot, "OWNED")
    BY <1>10, <2>2, <2>3, PublishGoes DEF RecvPublish, Kinds, RunSteps, Steps, ClaimSteps
  <2>5. Mine(c)' /\ Here(c)'.state = "OWNED"
    BY <2>2, <2>4, MineKept, Zenon DEF SetsState, Here, Goes
  <2>6. RecvWork(c)'
    BY <1>3, <2>1, <2>4, <2>5, Zenon DEF RecvWork, Goes
  <2> QED
    BY <2>1, <2>4, <2>6, RecvOf, Zenon
<1>11. CASE RecvClear(c)
  <2>1. /\ Goes(c, "commit") /\ Still(loc[c].slot) /\ loc' = loc
        /\ pc[c].op = "RECEIVE" /\ pc[c].at = "clear"
    BY <1>11, ClearGoes, Zenon DEF RecvClear, Kinds, RunSteps, Steps
  <2>2. Mine(c)' /\ Here(c)'.state = "OWNED"
    BY <2>1, MineStill, Zenon DEF RunInv, RecvWork, Goes
  <2>3. RecvWork(c)'
    BY <1>3, <2>1, <2>2, Zenon DEF RecvWork, Goes
  <2> QED
    BY <2>1, <2>3, RecvOf, Zenon
<1> QED
  BY <1>1, <1>2, <1>4, <1>5, <1>6, <1>7, <1>8, <1>9, <1>10, <1>11, RecvReturns, Zenon DEF RecvStep

(***************************************************************************)
(* zipc_buffer_release.                                                    *)
(***************************************************************************)
LEMMA ReleaseOf ==
  ASSUME NEW c \in Components, NEW label, Goes(c, label), pc[c].op = "RELEASE",
         ReleaseWork(c)'
  PROVE  Fine(c) /\ RunInv(c)'
BY RunInvOf, Zenon DEF Goes

LEMMA ReleaseStarts ==
  ASSUME TypeOK, NEW c \in Components, RunInv(c), ReleaseCall(c)
  PROVE  Fine(c) /\ RunInv(c)'
<1> USE Types
<1>1. PICK v \in views[c] :
        /\ BufferOwned(c, v)
        /\ slot' = [slot EXCEPT ![v.slot] =
                      [@ EXCEPT !.prevRegion = slot[v.slot].region,
                                !.prevOwner = slot[v.slot].owner,
                                !.prevEpoch = slot[v.slot].epoch]]
        /\ loc' = [loc EXCEPT ![c] =
                     [NoCall EXCEPT !.slot = v.slot, !.generation = v.generation,
                                    !.epoch = v.epoch]]
  BY Zenon DEF ReleaseCall
<1>2. Moves(c, "RELEASE", "token") /\ Idle(c)
  BY EnterMoves, Zenon DEF ReleaseCall, Kinds, Labels
<1>3. v.slot \in Slots /\ v.generation \in Nat /\ v.epoch \in Nat
  BY DEF ViewType, View
<1>4. /\ LocType'
      /\ \A d \in Components \ {c} : loc'[d] = loc[d]
      /\ loc'[c].slot = v.slot
      /\ loc'[c].generation = v.generation
      /\ loc'[c].epoch = v.epoch
  <2> DEFINE r == [NoCall EXCEPT !.slot = v.slot, !.generation = v.generation,
                                 !.epoch = v.epoch]
  <2>1. /\ r \in Locals /\ r.slot = v.slot /\ r.generation = v.generation
        /\ r.epoch = v.epoch
    BY <1>3, TokenTypes, Zenon DEF NoCall, Locals, States
  <2>2. loc' = [loc EXCEPT ![c] = r]
    BY <1>1, Zenon
  <2> HIDE DEF r
  <2> QED
    BY <2>1, <2>2, LocalsUpdate, Zenon
<1>5. Journals(v.slot)
  <2> DEFINE r == [slot[v.slot] EXCEPT !.prevRegion = slot[v.slot].region,
                                       !.prevOwner = slot[v.slot].owner,
                                       !.prevEpoch = slot[v.slot].epoch]
  <2>1. PICK w \in SlotControl : w = slot[v.slot]
    BY <1>3, Zenon DEF SlotType
  <2>2. /\ r \in SlotControl
        /\ r.token = slot[v.slot].token /\ r.state = slot[v.slot].state
        /\ r.generation = slot[v.slot].generation
        /\ r.owner = slot[v.slot].owner /\ r.next = slot[v.slot].next
        /\ r.epoch = slot[v.slot].epoch /\ r.sequence = slot[v.slot].sequence
    BY <2>1, Zenon DEF SlotControl
  <2>3. slot' = [slot EXCEPT ![v.slot] = r]
    BY <1>1, Zenon
  <2> HIDE DEF r
  <2>4. OnlySlot(v.slot) /\ slot'[v.slot] = r
    BY <1>3, <2>2, <2>3, RecordUpdate, Zenon
  <2> QED
    BY <2>2, <2>4, Zenon DEF Journals, SameFields
<1>6. ring' = ring /\ life' = life /\ views' = views
  BY Zenon DEF ReleaseCall
<1>7. /\ Fine(c) /\ WorkInv(c)' /\ ViewWork(c)'
      /\ pc'[c].op = "RELEASE" /\ pc'[c].at = "token"
      /\ Mine(c)' /\ Here(c)'.state = "OWNED"
  BY <1>1, <1>2, <1>4, <1>5, <1>6, OwnerStarts, Zenon
<1>8. ReleaseWork(c)'
  BY <1>7, Zenon DEF ReleaseWork
<1> QED
  BY <1>7, <1>8, RunInvOf, Zenon

LEMMA ReleaseWrites ==
  ASSUME TypeOK, NEW c \in Components, RunInv(c), life[c].state = "ACTIVE", ReleaseFill(c)
  PROVE  Fine(c) /\ RunInv(c)'
<1> USE Types
<1>1. pc[c].op = "RELEASE" /\ pc[c].at = "fill"
  BY AtFacts, Zenon DEF ReleaseFill
<1>2. /\ loc[c].slot \in Slots /\ InClaim(c) /\ Here(c).state = "CLAIMING"
      /\ Mine(c) /\ Here(c).owner = c /\ Behind(loc[c].slot)
  BY <1>1, WorkFacts, Zenon DEF InClaim, RunInv, ReleaseWork, Mine
<1>3. loc' = loc /\ ring' = ring /\ life' = life /\ views' = views
  BY Zenon DEF ReleaseFill
<1> DEFINE new == [Here(c) EXCEPT !.owner = NoComponent, !.next = NoComponent,
                                  !.region = "EMPTY"]
<1>4. CASE /\ slot' = [slot EXCEPT ![loc[c].slot] =
                         [@ EXCEPT !.owner = NoComponent, !.next = NoComponent,
                                   !.region = "EMPTY"]]
           /\ Goto(c, "publish")
  <2>1. /\ new \in SlotControl
        /\ new.token = Here(c).token /\ new.state = "CLAIMING"
        /\ new.generation = Here(c).generation /\ new.owner = NoComponent
    <3>1. Here(c) \in SlotControl
      BY <1>2, Zenon DEF Here, SlotType
    <3> QED
      BY <1>2, <3>1, Zenon DEF SlotControl
  <2>2. OnlySlot(loc[c].slot) /\ slot'[loc[c].slot] = new
    <3>1. slot' = [slot EXCEPT ![loc[c].slot] = new]
      BY <1>2, <1>4, Zenon DEF SlotType, Here
    <3> HIDE DEF new
    <3> QED
      BY <1>2, <2>1, <3>1, RecordUpdate, Zenon
  <2> HIDE DEF new
  <2>3. Within(c, "publish") /\ InClaim(c)'
    <3>1. Inner(c, "publish")
      BY <1>3, <1>4, GotoMoves, Zenon DEF Inner, Labels
    <3> QED
      BY <3>1, InnerWithin, Zenon DEF Inner, InClaim, Moves
  <2>4. EndsWell(loc[c].slot)
    <3>1. slot[loc[c].slot].generation \in Nat
      BY <1>2, FieldTypes, Zenon
    <3>2. /\ slot'[loc[c].slot].generation = slot[loc[c].slot].generation
          /\ slot'[loc[c].slot].state = "CLAIMING"
      BY <2>1, <2>2, Zenon DEF Here
    <3>3. slot'[loc[c].slot].generation >= slot[loc[c].slot].generation
      BY <3>1, <3>2
    <3> QED
      BY <1>3, <3>2, <3>3, Zenon DEF EndsWell
  <2>5. Works(c, loc[c].slot)
    BY <1>2, <1>3, <2>3, <2>4, Zenon DEF Works, Here
  <2>6. Goes(c, "publish")
    BY <1>1, <1>2, <1>3, <2>1, <2>2, <2>3, <2>5, WorkGoes, Zenon DEF RunSteps, Steps
  <2>7. Here(c)'.owner = NoComponent
    BY <1>3, <2>1, <2>2, Zenon DEF Here
  <2>8. ReleaseWork(c)'
    BY <2>6, <2>7, Zenon DEF ReleaseWork, Goes
  <2> QED
    BY <1>1, <2>6, <2>8, ReleaseOf, Zenon
<1>5. CASE /\ slot' = [slot EXCEPT ![loc[c].slot].state = "OWNED"]
           /\ Goto(c, "undo")
  <2>1. Publish(c, "RELEASE", "fill", "OWNED", "undo")
    BY <1>5, Zenon DEF ReleaseFill, Publish
  <2>2. Belongs(loc[c].slot)
    BY <1>2, MineBelongs, Zenon
  <2>3. Goes(c, "undo") /\ SetsState(loc[c].slot, "OWNED")
    BY <1>2, <2>1, <2>2, PublishGoes, Zenon DEF Kinds, RunSteps, Steps, ClaimSteps
  <2>4. Mine(c)' /\ Here(c)'.state = "OWNED"
    BY <1>2, <1>3, <2>3, MineKept, Zenon DEF SetsState, Here
  <2>5. ReleaseWork(c)'
    BY <2>3, <2>4, Zenon DEF ReleaseWork, Goes
  <2> QED
    BY <1>1, <2>3, <2>5, ReleaseOf, Zenon
<1> QED
  BY <1>4, <1>5, Zenon DEF ReleaseFill

LEMMA ReleaseRuns ==
  ASSUME TypeOK, NEW c \in Components, RunInv(c), life[c].state = "ACTIVE",
         \A s \in Slots : KeptInv(s), ReleaseStep(c)
  PROVE  Fine(c) /\ RunInv(c)'
<1> USE Types
<1>1. CASE ReleaseToken(c)
  <2>1. /\ pc[c].op = "RELEASE" /\ pc[c].at = "token"
        /\ life' = life /\ ring' = ring /\ views' = views
    BY <1>1, AtFacts, Zenon DEF ReleaseToken, CasToken
  <2>2. Mine(c) /\ Here(c).state = "OWNED"
    BY <2>1, Zenon DEF RunInv, ReleaseWork
  <2>3. CASE Here(c).token = NoToken
    <3>1. Goes(c, "claim") /\ loc' = loc /\ Still(loc[c].slot)
      BY <1>1, <2>3, TokenTakenGoes, Zenon DEF ReleaseToken, CasToken, Kinds
    <3>2. ReleaseWork(c)'
      BY <2>1, <2>2, <3>1, MineStill, Zenon DEF ReleaseWork, Goes
    <3> QED
      BY <2>1, <3>1, <3>2, ReleaseOf, Zenon
  <2>4. CASE Here(c).token # NoToken
    <3>1. Return(c) /\ slot' = slot
      BY <1>1, <2>4, Zenon DEF ReleaseToken, CasToken
    <3>2. \A v \in views[c] : v.slot # loc[c].slot \/ BufferOwned(c, v)'
      BY <2>1, <2>2, <3>1, OwnerViews, Zenon DEF Still, SameFields
    <3> QED
      BY <2>1, <3>1, <3>2, QuietReturns, RingsAlone, Zenon DEF InClaim, ViewType, RingType
  <2> QED
    BY <2>3, <2>4, Zenon
<1>2. CASE ReleaseClaim(c)
  <2>1. pc[c].op = "RELEASE" /\ pc[c].at = "claim"
    BY <1>2, AtFacts, Zenon DEF ReleaseClaim, CasState
  <2>2. /\ Mine(c) /\ Here(c).state = "OWNED" /\ Here(c).owner = c
        /\ loc[c].slot \in Slots
    BY <2>1, WorkFacts, Zenon DEF RunInv, ReleaseWork, Mine
  <2>3. /\ loc' = loc
        /\ \/ Goes(c, "fill") /\ SetsState(loc[c].slot, "CLAIMING")
           \/ Goes(c, "undo") /\ slot' = slot
    BY <1>2, <2>2, ClaimGoes, Zenon DEF ReleaseClaim, Kinds
  <2>4. CASE Goes(c, "fill") /\ SetsState(loc[c].slot, "CLAIMING")
    <3>1. Behind(loc[c].slot)'
      BY <2>2, <2>4, BehindAlone, Zenon DEF KeptInv, Here, SetsState, SameFields, Goes
    <3>2. Mine(c)'
      BY <2>2, <2>3, <2>4, MineKept, Zenon DEF SetsState, Goes
    <3>3. ReleaseWork(c)'
      BY <2>3, <2>4, <3>1, <3>2, Zenon DEF ReleaseWork, Goes
    <3> QED
      BY <2>1, <2>4, <3>3, ReleaseOf, Zenon
  <2>5. CASE Goes(c, "undo") /\ slot' = slot
    <3>1. ReleaseWork(c)'
      BY <2>2, <2>3, <2>5, MineStill, Zenon DEF ReleaseWork, Goes, Still, SameFields
    <3> QED
      BY <2>1, <2>5, <3>1, ReleaseOf, Zenon
  <2> QED
    BY <2>3, <2>4, <2>5, Zenon
<1>3. CASE ReleaseUndo(c)
  <2>1. pc[c].op = "RELEASE" /\ pc[c].at = "undo" /\ life' = life /\ views' = views
    BY <1>3, AtFacts, Zenon DEF ReleaseUndo, ClearAndReturn
  <2>2. Mine(c) /\ Here(c).state = "OWNED"
    BY <2>1, Zenon DEF RunInv, ReleaseWork
  <2>3. ASSUME Still(loc[c].slot), NEW v \in views[c]
        PROVE  v.slot # loc[c].slot \/ BufferOwned(c, v)'
    BY <2>1, <2>2, <2>3, OwnerViews, Zenon
  <2> QED
    BY <1>3, <2>1, <2>3, ClearReturns, Zenon DEF ReleaseUndo, Kinds, ViewType
<1>4. CASE ReleaseFill(c)
  BY <1>4, ReleaseWrites, Zenon
<1>5. CASE ReleasePublish(c)
  <2>1. pc[c].op = "RELEASE" /\ pc[c].at = "publish" /\ Here(c).owner = NoComponent
    BY <1>5, AtFacts, Zenon DEF ReleasePublish, Publish, RunInv, ReleaseWork
  <2>2. Goes(c, "clear")
    BY <1>5, <2>1, PublishGoes, Zenon DEF ReleasePublish, Kinds, RunSteps, Steps, ClaimSteps
  <2>3. ReleaseWork(c)'
    BY <2>2, Zenon DEF ReleaseWork, Goes
  <2> QED
    BY <2>1, <2>2, <2>3, ReleaseOf, Zenon
<1>6. CASE ReleaseClear(c)
  <2>1. /\ ViewType'
        /\ \A d \in Components \ {c} : views'[d] = views[d]
        /\ \A v \in views'[c] : v \in views[c] /\ v.slot # loc[c].slot
    BY <1>6, Zenon DEF ReleaseClear, DropView, ViewType
  <2> QED
    BY <1>6, <2>1, ClearReturns, Zenon DEF ReleaseClear, Kinds
<1> QED
  BY <1>1, <1>2, <1>3, <1>4, <1>5, <1>6, Zenon DEF ReleaseStep

\* Every step of a runtime that has not been terminated.
LEMMA RunKeeps ==
  ASSUME AdminInductive, NEW c \in Components, Run(c)
  PROVE  AdminInductive'
<1>1. /\ TypeOK /\ RunInv(c) /\ (\A s \in Slots : KeptInv(s))
      /\ c \notin down /\ ~quiet /\ life[c].state = "ACTIVE"
      /\ UNCHANGED <<down, quiet, swept>> /\ (Call(c) \/ Step(c))
  BY Zenon DEF AdminInductive, Quiesced, Run
<1>2. Fine(c) /\ RunInv(c)'
  BY <1>1, AllocStarts, SendStarts, RecvStarts, ReleaseStarts,
     AllocRuns, SendRuns, RollbackRuns, RecvRuns, ReleaseRuns, Zenon DEF Call, Step
<1> QED
  BY <1>1, <1>2, FineKeeps, Zenon

(***************************************************************************)
(* The steps of a termination and of the recovery.                         *)
(***************************************************************************)
\* What is relied on of a runtime reads its own locals and shared memory only.
LEMMA SameRun ==
  ASSUME NEW c \in Components, RunInv(c),
         slot' = slot, ring' = ring, life' = life,
         pc'[c] = pc[c], loc'[c] = loc[c], views'[c] = views[c]
  PROVE  RunInv(c)'
<1>1. (Here(c)' = Here(c)) /\ (Descriptors' = Descriptors)
  BY DEF Here, Descriptors
<1>3. /\ Behind(loc[c].slot)' <=> Behind(loc[c].slot)
      /\ Fresh(loc[c].slot)' <=> Fresh(loc[c].slot)
      /\ Belongs(loc[c].slot)' <=> Belongs(loc[c].slot)
  BY <1>1, Zenon DEF Behind, Fresh, Belongs
<1>4. Mine(c)' <=> Mine(c)
  BY <1>1, Zenon DEF Mine, RegisteredEpoch
<1>5. Unpublished(c)' <=> Unpublished(c)
  BY <1>1, <1>3, <1>4, Zenon DEF Unpublished, Transferring
<1>6. Peeked(c)' <=> Peeked(c)
  BY Zenon DEF Peeked
<1>7. WorkInv(c)'
  BY <1>1, Zenon DEF RunInv, WorkInv, InClaim
<1>8. AllocWork(c)' /\ SendWork(c)' /\ RollbackWork(c)'
  BY <1>1, <1>3, <1>4, <1>5, Zenon
     DEF RunInv, AllocWork, SendWork, RollbackWork, HoldsToken, RegisteredEpoch
<1>9. RecvWork(c)' /\ ReleaseWork(c)'
  BY <1>1, <1>3, <1>4, <1>6, Zenon DEF RunInv, RecvWork, ReleaseWork, RegisteredEpoch
<1>10. ViewWork(c)'
  BY DEF RunInv, ViewWork, BufferOwned, RegisteredEpoch
<1> QED
  BY <1>7, <1>8, <1>9, <1>10, Zenon DEF RunInv

LEMMA SameKept ==
  ASSUME NEW s \in Slots, KeptInv(s),
         UNCHANGED <<slot, ring, life, pc, loc, down, swept>>
  PROVE  KeptInv(s)'
<1>1. Descriptors' = Descriptors
  BY SameRings, Zenon
<1>2. /\ slot' = slot /\ life' = life /\ pc' = pc /\ loc' = loc
      /\ down' = down /\ swept' = swept
  BY Zenon
<1>3. Older(s)' <=> Older(s)
  BY <1>1, <1>2, Zenon DEF Older
<1>4. Behind(s)' <=> Behind(s)
  BY <1>1, <1>2, Zenon DEF Behind
<1>5. Belongs(s)' <=> Belongs(s)
  BY <1>2, Zenon DEF Belongs
<1>6. Abandoned(s)' <=> Abandoned(s)
  BY <1>2, Zenon DEF Abandoned, HoldsToken
<1>7. Attended(s)' <=> Attended(s)
  BY <1>2, <1>6, Zenon DEF Attended, InClaim
<1> QED
  BY <1>2, <1>3, <1>4, <1>5, <1>7, Zenon DEF KeptInv

\* A runtime outside every call only has views.
LEMMA IdleRun ==
  ASSUME NEW c \in Components, Idle(c)', loc'[c].slot = NoSlot,
         \A v \in views'[c] : BufferOwned(c, v)'
  PROVE  RunInv(c)'
<1>1. pc'[c].op = "NONE" /\ pc'[c].at = "idle"
  BY DEF Idle, At
<1>2. WorkInv(c)' /\ ViewWork(c)'
  BY <1>1, Zenon DEF WorkInv, ViewWork, Steps, InClaim
<1> QED
  BY <1>1, <1>2, RunInvOf, Zenon

\* Crash: the slots the runtime worked on stay as they are for the sweeps.
LEMMA CrashKeeps ==
  ASSUME AdminInductive, NEW c \in Components, Crash(c)
  PROVE  AdminInductive'
<1> USE Types
<1>1. /\ TypeOK /\ (\A d \in Components : RunInv(d)) /\ SoleClaimant
      /\ (\A s \in Slots : KeptInv(s)) /\ Quiesced
  BY Zenon DEF AdminInductive
<1>2. /\ PcType' /\ LocType'
      /\ pc'[c] = [op |-> "NONE", at |-> "idle"] /\ loc'[c] = NoCall
      /\ \A d \in Components \ {c} : pc'[d] = pc[d] /\ loc'[d] = loc[d]
  BY <1>1, InitialTypes, Zenon DEF Crash, Return, Enter, PcType, LocType, PCs, Kinds
<1>3. /\ ViewType' /\ views'[c] = {}
      /\ \A d \in Components \ {c} : views'[d] = views[d]
  BY <1>1, Zenon DEF Crash, ViewType
<1>4. /\ slot' = slot /\ ring' = ring /\ life' = life
      /\ quiet' = quiet /\ swept' = swept /\ down' = down \cup {c}
      /\ ~quiet /\ swept = {}
  BY <1>1, Zenon DEF Crash, Quiesced
<1>5. TypeOK'
  BY <1>1, <1>2, <1>3, <1>4, Zenon DEF TypeOK, SlotType, RingType, LifeType, ViewType, PcType, LocType
<1>6. RunInv(c)'
  <2>1. Idle(c)' /\ loc'[c].slot = NoSlot
    BY <1>2 DEF Idle, At, NoCall
  <2> QED
    BY <1>3, <2>1, IdleRun, Zenon
<1>7. \A d \in Components \ {c} : RunInv(d)'
  BY <1>1, <1>2, <1>3, <1>4, SameRun, Zenon
<1>8. SoleClaimant'
  BY <1>1, <1>2, <1>4 DEF SoleClaimant, InClaim, Here
<1>9. ASSUME NEW s \in Slots PROVE KeptInv(s)'
  <2>1. Attended(s)'
    BY <1>4, Zenon DEF Attended
  <2> QED
    BY <1>1, <1>4, <2>1 DEF KeptInv, Older, Behind, Belongs, Descriptors
<1>10. Quiesced'
  BY <1>1, <1>2, <1>3, <1>4, Zenon DEF Quiesced, Idle, At
<1> QED
  BY <1>5, <1>6, <1>7, <1>8, <1>9, <1>10, Zenon DEF AdminInductive

LEMMA QuiesceKeeps ==
  ASSUME AdminInductive, Quiesce
  PROVE  AdminInductive'
<1> USE Types
<1>1. /\ UNCHANGED <<slot, ring, life, views, pc, loc, down, swept>>
      /\ quiet' = TRUE /\ swept = {} /\ \A c \in Components : Idle(c)
  BY Zenon DEF Quiesce, vars, AdminInductive, Quiesced
<1>2. TypeOK'
  BY <1>1, Zenon DEF AdminInductive, TypeOK
<1>3. \A c \in Components : RunInv(c)'
  BY <1>1, SameRun, Zenon DEF AdminInductive
<1>4. SoleClaimant'
  BY <1>1, Zenon DEF AdminInductive, SoleClaimant, InClaim, Here
<1>5. \A s \in Slots : KeptInv(s)'
  BY <1>1, SameKept, Zenon DEF AdminInductive
<1>6. Quiesced'
  BY <1>1, Zenon DEF AdminInductive, Quiesced, Idle, At
<1> QED
  BY <1>2, <1>3, <1>4, <1>5, <1>6, Zenon DEF AdminInductive

\* In a quiescence no runtime is inside a call or a claim.
LEMMA NobodyRuns ==
  ASSUME AdminInductive, quiet, NEW c \in Components
  PROVE  /\ Idle(c) /\ pc[c].op = "NONE" /\ pc[c].at = "idle" /\ ~InClaim(c)
         /\ loc[c].slot = NoSlot
         /\ \A v \in views[c] : c \notin down /\ BufferOwned(c, v)
<1>1. Idle(c) /\ RunInv(c)
  BY Zenon DEF AdminInductive, Quiesced
<1>2. pc[c].op = "NONE" /\ pc[c].at = "idle"
  BY <1>1 DEF Idle, At
<1> QED
  BY <1>1, <1>2, Zenon DEF InClaim, RunInv, WorkInv, ViewWork, AdminInductive, Quiesced

\* zipc_component_unregister leaves the epoch word of the record alone.
LEMMA UnregisterKeeps ==
  ASSUME AdminInductive, NEW c \in Components, Unregister(c)
  PROVE  AdminInductive'
<1> USE Types
<1>1. /\ UNCHANGED <<slot, ring, views, pc, loc, down, quiet, swept>>
      /\ quiet /\ c \in down
  BY Zenon DEF Unregister
<1>2. /\ LifeType'
      /\ \A d \in Components : life'[d].epoch = life[d].epoch
      /\ \A d \in Components \ {c} : life'[d] = life[d]
  BY Zenon DEF Unregister, AdminInductive, LifeType
<1>3. TypeOK'
  BY <1>1, <1>2, Zenon DEF AdminInductive, TypeOK, LifeType
<1>4. ASSUME NEW d \in Components PROVE RunInv(d)' /\ ~InClaim(d)'
  <2>1. /\ Idle(d)' /\ loc'[d].slot = NoSlot /\ ~InClaim(d)'
        /\ \A v \in views'[d] : d # c /\ BufferOwned(d, v)
    BY <1>1, NobodyRuns, Zenon DEF Idle, At, InClaim
  <2>2. \A v \in views'[d] : BufferOwned(d, v)'
    BY <1>1, <1>2, <2>1, Zenon DEF BufferOwned, RegisteredEpoch
  <2> QED
    BY <2>1, <2>2, IdleRun, Zenon
<1>5. SoleClaimant'
  BY <1>4, Zenon DEF SoleClaimant
<1>6. ASSUME NEW s \in Slots PROVE KeptInv(s)'
  <2>1. Belongs(s) => Belongs(s)'
    BY <1>1, <1>2, Zenon DEF Belongs
  <2>2. Abandoned(s) => Abandoned(s)'
    BY <1>1, <1>2, Zenon DEF Abandoned, HoldsToken
  <2>3. Attended(s) => Attended(s)'
    BY <1>1, <2>2, Zenon DEF Attended, InClaim
  <2> QED
    BY <1>1, <2>1, <2>3 DEF AdminInductive, KeptInv, Older, Behind, Descriptors
<1>7. Quiesced'
  BY <1>1, <1>2, Zenon DEF AdminInductive, Quiesced, Idle, At
<1> QED
  BY <1>3, <1>4, <1>5, <1>6, <1>7, Zenon DEF AdminInductive

\* Nothing is left that the sweep called n looks for.
Clean(n) ==
  \A s \in Slots :
    IF n = NoComponent THEN slot[s].state # "CLAIMING"
    ELSE slot[s].state \in {"OWNED", "TRANSFER"} => slot[s].owner # n

\* A sweep gives the slots gone, of terminated components or of claims nobody
\* works in, back to the pool and leaves all others alone.
LEMMA SweepKeeps ==
  ASSUME AdminInductive, quiet, SlotType', NEW n \in Components \cup {NoComponent},
         NEW gone \in SUBSET Slots,
         \A s \in Slots \ gone : slot'[s] = slot[s],
         \A s \in gone :
           /\ slot[s].state = "CLAIMING" \/ slot[s].owner \in down
           /\ slot'[s].state = "FREE" /\ slot'[s].owner = NoComponent
           /\ slot'[s].generation = slot[s].generation,
         swept' = swept \/ (swept' = swept \cup {n} /\ Clean(n)'),
         UNCHANGED <<ring, life, views, pc, loc, down, quiet>>
  PROVE  AdminInductive'
<1> USE Types
<1>1. TypeOK'
  BY Zenon DEF AdminInductive, TypeOK, SlotType
<1>2. \A s \in Slots : slot'[s] = slot[s] \/ s \in gone
  BY Zenon
<1>3. ASSUME NEW d \in Components PROVE RunInv(d)' /\ ~InClaim(d)'
  <2>1. /\ Idle(d)' /\ loc'[d].slot = NoSlot /\ ~InClaim(d)'
        /\ \A v \in views'[d] : d \notin down /\ BufferOwned(d, v)
    BY NobodyRuns, Zenon DEF Idle, At, InClaim
  <2>2. ASSUME NEW v \in views'[d] PROVE BufferOwned(d, v)'
    <3>1. v.slot \in Slots
      BY DEF AdminInductive, ViewType, View
    <3>2. v.slot \notin gone
      BY <2>1, <3>1, Zenon DEF BufferOwned
    <3> QED
      BY <2>1, <3>1, <3>2 DEF BufferOwned, RegisteredEpoch
  <2> QED
    BY <2>1, <2>2, IdleRun, Zenon
<1>4. SoleClaimant'
  BY <1>3, Zenon DEF SoleClaimant
<1>5. Clean(n) \/ n \notin swept
  BY Zenon DEF AdminInductive, Quiesced, Clean
<1>6. ASSUME NEW m \in Components \cup {NoComponent}, m \in swept' PROVE Clean(m)'
  <2>1. CASE m \in swept
    <3>1. Clean(m)
      BY <2>1, ProtocolAssumption, Zenon DEF AdminInductive, Quiesced, Clean
    <3> QED
      BY <1>2, <3>1, Zenon DEF Clean
  <2>2. CASE m \notin swept
    BY <1>6, <2>2, Zenon
  <2> QED
    BY <2>1, <2>2, Zenon
<1>7. ASSUME NEW s \in Slots PROVE KeptInv(s)'
  <2>1. CASE s \in gone
    <3>1. Older(s)'
      BY <2>1 DEF AdminInductive, KeptInv, Older, Descriptors
    <3> QED
      BY <2>1, <3>1, Zenon DEF KeptInv
  <2>2. CASE slot'[s] = slot[s]
    <3>1. /\ Older(s) => Older(s)'
          /\ Behind(s) => Behind(s)'
          /\ Belongs(s) => Belongs(s)'
      BY <2>2 DEF Older, Behind, Belongs, Descriptors
    <3>2. Abandoned(s) => Abandoned(s)'
      BY <2>2, Zenon DEF Abandoned, HoldsToken
    <3>3. slot'[s].state = "CLAIMING" /\ Attended(s) => Attended(s)'
      <4>1. slot'[s].state = "CLAIMING" => NoComponent \notin swept'
        BY <1>6, Zenon DEF Clean
      <4> QED
        BY <3>2, <4>1, Zenon DEF Attended, InClaim
    <3> QED
      BY <2>2, <3>1, <3>3, Zenon DEF AdminInductive, KeptInv
  <2> QED
    BY <1>2, <2>1, <2>2, Zenon
<1>8. Quiesced'
  <2>1. \A m \in swept' \cap Components : \A s \in Slots :
          slot'[s].state \in {"OWNED", "TRANSFER"} => slot'[s].owner # m
    BY <1>6, ProtocolAssumption, Zenon DEF Clean
  <2>2. NoComponent \in swept' => \A s \in Slots : slot'[s].state # "CLAIMING"
    BY <1>6, Zenon DEF Clean
  <2> QED
    BY <2>1, <2>2, Zenon DEF AdminInductive, Quiesced, Idle, At
<1> QED
  BY <1>1, <1>3, <1>4, <1>7, <1>8, Zenon DEF AdminInductive

LEMMA ReachedWithin ==
  ASSUME NEW found, NEW done \in Reached(found)
  PROVE  done \subseteq found
BY Zenon DEF Reached

LEMMA RecoverOwnerKeeps ==
  ASSUME AdminInductive, NEW c \in Components, RecoverOwner(c)
  PROVE  AdminInductive'
<1> USE Types
<1> DEFINE reclaimed == [s \in Orphans(c) |->
             [slot[s] EXCEPT !.state = "FREE", !.owner = NoComponent,
                             !.next = NoComponent, !.region = "EMPTY"]]
<1>1. /\ UNCHANGED <<ring, life, views, pc, loc, down, quiet>>
      /\ quiet /\ c \in down /\ SlotType
  BY Zenon DEF RecoverOwner, AdminInductive
<1>2. PICK done \in Reached(DOMAIN reclaimed) :
        /\ slot' = [s \in Slots |-> IF s \in done THEN reclaimed[s] ELSE slot[s]]
        /\ swept' = IF done = DOMAIN reclaimed THEN swept \cup {c} ELSE swept
  BY Zenon DEF RecoverOwner, Sweep
<1>3. done \subseteq Orphans(c) /\ done \in SUBSET Slots
  BY <1>2, ReachedWithin, Zenon DEF Orphans
<1>4. ASSUME NEW s \in Orphans(c)
      PROVE  /\ reclaimed[s] \in SlotControl
             /\ reclaimed[s].state = "FREE" /\ reclaimed[s].owner = NoComponent
             /\ reclaimed[s].generation = slot[s].generation
  <2>1. slot[s] \in SlotControl
    BY <1>1, Zenon DEF Orphans, SlotType
  <2> QED
    BY <2>1, Zenon DEF SlotControl, States
<1>5. swept' = IF done = Orphans(c) THEN swept \cup {c} ELSE swept
  <2>1. DOMAIN reclaimed = Orphans(c)
    BY Zenon
  <2> HIDE DEF reclaimed
  <2> QED
    BY <1>2, <2>1, Zenon
<1> HIDE DEF reclaimed
<1>6. SlotType'
  BY <1>1, <1>2, <1>3, <1>4, Zenon DEF SlotType
<1>7. \A s \in Slots \ done : slot'[s] = slot[s]
  BY <1>2, Zenon
<1>8. \A s \in done :
        /\ slot[s].state = "CLAIMING" \/ slot[s].owner \in down
        /\ slot'[s].state = "FREE" /\ slot'[s].owner = NoComponent
        /\ slot'[s].generation = slot[s].generation
  BY <1>1, <1>2, <1>3, <1>4, Zenon DEF Orphans
<1>9. swept' = swept \/ (swept' = swept \cup {c} /\ Clean(c)')
  <2>1. CASE done = Orphans(c)
    <3>1. ASSUME NEW s \in Slots, slot'[s].state \in {"OWNED", "TRANSFER"}
          PROVE  slot'[s].owner # c
      <4>1. s \notin Orphans(c) /\ slot'[s] = slot[s]
        BY <1>7, <1>8, <2>1, <3>1, Zenon
      <4>2. Belongs(s)
        BY <3>1, <4>1, Zenon DEF AdminInductive, KeptInv
      <4> QED
        BY <3>1, <4>1, <4>2, Zenon DEF Orphans, Belongs
    <3>2. Clean(c)'
      BY <3>1, ProtocolAssumption, Zenon DEF Clean
    <3> QED
      BY <1>5, <2>1, <3>2, Zenon
  <2>2. CASE done # Orphans(c)
    BY <1>5, <2>2, Zenon
  <2> QED
    BY <2>1, <2>2, Zenon
<1> QED
  BY <1>1, <1>3, <1>6, <1>7, <1>8, <1>9, SweepKeeps, Zenon

LEMMA RecoverClaimingKeeps ==
  ASSUME AdminInductive, RecoverClaiming
  PROVE  AdminInductive'
<1> USE Types
<1> DEFINE left == {t \in Slots : slot[t].state = "CLAIMING"}
           reclaimed == [s \in left |-> [InitialSlot EXCEPT !.generation = slot[s].generation]]
<1>1. /\ UNCHANGED <<ring, life, views, pc, loc, down, quiet>>
      /\ quiet /\ SlotType
  BY Zenon DEF RecoverClaiming, AdminInductive
<1>2. PICK done \in Reached(DOMAIN reclaimed) :
        /\ slot' = [s \in Slots |-> IF s \in done THEN reclaimed[s] ELSE slot[s]]
        /\ swept' = IF done = DOMAIN reclaimed THEN swept \cup {NoComponent} ELSE swept
  BY Zenon DEF RecoverClaiming, Sweep
<1>3. done \subseteq left /\ done \in SUBSET Slots
  BY <1>2, ReachedWithin, Zenon
<1>4. ASSUME NEW s \in left
      PROVE  /\ reclaimed[s] \in SlotControl
             /\ reclaimed[s].state = "FREE" /\ reclaimed[s].owner = NoComponent
             /\ reclaimed[s].generation = slot[s].generation
  <2>1. slot[s].generation \in Nat
    BY <1>1, FieldTypes, Zenon
  <2>2. InitialSlot \in SlotControl /\ InitialSlot.state = "FREE"
        /\ InitialSlot.owner = NoComponent
    BY InitialTypes, Zenon DEF InitialSlot
  <2> QED
    BY <2>1, <2>2 DEF SlotControl
<1>5. swept' = IF done = left THEN swept \cup {NoComponent} ELSE swept
  <2>1. DOMAIN reclaimed = left
    BY Zenon
  <2> HIDE DEF reclaimed
  <2> QED
    BY <1>2, <2>1, Zenon
<1> HIDE DEF reclaimed
<1>6. SlotType'
  BY <1>1, <1>2, <1>3, <1>4, Zenon DEF SlotType
<1>7. \A s \in Slots \ done : slot'[s] = slot[s]
  BY <1>2, Zenon
<1>8. \A s \in done :
        /\ slot[s].state = "CLAIMING" \/ slot[s].owner \in down
        /\ slot'[s].state = "FREE" /\ slot'[s].owner = NoComponent
        /\ slot'[s].generation = slot[s].generation
  BY <1>2, <1>3, <1>4, Zenon
<1>9. swept' = swept \/ (swept' = swept \cup {NoComponent} /\ Clean(NoComponent)')
  <2>1. CASE done = left
    <3>1. Clean(NoComponent)'
      BY <1>7, <1>8, <2>1, Zenon DEF Clean
    <3> QED
      BY <1>5, <2>1, <3>1, Zenon
  <2>2. CASE done # left
    BY <1>5, <2>2, Zenon
  <2> QED
    BY <2>1, <2>2, Zenon
<1> QED
  BY <1>1, <1>3, <1>6, <1>7, <1>8, <1>9, SweepKeeps, Zenon

\* The replacement registers a new epoch once nothing of the old one is left.
LEMMA ReplaceKeeps ==
  ASSUME AdminInductive, NEW c \in Components, Replace(c)
  PROVE  AdminInductive'
<1> USE Types
<1>1. /\ UNCHANGED <<slot, ring, views, pc, loc>>
      /\ quiet /\ c \in down /\ c \in swept /\ NoComponent \in swept
      /\ down' = down \ {c}
  BY Zenon DEF Replace
<1>2. /\ LifeType' /\ life'[c].state = "ACTIVE"
      /\ \A d \in Components \ {c} : life'[d] = life[d]
  BY DEF Replace, AdminInductive, LifeType
<1>3. /\ \A s \in Slots : slot[s].state # "CLAIMING"
      /\ \A s \in Slots : slot[s].state \in {"OWNED", "TRANSFER"} => slot[s].owner # c
  BY <1>1, Zenon DEF AdminInductive, Quiesced
<1>4. TypeOK'
  BY <1>1, <1>2, Zenon DEF AdminInductive, TypeOK, LifeType
<1>5. ASSUME NEW d \in Components PROVE RunInv(d)' /\ ~InClaim(d)'
  <2>1. /\ Idle(d)' /\ loc'[d].slot = NoSlot /\ ~InClaim(d)'
        /\ \A v \in views'[d] : d # c /\ BufferOwned(d, v)
    BY <1>1, NobodyRuns, Zenon DEF Idle, At, InClaim
  <2>2. \A v \in views'[d] : BufferOwned(d, v)'
    BY <1>1, <1>2, <2>1, Zenon DEF BufferOwned, RegisteredEpoch
  <2> QED
    BY <2>1, <2>2, IdleRun, Zenon
<1>6. SoleClaimant'
  BY <1>5, Zenon DEF SoleClaimant
<1>7. ASSUME NEW s \in Slots PROVE KeptInv(s)'
  <2>1. Older(s)' /\ (Behind(s) => Behind(s)')
    BY <1>1 DEF AdminInductive, KeptInv, Older, Behind, Descriptors
  <2>2. slot[s].state \in {"OWNED", "TRANSFER"} => Belongs(s)'
    BY <1>1, <1>2, <1>3, Zenon DEF AdminInductive, KeptInv, Belongs
  <2> QED
    BY <1>1, <1>3, <2>1, <2>2, Zenon DEF AdminInductive, KeptInv
<1>8. Quiesced'
  <2>1. CASE down' = {}
    <3>1. quiet' = FALSE /\ swept' = {}
      BY <2>1, Zenon DEF Replace
    <3> QED
      BY <1>1, <1>2, <2>1, <3>1, Zenon DEF AdminInductive, Quiesced
  <2>2. CASE down' # {}
    <3>1. quiet' = quiet /\ swept' = swept
      BY <2>2, Zenon DEF Replace
    <3> QED
      BY <1>1, <1>2, <3>1, Zenon DEF AdminInductive, Quiesced, Idle, At
  <2> QED
    BY <2>1, <2>2, Zenon
<1> QED
  BY <1>4, <1>5, <1>6, <1>7, <1>8, Zenon DEF AdminInductive

LEMMA AdminStarts ==
  ASSUME AdminInit
  PROVE  AdminInductive
<1>1. /\ slot = [s \in Slots |-> InitialSlot]
      /\ ring = [l \in Links |-> <<>>]
      /\ life = [c \in Components |-> [epoch |-> 1, state |-> "ACTIVE"]]
      /\ views = [c \in Components |-> {}]
      /\ pc = [c \in Components |-> [op |-> "NONE", at |-> "idle"]]
      /\ loc = [c \in Components |-> NoCall]
      /\ down = {} /\ quiet = FALSE /\ swept = {}
  BY Zenon DEF AdminInit, Init
<1>2. TypeOK
  BY <1>1, InitialTypes DEF TypeOK, PCs
<1>3. ASSUME NEW c \in Components PROVE RunInv(c) /\ ~InClaim(c)
  <2>1. /\ pc[c].op = "NONE" /\ pc[c].at = "idle" /\ views[c] = {}
        /\ loc[c].slot = NoSlot
    BY <1>1, Zenon DEF NoCall
  <2> QED
    BY <2>1, Zenon DEF RunInv, WorkInv, Steps, InClaim, AllocWork, SendWork, RollbackWork,
                RecvWork, ReleaseWork, ViewWork
<1>4. SoleClaimant
  BY <1>3, Zenon DEF SoleClaimant
<1>5. Descriptors = {}
  <2>1. \A l \in Links : {ring[l][i] : i \in 1..Len(ring[l])} = {}
    BY <1>1
  <2> QED
    BY <2>1, Zenon DEF Descriptors
<1>6. \A s \in Slots : KeptInv(s)
  <2>1. \A s \in Slots : slot[s].state = "FREE" /\ slot[s].owner = NoComponent
    BY <1>1, Zenon DEF InitialSlot
  <2> QED
    BY <1>5, <2>1, Zenon DEF KeptInv, Older
<1>7. Quiesced
  BY <1>1, Zenon DEF Quiesced, Idle, At
<1> QED
  BY <1>2, <1>3, <1>4, <1>6, <1>7, Zenon DEF AdminInductive

\* The invariant is inductive: it survives the termination of a runtime at any
\* step of any call, both sweeps, also the ones that stop half-way, and the
\* registration of the replacements.
THEOREM AdminInvariance == AdminSpec => []AdminInductive
<1>1. AdminInductive /\ [AdminNext]_avars => AdminInductive'
  <2> SUFFICES ASSUME AdminInductive, [AdminNext]_avars PROVE AdminInductive'
    BY Zenon
  <2>1. CASE UNCHANGED avars
    <3>1. UNCHANGED <<slot, ring, life, views, pc, loc, down, quiet, swept>>
      BY <2>1, Zenon DEF avars, vars
    <3>2. TypeOK'
      BY <3>1, Zenon DEF AdminInductive, TypeOK
    <3>3. \A c \in Components : RunInv(c)'
      BY <3>1, SameRun, Zenon DEF AdminInductive
    <3>4. \A s \in Slots : KeptInv(s)'
      BY <3>1, SameKept, Zenon DEF AdminInductive
    <3>5. SoleClaimant'
      BY <3>1, Zenon DEF AdminInductive, SoleClaimant, InClaim, Here
    <3>6. Quiesced'
      BY <3>1, Zenon DEF AdminInductive, Quiesced, Idle, At
    <3> QED
      BY <3>2, <3>3, <3>4, <3>5, <3>6, Zenon DEF AdminInductive
  <2>2. CASE \E c \in Components : Run(c)
    BY <2>2, RunKeeps, Zenon
  <2>3. CASE \E c \in Components : Crash(c)
    BY <2>3, CrashKeeps, Zenon
  <2>4. CASE \E c \in Components : Unregister(c) \/ RecoverOwner(c) \/ Replace(c)
    BY <2>4, UnregisterKeeps, RecoverOwnerKeeps, ReplaceKeeps, Zenon
  <2>5. CASE Quiesce \/ RecoverClaiming
    BY <2>5, QuiesceKeeps, RecoverClaimingKeeps, Zenon
  <2> QED
    BY <2>1, <2>2, <2>3, <2>4, <2>5, Zenon DEF AdminNext
<1> QED
  BY <1>1, AdminStarts, PTL DEF AdminSpec

\* Terminations and recovery never put two runtimes inside the claim of one
\* slot (zipc_pool_slot_claim and the paths that publish a claimed slot).
THEOREM ClaimantsAreSole == AdminSpec => []SoleClaimant
<1>1. AdminInductive => SoleClaimant
  BY Zenon DEF AdminInductive
<1> QED
  BY <1>1, AdminInvariance, PTL

\* zipc_pool_recover_owner and zipc_pool_recover_claiming take no buffer from
\* a component that lives on, and no descriptor that outlived its transfer
\* does: such a component owns every slot it has a view of.
THEOREM RecoveryKeepsViews == AdminSpec => []LiveViewsKept
<1>1. AdminInductive => LiveViewsKept
  BY Zenon DEF AdminInductive, LiveViewsKept, ViewsAreOwned, RunInv, ViewWork
<1> QED
  BY <1>1, AdminInvariance, PTL

\* Once the replacements have registered, nothing is owned by an epoch before
\* theirs and no claim is left without the runtime that works in it, except
\* the one a rollback of a living component could not finish.
THEOREM OrphansAreReclaimed == AdminSpec => []OrphansReclaimed
<1>1. AdminInductive => OrphansReclaimed
  BY Zenon DEF AdminInductive, OrphansReclaimed, KeptInv, Belongs, Attended, Abandoned
<1> QED
  BY <1>1, AdminInvariance, PTL
=============================================================================
