----------------------------- MODULE SlotCalls ------------------------------
(***************************************************************************)
(* Every step of every call keeps the invariant of its own runtime and     *)
(* gives the guarantee of SlotSteps to the others.  A receive relies on    *)
(* the others: the descriptor at the head of its ring is live, and nobody  *)
(* but the receiver can end that.                                          *)
(***************************************************************************)
EXTENDS SlotSteps

\* Steps that satisfy the guarantee whatever call they belong to.
LEMMA TakesToken ==
  ASSUME TypeOK, NoLeakedToken, NEW c \in Components, NEW s \in Slots, NEW t,
         t.comp = c, slot[s].token = NoToken, SetsToken(s, t), ~HoldsToken(c),
         HoldsToken(c)', loc'[c].slot = s
  PROVE  TokenStep(c) /\ FieldStep(c)
<1>1. TokenStep(c)
  BY Types, ProtocolAssumption, FieldTypes, TokenFields
     DEF TokenStep, SetsToken, OnlySlot, NoLeakedToken, NoToken
<1>2. FieldStep(c)
  BY Zenon DEF FieldStep, SetsToken, OnlySlot, SameFields
<1> QED
  BY <1>1, <1>2, Zenon

LEMMA ClearsToken ==
  ASSUME TypeOK, NoLeakedToken, NEW c \in Components, NEW s \in Slots,
         loc[c].slot = s, slot[s].token.comp = c, SetsToken(s, NoToken)
  PROVE  TokenStep(c) /\ FieldStep(c)
<1>1. TokenStep(c)
  BY Types, ProtocolAssumption, FieldTypes, TokenFields
     DEF TokenStep, SetsToken, OnlySlot, NoLeakedToken, NoToken
<1>2. FieldStep(c)
  BY Zenon DEF FieldStep, SetsToken, OnlySlot, SameFields
<1> QED
  BY <1>1, <1>2, Zenon

LEMMA WritesSlot ==
  ASSUME TypeOK, NoLeakedToken, NEW c \in Components, NEW s \in Slots,
         loc[c].slot = s, HoldsToken(c), slot[s].token.comp = c,
         OnlySlot(s), slot'[s].token = slot[s].token,
         \/ HoldsToken(c)' /\ loc'[c].slot = s
         \/ slot'[s].state = "CLAIMING" /\ slot'[s].token.kind = "ROLLBACK",
         \/ slot[s].state \in {"FREE", "CLAIMING"}
         \/ slot[s].state = "OWNED" /\ slot[s].owner = c
         \/ slot[s].state = "TRANSFER" /\ slot[s].owner = c /\ Sending(c, s)
         \/ /\ slot[s].state = "TRANSFER"
            /\ slot[s].next = c
            /\ SameFields(s)
            /\ slot'[s].state = "CLAIMING"
            /\ Claiming(<<slot[s].owner, c>>, s)'
  PROVE  TokenStep(c) /\ FieldStep(c)
<1>1. TokenStep(c)
  BY Types, ProtocolAssumption, FieldTypes, TokenFields
     DEF TokenStep, OnlySlot, NoLeakedToken, NoToken
<1>2. FieldStep(c)
  BY DEF FieldStep, OnlySlot, SameFields
<1> QED
  BY <1>1, <1>2, Zenon

LEMMA LeavesSlots ==
  ASSUME TypeOK, NoLeakedToken, NEW c \in Components,
         \A s \in Slots : /\ slot'[s].token = slot[s].token
                          /\ slot'[s].state = slot[s].state
                          /\ SameFields(s),
         HoldsToken(c) => HoldsToken(c)' /\ loc'[c].slot = loc[c].slot
  PROVE  TokenStep(c) /\ FieldStep(c)
<1>1. TokenStep(c)
  BY Types, ProtocolAssumption, FieldTypes, TokenFields
     DEF TokenStep, NoLeakedToken, NoToken
<1>2. FieldStep(c)
  BY Zenon DEF FieldStep
<1> QED
  BY <1>1, <1>2, Zenon

LEMMA QuietRing ==
  ASSUME NEW c \in Components, ring' = ring, pc[c].op # "RECEIVE",
         \A s \in Slots : Sending(c, s)' => Sending(c, s) \/ slot[s].state = "OWNED"
  PROVE  RingStep(c)
BY DEF RingStep, Done, Claiming, At

\* The invariant of a call is the part that its operation has.
LEMMA CallInvOf ==
  ASSUME NEW c \in Components, ControlInv(c)', TokenInv(c)', ViewInv(c)',
         \/ pc'[c].op = "ALLOCATE" /\ AllocInv(c)'
         \/ pc'[c].op = "SEND" /\ SendInv(c)'
         \/ pc'[c].op = "ROLLBACK" /\ RollbackInv(c)'
         \/ pc'[c].op = "RECEIVE" /\ RecvInv(c)'
         \/ pc'[c].op = "RELEASE" /\ ReleaseInv(c)'
         \/ pc'[c].op = "NONE"
  PROVE  CallInv(c)'
<1>1. pc'[c].op # "ALLOCATE" => AllocInv(c)'
  BY Zenon DEF AllocInv
<1>2. pc'[c].op # "SEND" => SendInv(c)'
  BY Zenon DEF SendInv
<1>3. pc'[c].op # "ROLLBACK" => RollbackInv(c)'
  BY Zenon DEF RollbackInv
<1>4. pc'[c].op # "RECEIVE" => RecvInv(c)'
  BY Zenon DEF RecvInv
<1>5. pc'[c].op # "RELEASE" => ReleaseInv(c)'
  BY Zenon DEF ReleaseInv
<1> QED
  BY <1>1, <1>2, <1>3, <1>4, <1>5, Zenon DEF CallInv

\* Views on other slots survive a step that writes only the slot of the call.
LEMMA InnerViews ==
  ASSUME TypeOK, NEW c \in Components, ViewInv(c), life' = life,
         views'[c] = views[c], loc'[c].slot = loc[c].slot,
         pc[c].op \in {"SEND", "ROLLBACK", "RELEASE"} =>
           /\ loc'[c].generation = loc[c].generation
           /\ loc'[c].epoch = loc[c].epoch,
         \A r \in Slots \ {loc[c].slot} : slot'[r] = slot[r],
         \/ pc'[c].op = pc[c].op /\ pc[c].op # "ROLLBACK"
         \/ pc[c].op = "SEND" /\ pc'[c].op = "ROLLBACK"
         \/ /\ pc[c].op = "ROLLBACK" /\ pc'[c].op = "ROLLBACK"
            /\ pc[c].at \notin {"undo", "lost"} \/ pc'[c].at \in {"undo", "lost"}
  PROVE  ViewInv(c)'
<1> SUFFICES ASSUME NEW v \in views[c]
             PROVE  IF v.slot # loc'[c].slot
                    THEN BufferOwned(c, v)'
                    ELSE /\ pc'[c].op \in {"SEND", "ROLLBACK", "RELEASE"}
                         /\ pc'[c].at \notin {"undo", "lost"} \/ pc'[c].op # "ROLLBACK" =>
                              /\ v.generation = loc'[c].generation
                              /\ v.epoch = loc'[c].epoch
  BY Zenon DEF ViewInv
<1>1. v.slot \in Slots
  BY Types DEF ViewType, View
<1>2. CASE v.slot # loc[c].slot
  <2>1. slot'[v.slot] = slot[v.slot] /\ BufferOwned(c, v)
    BY <1>1, <1>2, Zenon DEF ViewInv
  <2> QED
    BY <1>2, <2>1, SameEpoch DEF BufferOwned
<1>3. CASE v.slot = loc[c].slot
  BY <1>3, Zenon DEF ViewInv
<1> QED
  BY <1>2, <1>3, Zenon

\* Views after a return: the view on the slot of the call, if one is left,
\* names a slot that its component owns.
LEMMA ReturnViews ==
  ASSUME TypeOK, NEW c \in Components, ViewInv(c), life' = life,
         loc'[c] = NoCall,
         \A r \in Slots \ {loc[c].slot} : slot'[r] = slot[r],
         \A v \in views'[c] :
           \/ v \in views[c] /\ v.slot # loc[c].slot
           \/ BufferOwned(c, v)' /\ v.slot \in Slots
  PROVE  ViewInv(c)'
<1> SUFFICES ASSUME NEW v \in views'[c]
             PROVE  v.slot # loc'[c].slot /\ BufferOwned(c, v)'
  BY Zenon DEF ViewInv
<1>1. loc'[c].slot = NoSlot
  BY DEF NoCall
<1>2. CASE v \in views[c] /\ v.slot # loc[c].slot
  <2>1. v.slot \in Slots
    BY <1>2, Types DEF ViewType, View
  <2>2. slot'[v.slot] = slot[v.slot] /\ BufferOwned(c, v)
    BY <1>2, <2>1, Zenon DEF ViewInv
  <2> QED
    BY <1>1, <2>1, <2>2, SameEpoch, ProtocolAssumption, Zenon DEF BufferOwned
<1>3. CASE BufferOwned(c, v)' /\ v.slot \in Slots
  BY <1>1, <1>3, ProtocolAssumption, Zenon
<1> QED
  BY <1>2, <1>3, Zenon

LEMMA IdleCallInv ==
  ASSUME NEW c \in Components, pc'[c].op = "NONE", pc'[c].at = "idle",
         loc'[c] = NoCall, ViewInv(c)'
  PROVE  CallInv(c)'
<1>1. ControlInv(c)'
  BY DEF ControlInv, Steps, NoCall
<1>2. TokenInv(c)'
  BY Zenon DEF TokenInv, HoldsToken, InClaim
<1> QED
  BY <1>1, <1>2, CallInvOf, Zenon

\* A call that returns from its slot is a good step when what it does to the
\* slot and to the views is.
LEMMA GoodReturn ==
  ASSUME TypeOK, NEW c \in Components, pc[c].op # "RECEIVE",
         Moves(c, "NONE", "idle"), LocType', loc'[c] = NoCall,
         \A d \in Components \ {c} : loc'[d] = loc[d],
         \A d \in Components \ {c} : views'[d] = views[d],
         ViewType', SlotType', ring' = ring, life' = life,
         TokenStep(c), FieldStep(c), ViewInv(c)'
  PROVE  Good(c)
<1>1. TypeOK'
  BY Types, Zenon DEF TypeOK, Moves, SlotType, RingType, LifeType, ViewType,
     PcType, LocType
<1>2. Frame(c)
  BY Zenon DEF Frame, Moves
<1>3. CallInv(c)'
  BY IdleCallInv, Zenon DEF Moves
<1>4. RingStep(c)
  BY QuietRing, Zenon DEF Moves, Sending
<1> QED
  BY <1>1, <1>2, <1>3, <1>4, Zenon DEF Good

(***************************************************************************)
(* The steps that the operations share, within a call.                     *)
(***************************************************************************)
LEMMA TokenTaken ==
  ASSUME TypeOK, NoLeakedToken, NEW c \in Components, CallInv(c),
         NEW kind \in Kinds, At(c, kind, "token"), Here(c).token = NoToken,
         slot' = [slot EXCEPT ![loc[c].slot].token = Token(kind, c, loc[c].epoch)],
         Goto(c, "claim"), UNCHANGED <<ring, life, views, loc>>
  PROVE  /\ Inner(c, "claim")
         /\ SetsToken(loc[c].slot, Token(kind, c, loc[c].epoch))
         /\ TokenStep(c) /\ FieldStep(c) /\ TokenInv(c)'
<1>1. pc[c].op = kind /\ pc[c].at = "token"
  BY AtFacts, Zenon
<1>2. loc[c].slot \in Slots
  BY <1>1, HasSlot, Zenon
<1>3. Inner(c, "claim")
  BY Types, GotoMoves, Zenon DEF Inner, Labels
<1>4. SetsToken(loc[c].slot, Token(kind, c, loc[c].epoch))
  <2>1. Token(kind, c, loc[c].epoch) \in Tokens
    BY Types, TokenTypes, LocalTypes, Zenon
  <2> QED
    BY Types, <1>2, <2>1, TokenUpdate, Zenon
<1>5. pc'[c].op = kind /\ pc'[c].at = "claim"
  BY <1>1, <1>3, Zenon DEF Inner, Moves
<1>6. TokenStep(c) /\ FieldStep(c)
  BY <1>1, <1>2, <1>3, <1>4, <1>5, TakesToken, TokenFields
     DEF HoldsToken, Inner, Here
<1>7. TokenInv(c)'
  BY <1>3, <1>4, <1>5, Zenon DEF TokenInv, HoldsToken, InClaim, SetsToken, Here, Inner
<1> QED
  BY <1>3, <1>4, <1>6, <1>7, Zenon

\* The compare-and-swap to CLAIMING fails, or takes a slot that the caller may
\* take.
LEMMA ClaimFails ==
  ASSUME TypeOK, NoLeakedToken, NEW c \in Components, CallInv(c),
         pc[c].at = "claim", slot' = slot, Inner(c, "undo")
  PROVE  TokenStep(c) /\ FieldStep(c) /\ TokenInv(c)'
<1>1. pc'[c].op = pc[c].op /\ pc'[c].at = "undo"
  BY Zenon DEF Inner, Moves
<1>2. TokenStep(c) /\ FieldStep(c)
  BY <1>1, LeavesSlots, Zenon DEF HoldsToken, SameFields, Inner
<1>3. TokenInv(c)'
  BY <1>1, Zenon DEF TokenInv, CallInv, HoldsToken, InClaim, Here, Inner
<1> QED
  BY <1>2, <1>3, Zenon

LEMMA ClaimTaken ==
  ASSUME TypeOK, NoLeakedToken, NEW c \in Components, CallInv(c),
         pc[c].at = "claim", SetsState(loc[c].slot, "CLAIMING"),
         Inner(c, "fill"),
         \/ Here(c).state = "FREE"
         \/ Here(c).state = "OWNED" /\ Here(c).owner = c
         \/ /\ Here(c).state = "TRANSFER" /\ Here(c).owner = c
            /\ Sending(c, loc[c].slot)
         \/ /\ Here(c).state = "TRANSFER" /\ Here(c).next = c
            /\ Claiming(<<Here(c).owner, c>>, loc[c].slot)'
  PROVE  TokenStep(c) /\ FieldStep(c) /\ TokenInv(c)'
<1>1. pc'[c].op = pc[c].op /\ pc'[c].at = "fill"
  BY Zenon DEF Inner, Moves
<1>2. loc[c].slot \in Slots
  BY HasSlot, Zenon
<1>3. Here(c).token = Token(pc[c].op, c, loc[c].epoch) /\ Here(c).token.comp = c
  BY HasToken, Zenon DEF HoldsToken
<1>4. TokenStep(c) /\ FieldStep(c)
  BY <1>1, <1>2, <1>3, WritesSlot, Zenon DEF HoldsToken, Inner, SetsState, Here
<1>5. TokenInv(c)'
  BY <1>1, <1>3, Zenon DEF TokenInv, Here, SetsState, Inner
<1> QED
  BY <1>4, <1>5, Zenon

\* A claimed slot is written; the claim goes on, or its end is published.
LEMMA ClaimWrites ==
  ASSUME TypeOK, NoLeakedToken, NEW c \in Components, CallInv(c), InClaim(c),
         NEW label, Within(c, label), loc'[c].epoch = loc[c].epoch,
         OnlySlot(loc[c].slot),
         slot'[loc[c].slot].token = slot[loc[c].slot].token,
         \/ label \in {"fill", "free", "publish"} /\ slot'[loc[c].slot].state = "CLAIMING"
         \/ label \in {"undo", "clear"}
  PROVE  TokenStep(c) /\ FieldStep(c) /\ TokenInv(c)'
<1>1. pc'[c].op = pc[c].op /\ pc'[c].at = label
  BY Zenon DEF Within, Moves
<1>2. loc[c].slot \in Slots
  BY HasSlot, Zenon DEF InClaim
<1>3. /\ Here(c).token = Token(pc[c].op, c, loc[c].epoch)
      /\ Here(c).token.comp = c
      /\ Here(c).state = "CLAIMING"
  BY HasToken, Zenon DEF HoldsToken, InClaim
<1>4. TokenStep(c) /\ FieldStep(c)
  BY <1>1, <1>2, <1>3, WritesSlot, Zenon DEF HoldsToken, InClaim, Within, Here
<1>5. TokenInv(c)'
  BY <1>1, <1>3, Zenon DEF TokenInv, HoldsToken, InClaim, Here, Within
<1> QED
  BY <1>4, <1>5, Zenon

LEMMA ClaimEnds ==
  ASSUME TypeOK, NoLeakedToken, NEW c \in Components, CallInv(c), InClaim(c),
         NEW state, SetsState(loc[c].slot, state),
         NEW label \in {"undo", "clear"}, Inner(c, label)
  PROVE  TokenStep(c) /\ FieldStep(c) /\ TokenInv(c)'
BY InnerWithin, ClaimWrites, Zenon DEF SetsState, Inner

\* A good step within a call other than a receive.
LEMMA GoodWithin ==
  ASSUME TypeOK, NEW c \in Components, CallInv(c), pc[c].op # "RECEIVE",
         pc[c].at \notin {"idle", "scan"},
         NEW label \in Steps(pc[c].op), Within(c, label), SlotType',
         loc'[c].epoch = loc[c].epoch,
         pc[c].op # "ALLOCATE" => loc'[c].generation = loc[c].generation,
         pc[c].op = "ROLLBACK" =>
           pc[c].at \notin {"undo", "lost"} \/ label \in {"undo", "lost"},
         \A r \in Slots \ {loc[c].slot} : slot'[r] = slot[r],
         TokenStep(c), FieldStep(c), TokenInv(c)',
         pc[c].op = "ALLOCATE" => AllocInv(c)',
         pc[c].op = "SEND" => SendInv(c)',
         pc[c].op = "ROLLBACK" => RollbackInv(c)',
         pc[c].op = "RELEASE" => ReleaseInv(c)'
  PROVE  Good(c)
<1>1. TypeOK' /\ Frame(c)
  BY WithinFrame, Zenon
<1>2. pc'[c].op = pc[c].op /\ pc'[c].at = label /\ loc[c].slot \in Slots
  BY HasSlot, Zenon DEF Within, Moves
<1>3. pc[c].op \in {"ALLOCATE", "SEND", "ROLLBACK", "RELEASE"}
  BY Types, Zenon DEF PcType, PCs, Kinds, CallInv, ControlInv, Steps
<1>4. ControlInv(c)'
  BY <1>2, <1>3, Zenon DEF ControlInv, Within
<1>5. ViewInv(c)'
  BY <1>2, <1>3, InnerViews, Zenon DEF CallInv, Within
<1>6. CallInv(c)'
  BY <1>2, <1>3, <1>4, <1>5, CallInvOf, Zenon
<1>7. RingStep(c)
  BY <1>2, QuietRing, Zenon DEF Within, Sending
<1> QED
  BY <1>1, <1>6, <1>7, Zenon DEF Good

(***************************************************************************)
(* zipc_buffer_alloc.                                                      *)
(***************************************************************************)
LEMMA GoodAlloc ==
  ASSUME TypeOK, NoLeakedToken, NEW c \in Components, CallInv(c),
         AllocCall(c) \/ AllocStep(c)
  PROVE  Good(c)
<1> USE Types
<1>1. CASE AllocCall(c)
  <2>1. pc[c].op = "NONE" /\ pc[c].at = "idle"
    BY <1>1, AtFacts, Zenon DEF AllocCall, Idle
  <2>2. Moves(c, "ALLOCATE", "scan")
    BY <1>1, EnterMoves, Zenon DEF AllocCall, Kinds, Labels
  <2>3. RegisteredEpoch(c) \in Nat
    BY Zenon DEF RegisteredEpoch, LifeType
  <2>4. /\ LocType'
        /\ \A d \in Components \ {c} : loc'[d] = loc[d]
        /\ loc'[c].slot = loc[c].slot
        /\ loc'[c].epoch = RegisteredEpoch(c)
    <3>1. PICK t \in SUBSET Slots :
            loc' = [loc EXCEPT ![c].todo = t, ![c].epoch = RegisteredEpoch(c)]
      BY <1>1, Zenon DEF AllocCall
    <3>2. PICK r \in Locals :
            r = [loc[c] EXCEPT !.todo = t, !.epoch = RegisteredEpoch(c)]
      BY <2>3 DEF LocType, Locals
    <3>3. loc[c] \in Locals /\ r.slot = loc[c].slot /\ r.epoch = RegisteredEpoch(c)
      BY <3>2, Zenon DEF LocType, Locals
    <3>4. loc' = [loc EXCEPT ![c] = r]
      BY <3>1, <3>2, Zenon DEF LocType
    <3> QED
      BY <3>3, <3>4, LocalsUpdate, Zenon
  <2>5. TypeOK'
    BY <1>1, <2>2, <2>4, Zenon
       DEF AllocCall, TypeOK, Moves, LocType, PcType
  <2>6. Frame(c)
    BY <1>1, <2>2, <2>4, Zenon DEF AllocCall, Moves, Frame
  <2>7. TokenStep(c) /\ FieldStep(c)
    BY <1>1, <2>1, LeavesSlots, Zenon DEF AllocCall, HoldsToken, SameFields
  <2>8. RingStep(c)
    BY <1>1, <2>1, <2>2, QuietRing, Zenon DEF AllocCall, Sending, Moves
  <2>9. ControlInv(c)' /\ TokenInv(c)' /\ AllocInv(c)'
    BY <1>1, <2>1, <2>2, <2>4, SameEpoch, Zenon
       DEF ControlInv, TokenInv, AllocInv, Steps, Moves, HoldsToken, InClaim,
           AllocCall
  <2>10. loc[c].slot = NoSlot
    BY <2>1, Zenon DEF CallInv, ControlInv
  <2>11. ViewInv(c)'
    <3> SUFFICES ASSUME NEW v \in views[c]
                 PROVE  v.slot # loc'[c].slot /\ BufferOwned(c, v)'
      BY <1>1, Zenon DEF ViewInv, AllocCall
    <3>1. v.slot \in Slots
      BY DEF ViewType, View
    <3>2. BufferOwned(c, v)
      BY <2>10, <3>1, ProtocolAssumption, Zenon DEF CallInv, ViewInv
    <3> QED
      BY <1>1, <2>4, <2>10, <3>1, <3>2, SameEpoch, ProtocolAssumption, Zenon
         DEF BufferOwned, AllocCall
  <2>12. CallInv(c)'
    BY <2>2, <2>9, <2>11, CallInvOf, Zenon DEF Moves
  <2> QED
    BY <2>5, <2>6, <2>7, <2>8, <2>12, Zenon DEF Good
<1>2. CASE AllocProbe(c)
  <2>1. pc[c].op = "ALLOCATE" /\ pc[c].at = "scan"
    BY <1>2, AtFacts, Zenon DEF AllocProbe
  <2>2. PICK r \in loc[c].todo :
          IF slot[r].state = "FREE"
          THEN /\ loc' = [loc EXCEPT ![c].slot = r, ![c].todo = @ \ {r}]
               /\ Goto(c, "token")
          ELSE /\ loc' = [loc EXCEPT ![c].todo = @ \ {r}]
               /\ UNCHANGED pc
    BY <1>2, Zenon DEF AllocProbe
  <2>3. r \in Slots
    BY LocalTypes, Zenon
  <2>4. UNCHANGED <<slot, ring, life, views>>
    BY <1>2, Zenon DEF AllocProbe
  <2>5. /\ LocType'
        /\ \A d \in Components \ {c} : loc'[d] = loc[d]
        /\ loc'[c].epoch = loc[c].epoch
        /\ slot[r].state = "FREE" => loc'[c].slot = r
        /\ slot[r].state # "FREE" => loc'[c].slot = loc[c].slot
    BY <2>2, <2>3 DEF LocType, Locals
  <2>6. /\ slot[r].state = "FREE" => Moves(c, "ALLOCATE", "token")
        /\ slot[r].state # "FREE" => Moves(c, "ALLOCATE", "scan")
    <3>1. CASE slot[r].state = "FREE"
      BY <2>1, <2>2, <3>1, GotoMoves, Zenon DEF Labels
    <3>2. CASE slot[r].state # "FREE"
      BY <2>1, <2>2, <3>2, Zenon DEF Moves, PcType
    <3> QED
      BY <3>1, <3>2, Zenon
  <2>7. TypeOK'
    BY <2>4, <2>5, <2>6, Zenon
       DEF TypeOK, Moves, LocType, PcType
  <2>8. Frame(c)
    BY <2>4, <2>5, <2>6, Zenon DEF Moves, Frame
  <2>9. TokenStep(c) /\ FieldStep(c)
    BY <2>1, <2>4, LeavesSlots, Zenon DEF HoldsToken, SameFields
  <2>10. RingStep(c)
    BY <2>1, <2>4, <2>6, QuietRing, Zenon DEF Sending, Moves
  <2>11. ControlInv(c)' /\ TokenInv(c)' /\ AllocInv(c)'
    BY <2>1, <2>3, <2>4, <2>5, <2>6, SameEpoch, Zenon
       DEF ControlInv, TokenInv, AllocInv, Steps, Moves, HoldsToken, InClaim,
           CallInv
  <2>12. ViewInv(c)'
    <3> SUFFICES ASSUME NEW v \in views[c]
                 PROVE  v.slot # loc'[c].slot /\ BufferOwned(c, v)'
      BY <2>4, Zenon DEF ViewInv
    <3>1. v.slot # loc[c].slot /\ BufferOwned(c, v)
      BY <2>1, Zenon DEF CallInv, ViewInv
    <3> QED
      BY <2>4, <2>5, <3>1, SameEpoch, Zenon DEF BufferOwned
  <2>13. CallInv(c)'
    BY <2>6, <2>11, <2>12, CallInvOf, Zenon DEF Moves
  <2> QED
    BY <2>7, <2>8, <2>9, <2>10, <2>13, Zenon DEF Good
<1>3. CASE AllocNone(c)
  <2>1. pc[c].op = "ALLOCATE" /\ pc[c].at = "scan"
    BY <1>3, AtFacts, Zenon DEF AllocNone
  <2>2. /\ Moves(c, "NONE", "idle") /\ LocType' /\ loc'[c] = NoCall
        /\ \A d \in Components \ {c} : loc'[d] = loc[d]
        /\ slot' = slot /\ ring' = ring /\ life' = life /\ views' = views
    BY <1>3, Returns, Zenon DEF AllocNone
  <2>3. TokenStep(c) /\ FieldStep(c)
    BY <2>1, <2>2, LeavesSlots, Zenon DEF HoldsToken, SameFields
  <2>4. \A v \in views[c] : v.slot # loc[c].slot
    BY <2>1, Zenon DEF CallInv, ViewInv
  <2>5. ViewInv(c)'
    BY <2>2, <2>4, ReturnViews, Zenon DEF CallInv
  <2> QED
    BY <2>1, <2>2, <2>3, <2>5, GoodReturn, Zenon DEF ViewType, SlotType
<1>4. CASE AllocToken(c)
  <2>1. pc[c].op = "ALLOCATE" /\ pc[c].at = "token" /\ loc[c].slot \in Slots
    BY <1>4, AtFacts, HasSlot DEF AllocToken, CasToken
  <2>2. CASE Here(c).token = NoToken
    <3>1. /\ Inner(c, "claim")
          /\ SetsToken(loc[c].slot, Token("ALLOCATE", c, loc[c].epoch))
          /\ TokenStep(c) /\ FieldStep(c) /\ TokenInv(c)'
      BY <1>4, <2>2, TokenTaken, Zenon DEF AllocToken, CasToken, Kinds
    <3>2. AllocInv(c)'
      BY <2>1, <3>1, SameEpoch, Zenon DEF AllocInv, CallInv, Inner, Moves
    <3> QED
      BY <2>1, <3>1, <3>2, InnerWithin, GoodWithin, Zenon
         DEF SetsToken, OnlySlot, Steps, Inner
  <2>3. CASE Here(c).token # NoToken
    <3>1. Inner(c, "scan") /\ slot' = slot
      BY <1>4, <2>3, GotoMoves, Zenon DEF AllocToken, CasToken, Inner, Labels
    <3>2. TokenStep(c) /\ FieldStep(c)
      BY <2>1, <3>1, LeavesSlots, Zenon DEF HoldsToken, SameFields
    <3>3. TokenInv(c)' /\ AllocInv(c)'
      BY <2>1, <3>1, SameEpoch, Zenon
         DEF TokenInv, AllocInv, CallInv, HoldsToken, InClaim, Inner, Moves
    <3> QED
      BY <2>1, <3>1, <3>2, <3>3, InnerWithin, GoodWithin, Zenon
         DEF Steps, SlotType, Inner
  <2> QED
    BY <2>2, <2>3, Zenon
<1>5. CASE AllocClaim(c)
  <2>1. pc[c].op = "ALLOCATE" /\ pc[c].at = "claim" /\ loc[c].slot \in Slots
    BY <1>5, AtFacts, HasSlot DEF AllocClaim, CasState
  <2>2. CASE /\ Here(c).state = "FREE"
             /\ SetsState(loc[c].slot, "CLAIMING")
             /\ Inner(c, "fill")
    <3>1. TokenStep(c) /\ FieldStep(c) /\ TokenInv(c)'
      BY <2>1, <2>2, ClaimTaken, Zenon
    <3>2. AllocInv(c)'
      BY <2>1, <2>2, SameEpoch, Zenon DEF AllocInv, CallInv, Inner, Moves
    <3> QED
      BY <2>1, <2>2, <3>1, <3>2, InnerWithin, GoodWithin, Zenon
         DEF SetsState, OnlySlot, Steps, Inner
  <2>3. CASE slot' = slot /\ Inner(c, "undo")
    <3>1. TokenStep(c) /\ FieldStep(c) /\ TokenInv(c)'
      BY <2>1, <2>3, ClaimFails, Zenon
    <3>2. AllocInv(c)'
      BY <2>1, <2>3, SameEpoch, Zenon DEF AllocInv, CallInv, Inner, Moves
    <3> QED
      BY <2>1, <2>3, <3>1, <3>2, InnerWithin, GoodWithin, Zenon
         DEF Steps, SlotType, Inner
  <2> QED
    BY <1>5, <2>1, <2>2, <2>3, CasStateEffect, Zenon DEF AllocClaim
<1>6. CASE AllocUndo(c)
  <2>1. /\ pc[c].op = "ALLOCATE" /\ pc[c].at = "undo" /\ loc[c].slot \in Slots
        /\ SetsToken(loc[c].slot, NoToken) /\ Inner(c, "scan")
    BY <1>6, ClearAndGotoEffect, Zenon DEF AllocUndo, CallInv, Labels
  <2>2. TokenStep(c) /\ FieldStep(c)
    BY <2>1, HasToken, ClearsToken, Zenon DEF HoldsToken, Here
  <2>3. TokenInv(c)' /\ AllocInv(c)'
    BY <2>1, SameEpoch, Zenon
       DEF TokenInv, AllocInv, CallInv, HoldsToken, InClaim, Inner, Moves
  <2> QED
    BY <2>1, <2>2, <2>3, InnerWithin, GoodWithin, Zenon
       DEF SetsToken, OnlySlot, Steps, Inner
<1>7. CASE AllocFill(c)
  <2> DEFINE allocated ==
        [InitialSlot EXCEPT !.state = "CLAIMING", !.token = Here(c).token,
           !.generation = Here(c).generation + 1, !.owner = c,
           !.epoch = loc[c].epoch, !.hops = 1, !.region = "SET"]
  <2> DEFINE freed ==
        [allocated EXCEPT !.owner = NoComponent, !.region = "EMPTY"]
  <2>1. /\ pc[c].op = "ALLOCATE" /\ pc[c].at = "fill" /\ loc[c].slot \in Slots
        /\ InClaim(c)
    BY <1>7, AtFacts, HasSlot DEF AllocFill, InClaim
  <2>4. Here(c).token \in Tokens /\ Here(c).generation + 1 \in Nat
    BY <2>1, FieldTypes DEF Here
  <2>5. /\ allocated \in SlotControl
        /\ allocated.token = Here(c).token
        /\ allocated.state = "CLAIMING"
        /\ allocated.owner = c
        /\ allocated.epoch = loc[c].epoch
        /\ allocated.generation = Here(c).generation + 1
    <3>1. loc[c].epoch \in Nat
      BY LocalTypes, Zenon
    <3>2. /\ allocated.token = Here(c).token
          /\ allocated.state = "CLAIMING"
          /\ allocated.owner = c
          /\ allocated.epoch = loc[c].epoch
          /\ allocated.generation = Here(c).generation + 1
      BY Zenon DEF InitialSlot
    <3>3. allocated \in SlotControl
      BY <2>4, <3>1, InitialTypes DEF SlotControl, States
    <3> QED
      BY <3>2, <3>3, Zenon
  <2>6. /\ freed \in SlotControl
        /\ freed.token = Here(c).token
        /\ freed.state = "CLAIMING"
    BY <2>5 DEF SlotControl
  <2> HIDE DEF allocated, freed
  <2>7. CASE /\ slot' = [slot EXCEPT ![loc[c].slot] = allocated]
             /\ loc' = [loc EXCEPT ![c].generation = allocated.generation]
             /\ Goto(c, "publish")
    <3>1. OnlySlot(loc[c].slot) /\ slot'[loc[c].slot] = allocated
      BY <2>1, <2>5, <2>7, RecordUpdate, Zenon
    <3>2. /\ Within(c, "publish")
          /\ loc'[c].epoch = loc[c].epoch
          /\ loc'[c].generation = allocated.generation
      <4>1. Moves(c, pc[c].op, "publish")
        BY <2>7, GotoMoves, Zenon DEF Labels
      <4>2. /\ LocType' /\ loc'[c].slot = loc[c].slot
            /\ \A d \in Components \ {c} : loc'[d] = loc[d]
            /\ loc'[c].epoch = loc[c].epoch
            /\ loc'[c].generation = allocated.generation
        BY <2>4, <2>5, <2>7 DEF LocType, Locals
      <4> QED
        BY <1>7, <4>1, <4>2, Zenon DEF Within, AllocFill
    <3>3. TokenStep(c) /\ FieldStep(c) /\ TokenInv(c)'
      BY <2>1, <2>5, <3>1, <3>2, ClaimWrites, Zenon DEF Here
    <3>4. AllocInv(c)'
      <4>1. loc[c].epoch = RegisteredEpoch(c)
        BY <2>1, Zenon DEF CallInv, AllocInv
      <4>2. RegisteredEpoch(c)' = RegisteredEpoch(c)
        BY <3>2, SameEpoch, Zenon DEF Within
      <4>3. Mine(c)'
        BY <2>5, <3>1, <3>2, <4>1, <4>2, Zenon DEF Mine, Here, Within
      <4> QED
        BY <3>2, <4>1, <4>2, <4>3, Zenon DEF AllocInv, Within, Moves
    <3> QED
      BY <2>1, <3>1, <3>2, <3>3, <3>4, GoodWithin, Zenon DEF OnlySlot, Steps
  <2>8. CASE /\ slot' = [slot EXCEPT ![loc[c].slot] = freed]
             /\ loc' = [loc EXCEPT ![c].todo = {}]
             /\ Goto(c, "free")
    <3>1. OnlySlot(loc[c].slot) /\ slot'[loc[c].slot] = freed
      BY <2>1, <2>6, <2>8, RecordUpdate, Zenon
    <3>2. /\ Within(c, "free")
          /\ loc'[c].epoch = loc[c].epoch
      <4>1. Moves(c, pc[c].op, "free")
        BY <2>8, GotoMoves, Zenon DEF Labels
      <4>2. /\ LocType' /\ loc'[c].slot = loc[c].slot
            /\ \A d \in Components \ {c} : loc'[d] = loc[d]
            /\ loc'[c].epoch = loc[c].epoch
        BY <2>8 DEF LocType, Locals
      <4> QED
        BY <1>7, <4>1, <4>2, Zenon DEF Within, AllocFill
    <3>3. TokenStep(c) /\ FieldStep(c) /\ TokenInv(c)'
      BY <2>1, <2>6, <3>1, <3>2, ClaimWrites, Zenon DEF Here
    <3>4. AllocInv(c)'
      BY <2>1, <3>2, SameEpoch, Zenon DEF AllocInv, Within, Moves, CallInv
    <3> QED
      BY <2>1, <3>1, <3>2, <3>3, <3>4, GoodWithin, Zenon DEF OnlySlot, Steps
  <2> QED
    BY <1>7, <2>7, <2>8, Zenon DEF AllocFill, allocated, freed
<1>8. CASE AllocFree(c)
  <2>1. /\ pc[c].op = "ALLOCATE" /\ pc[c].at = "free" /\ loc[c].slot \in Slots
        /\ InClaim(c)
    BY <1>8, AtFacts, HasSlot DEF AllocFree, Publish, InClaim
  <2>2. SetsState(loc[c].slot, "FREE") /\ Inner(c, "undo")
    BY <1>8, <2>1, PublishEffect, Zenon DEF AllocFree, Labels, States
  <2>3. TokenStep(c) /\ FieldStep(c) /\ TokenInv(c)'
    BY <2>1, <2>2, ClaimEnds, Zenon
  <2>4. AllocInv(c)'
    BY <2>1, <2>2, SameEpoch, Zenon DEF AllocInv, CallInv, Inner, Moves
  <2> QED
    BY <2>1, <2>2, <2>3, <2>4, InnerWithin, GoodWithin, Zenon
       DEF SetsState, OnlySlot, Steps, Inner
<1>9. CASE AllocPublish(c)
  <2>1. /\ pc[c].op = "ALLOCATE" /\ pc[c].at = "publish" /\ loc[c].slot \in Slots
        /\ InClaim(c)
    BY <1>9, AtFacts, HasSlot DEF AllocPublish, Publish, InClaim
  <2>2. SetsState(loc[c].slot, "OWNED") /\ Inner(c, "clear")
    BY <1>9, <2>1, PublishEffect, Zenon DEF AllocPublish, Labels, States
  <2>3. TokenStep(c) /\ FieldStep(c) /\ TokenInv(c)'
    BY <2>1, <2>2, ClaimEnds, Zenon
  <2>4. AllocInv(c)'
    BY <2>1, <2>2, SameEpoch, Zenon
       DEF AllocInv, Mine, Here, CallInv, Inner, Moves, SetsState, SameFields
  <2> QED
    BY <2>1, <2>2, <2>3, <2>4, InnerWithin, GoodWithin, Zenon
       DEF SetsState, OnlySlot, Steps, Inner
<1>10. CASE AllocClear(c)
  <2>1. /\ pc[c].op = "ALLOCATE" /\ pc[c].at = "clear" /\ loc[c].slot \in Slots
        /\ SetsToken(loc[c].slot, NoToken)
        /\ Moves(c, "NONE", "idle") /\ LocType' /\ loc'[c] = NoCall
        /\ \A d \in Components \ {c} : loc'[d] = loc[d]
        /\ ring' = ring /\ life' = life
    BY <1>10, ClearAndReturnEffect, Zenon DEF AllocClear, CallInv
  <2>0. PICK new \in View :
          new = [slot |-> loc[c].slot, generation |-> loc[c].generation,
                 epoch |-> loc[c].epoch]
    BY <2>1, LocalTypes, Zenon DEF View
  <2>2. views' = [views EXCEPT ![c] = @ \cup {new}]
    BY <1>10, <2>0, Zenon DEF AllocClear, AddView
  <2>3. ViewType' /\ \A d \in Components \ {c} : views'[d] = views[d]
    BY <2>2, Zenon DEF ViewType
  <2>4. TokenStep(c) /\ FieldStep(c)
    BY <2>1, HasToken, ClearsToken, Zenon DEF HoldsToken, Here
  <2>5. BufferOwned(c, new)'
    BY <2>0, <2>1, SameEpoch, Zenon
       DEF BufferOwned, CallInv, AllocInv, Mine, Here, SetsToken, SameFields
  <2>6. \A v \in views[c] : v.slot # loc[c].slot
    BY <2>1, Zenon DEF CallInv, ViewInv
  <2>7. \A v \in views'[c] : v \in views[c] \/ v = new
    BY <2>2, Zenon DEF ViewType
  <2>8. ViewInv(c)'
    <3>1. new.slot \in Slots
      BY Zenon DEF View
    <3> QED
      BY <2>1, <2>5, <2>6, <2>7, <3>1, ReturnViews, Zenon
         DEF CallInv, SetsToken, OnlySlot
  <2> QED
    BY <2>1, <2>3, <2>4, <2>8, GoodReturn, Zenon DEF SetsToken, OnlySlot
<1> QED
  BY <1>1, <1>2, <1>3, <1>4, <1>5, <1>6, <1>7, <1>8, <1>9, <1>10, Zenon DEF AllocStep

(***************************************************************************)
(* zipc_send.                                                              *)
(***************************************************************************)
\* A call on a buffer of the caller begins: the view on the slot is the one
\* that the call was given.
LEMMA EntryViews ==
  ASSUME TypeOK, NEW c \in Components, CallInv(c), Idle(c),
         NEW s \in Slots, Journals(s), life' = life, views' = views,
         pc'[c].op \in {"SEND", "RELEASE"}, loc'[c].slot = s,
         loc'[c].generation = slot[s].generation,
         loc'[c].epoch = slot[s].epoch
  PROVE  ViewInv(c)'
<1> SUFFICES ASSUME NEW v \in views[c]
             PROVE  IF v.slot # loc'[c].slot
                    THEN BufferOwned(c, v)'
                    ELSE /\ pc'[c].op \in {"SEND", "ROLLBACK", "RELEASE"}
                         /\ pc'[c].at \notin {"undo", "lost"} \/ pc'[c].op # "ROLLBACK" =>
                              /\ v.generation = loc'[c].generation
                              /\ v.epoch = loc'[c].epoch
  BY Zenon DEF ViewInv
<1>1. v.slot \in Slots
  BY Types DEF ViewType, View
<1>2. loc[c].slot = NoSlot
  BY AtFacts, Zenon DEF Idle, CallInv, ControlInv
<1>3. BufferOwned(c, v)
  BY <1>1, <1>2, ProtocolAssumption, Zenon DEF CallInv, ViewInv
<1>4. BufferOwned(c, v)'
  BY <1>1, <1>3, JournalLeaves, SameEpoch, Zenon DEF BufferOwned, SameFields
<1> QED
  BY <1>3, <1>4, Zenon DEF BufferOwned

LEMMA GoodSendCall ==
  ASSUME TypeOK, NoLeakedToken, NEW c \in Components, CallInv(c), SendCall(c)
  PROVE  Good(c)
<1> USE Types
<1>1. PICK v \in views[c], l \in Links :
        /\ l[1] = c
        /\ BufferOwned(c, v)
        /\ slot' = [slot EXCEPT ![v.slot].prevSequence = slot[v.slot].sequence]
        /\ loc' = [loc EXCEPT ![c] =
                     [NoCall EXCEPT !.slot = v.slot, !.generation = v.generation,
                                    !.peer = l[2], !.epoch = v.epoch]]
  BY Zenon DEF SendCall
<1>2. Idle(c) /\ pc[c].op = "NONE" /\ pc[c].at = "idle"
  BY AtFacts, Zenon DEF SendCall, Idle
<1>3. Moves(c, "SEND", "token")
  BY EnterMoves, Zenon DEF SendCall, Kinds, Labels
<1>4. v.slot \in Slots /\ v.generation \in Nat /\ v.epoch \in Nat
  BY DEF ViewType, View
<1>5. l = <<c, l[2]>> /\ l[2] \in Components
  BY <1>1, LinkPair, Zenon
<1>6. /\ LocType'
      /\ \A d \in Components \ {c} : loc'[d] = loc[d]
      /\ loc'[c].slot = v.slot
      /\ loc'[c].generation = v.generation
      /\ loc'[c].peer = l[2]
      /\ loc'[c].epoch = v.epoch
  <2> DEFINE r == [NoCall EXCEPT !.slot = v.slot, !.generation = v.generation,
                                 !.peer = l[2], !.epoch = v.epoch]
  <2>2. /\ r \in Locals /\ r.slot = v.slot /\ r.generation = v.generation
        /\ r.peer = l[2] /\ r.epoch = v.epoch
    BY <1>4, <1>5, TokenTypes, Zenon DEF NoCall, Locals, States
  <2>3. loc' = [loc EXCEPT ![c] = r]
    BY <1>1, Zenon
  <2> HIDE DEF r
  <2> QED
    BY <2>2, <2>3, LocalsUpdate, Zenon
<1>7. Journals(v.slot)
  BY <1>1, <1>4, FieldTypes, SequenceJournal, Zenon
<1>8. ring' = ring /\ life' = life /\ views' = views
  BY Zenon DEF SendCall
<1>9. TypeOK' /\ Frame(c)
  BY <1>3, <1>6, <1>7, <1>8, Zenon
     DEF TypeOK, Moves, Frame, LocType, PcType, Journals, OnlySlot, SlotType
<1>10. TokenStep(c) /\ FieldStep(c)
  BY <1>2, <1>4, <1>7, JournalLeaves, LeavesSlots, Zenon DEF HoldsToken
<1>11. RingStep(c)
  BY <1>1, <1>2, <1>6, <1>8, QuietRing DEF Sending, BufferOwned
<1>12. SendInv(c)'
  BY <1>1, <1>3, <1>4, <1>5, <1>6, <1>7, <1>8, SameEpoch
     DEF SendInv, Mine, Here, BufferOwned, Journals, SameFields, Moves
<1>13. ControlInv(c)' /\ TokenInv(c)'
  BY <1>3, <1>4, <1>6, Zenon DEF ControlInv, TokenInv, Steps, Moves, HoldsToken, InClaim
<1>14. ViewInv(c)'
  BY <1>1, <1>2, <1>3, <1>4, <1>6, <1>7, <1>8, EntryViews, Zenon DEF Moves, BufferOwned
<1>15. CallInv(c)'
  BY <1>3, <1>12, <1>13, <1>14, CallInvOf, Zenon DEF Moves
<1> QED
  BY <1>9, <1>10, <1>11, <1>15, Zenon DEF Good

\* A return to the application that leaves the buffer owned by the caller.
LEMMA OwnedViews ==
  ASSUME TypeOK, NEW c \in Components, CallInv(c), loc[c].slot \in Slots,
         pc[c].op = "ROLLBACK" => pc[c].at \notin {"undo", "lost"},
         Mine(c), Here(c).state = "OWNED", life' = life, views' = views,
         OnlySlot(loc[c].slot), SameFields(loc[c].slot),
         slot'[loc[c].slot].state = "OWNED", loc'[c] = NoCall
  PROVE  ViewInv(c)'
<1>1. \A v \in views[c] : v.slot = loc[c].slot =>
        v.generation = loc[c].generation /\ v.epoch = loc[c].epoch
  BY Zenon DEF CallInv, ViewInv
<1>2. \A v \in views[c] : v.slot = loc[c].slot => BufferOwned(c, v)'
  BY <1>1, SameEpoch, Zenon DEF BufferOwned, Mine, Here, SameFields
<1> QED
  BY <1>2, ReturnViews, Zenon DEF CallInv, OnlySlot

LEMMA GoodSendStep ==
  ASSUME TypeOK, NoLeakedToken, NEW c \in Components, CallInv(c),
         SendToken(c) \/ SendClaim(c) \/ SendUndo(c) \/ SendPublish(c) \/ SendClear(c)
  PROVE  Good(c)
<1> USE Types
<1>1. CASE SendToken(c)
  <2>1. pc[c].op = "SEND" /\ pc[c].at = "token" /\ loc[c].slot \in Slots
    BY <1>1, AtFacts, HasSlot DEF SendToken, CasToken
  <2>2. CASE Here(c).token = NoToken
    <3>1. /\ Inner(c, "claim")
          /\ SetsToken(loc[c].slot, Token("SEND", c, loc[c].epoch))
          /\ TokenStep(c) /\ FieldStep(c) /\ TokenInv(c)'
      BY <1>1, <2>2, TokenTaken, Zenon DEF SendToken, CasToken, Kinds
    <3>2. SendInv(c)'
      BY <2>1, <3>1, SameEpoch, Zenon
         DEF SendInv, CallInv, Inner, Moves, Mine, Here, SetsToken, SameFields
    <3> QED
      BY <2>1, <3>1, <3>2, InnerWithin, GoodWithin, Zenon
         DEF SetsToken, OnlySlot, Steps, Inner
  <2>3. CASE Here(c).token # NoToken
    <3>1. /\ Moves(c, "NONE", "idle") /\ LocType' /\ loc'[c] = NoCall
          /\ \A d \in Components \ {c} : loc'[d] = loc[d]
          /\ slot' = slot /\ ring' = ring /\ life' = life /\ views' = views
      BY <1>1, <2>3, Returns, Zenon DEF SendToken, CasToken
    <3>2. TokenStep(c) /\ FieldStep(c)
      BY <2>1, <3>1, LeavesSlots, Zenon DEF HoldsToken, SameFields
    <3>3. Mine(c) /\ Here(c).state = "OWNED"
      BY <2>1, Zenon DEF CallInv, SendInv
    <3>4. ViewInv(c)'
      BY <2>1, <3>1, <3>3, OwnedViews, Zenon DEF OnlySlot, SameFields, SlotType, Here
    <3> QED
      BY <2>1, <3>1, <3>2, <3>4, GoodReturn, Zenon DEF ViewType, SlotType
  <2> QED
    BY <2>2, <2>3, Zenon
<1>2. CASE SendClaim(c)
  <2>1. pc[c].op = "SEND" /\ pc[c].at = "claim" /\ loc[c].slot \in Slots
    BY <1>2, AtFacts, HasSlot DEF SendClaim, CasState
  <2>2. CASE /\ Here(c).state = "OWNED"
             /\ SetsState(loc[c].slot, "CLAIMING")
             /\ Inner(c, "fill")
    <3>1. TokenStep(c) /\ FieldStep(c) /\ TokenInv(c)'
      BY <2>1, <2>2, ClaimTaken, Zenon DEF CallInv, SendInv, Mine
    <3>2. SendInv(c)'
      BY <2>1, <2>2, SameEpoch, Zenon
         DEF SendInv, CallInv, Inner, Moves, Mine, Here, SetsState, SameFields
    <3> QED
      BY <2>1, <2>2, <3>1, <3>2, InnerWithin, GoodWithin, Zenon
         DEF SetsState, OnlySlot, Steps, Inner
  <2>3. CASE slot' = slot /\ Inner(c, "undo")
    <3>1. TokenStep(c) /\ FieldStep(c) /\ TokenInv(c)'
      BY <2>1, <2>3, ClaimFails, Zenon
    <3>2. SendInv(c)'
      BY <2>1, <2>3, SameEpoch, Zenon DEF SendInv, CallInv, Inner, Moves, Mine, Here
    <3> QED
      BY <2>1, <2>3, <3>1, <3>2, InnerWithin, GoodWithin, Zenon
         DEF Steps, SlotType, Inner
  <2> QED
    BY <1>2, <2>1, <2>2, <2>3, CasStateEffect, Zenon DEF SendClaim
<1>3. CASE SendUndo(c)
  <2>1. /\ pc[c].op = "SEND" /\ pc[c].at = "undo" /\ loc[c].slot \in Slots
        /\ SetsToken(loc[c].slot, NoToken)
        /\ Moves(c, "NONE", "idle") /\ LocType' /\ loc'[c] = NoCall
        /\ \A d \in Components \ {c} : loc'[d] = loc[d]
        /\ ring' = ring /\ life' = life /\ views' = views
    BY <1>3, ClearAndReturnEffect, Zenon DEF SendUndo, CallInv
  <2>2. TokenStep(c) /\ FieldStep(c)
    BY <2>1, HasToken, ClearsToken, Zenon DEF HoldsToken, Here
  <2>3. Mine(c) /\ Here(c).state = "OWNED"
    BY <2>1, Zenon DEF CallInv, SendInv
  <2>4. ViewInv(c)'
    BY <2>1, <2>3, OwnedViews, Zenon DEF SetsToken, Here
  <2> QED
    BY <2>1, <2>2, <2>4, GoodReturn, Zenon DEF ViewType, SetsToken, OnlySlot
<1>4. CASE SendPublish(c)
  <2>1. /\ pc[c].op = "SEND" /\ pc[c].at = "publish" /\ loc[c].slot \in Slots
        /\ InClaim(c)
    BY <1>4, AtFacts, HasSlot DEF SendPublish, Publish, InClaim
  <2>2. SetsState(loc[c].slot, "TRANSFER") /\ Inner(c, "clear")
    BY <1>4, <2>1, PublishEffect, Zenon DEF SendPublish, Labels, States
  <2>3. TokenStep(c) /\ FieldStep(c) /\ TokenInv(c)'
    BY <2>1, <2>2, ClaimEnds, Zenon
  <2>4. SendInv(c)'
    BY <2>1, <2>2, SameEpoch, Zenon
       DEF SendInv, Mine, Transferring, Here, CallInv, Inner, Moves, SetsState,
           SameFields
  <2> QED
    BY <2>1, <2>2, <2>3, <2>4, InnerWithin, GoodWithin, Zenon
       DEF SetsState, OnlySlot, Steps, Inner
<1>5. CASE SendClear(c)
  <2>1. /\ pc[c].op = "SEND" /\ pc[c].at = "clear" /\ loc[c].slot \in Slots
        /\ SetsToken(loc[c].slot, NoToken) /\ Inner(c, "push")
    BY <1>5, ClearAndGotoEffect, Zenon DEF SendClear, CallInv, Labels
  <2>2. TokenStep(c) /\ FieldStep(c)
    BY <2>1, HasToken, ClearsToken, Zenon DEF HoldsToken, Here
  <2>3. TokenInv(c)'
    BY <2>1, Zenon DEF TokenInv, HoldsToken, InClaim, Inner, Moves
  <2>4. SendInv(c)'
    BY <2>1, SameEpoch, Zenon
       DEF SendInv, Mine, Transferring, Here, CallInv, Inner, Moves, SetsToken,
           SameFields
  <2> QED
    BY <2>1, <2>2, <2>3, <2>4, InnerWithin, GoodWithin, Zenon
       DEF SetsToken, OnlySlot, Steps, Inner
<1> QED
  BY <1>1, <1>2, <1>3, <1>4, <1>5, Zenon

LEMMA GoodSendFill ==
  ASSUME TypeOK, NoLeakedToken, NEW c \in Components, CallInv(c), SendFill(c)
  PROVE  Good(c)
<1> USE Types
<1>1. /\ pc[c].op = "SEND" /\ pc[c].at = "fill" /\ loc[c].slot \in Slots
      /\ InClaim(c)
  BY AtFacts, HasSlot DEF SendFill, InClaim
<1>2. /\ <<c, loc[c].peer>> \in Links /\ loc[c].peer \in Components
      /\ Mine(c) /\ Here(c).state = "CLAIMING"
      /\ Here(c) \in SlotControl /\ Here(c).sequence + 1 \in Nat
  <2>1. <<c, loc[c].peer>> \in Links /\ Mine(c)
    BY <1>1, Zenon DEF CallInv, SendInv
  <2>2. loc[c].peer \in Components
    BY <2>1, LinkPair, Zenon
  <2>3. Here(c).state = "CLAIMING"
    BY <1>1, HasToken, Zenon DEF HoldsToken, InClaim
  <2>4. Here(c) \in SlotControl /\ Here(c).sequence + 1 \in Nat
    BY <1>1, FieldTypes DEF Here, SlotType
  <2> QED
    BY <2>1, <2>2, <2>3, <2>4, Zenon
<1> DEFINE new == [Here(c) EXCEPT !.next = loc[c].peer, !.source = c,
                     !.sourceEpoch = Here(c).epoch, !.sourceHops = Here(c).hops,
                     !.sequence = Here(c).sequence + 1]
<1>3. CASE /\ slot' = [slot EXCEPT ![loc[c].slot] = new]
           /\ loc' = [loc EXCEPT ![c].sequence = Here(c).sequence + 1]
           /\ Goto(c, "publish")
  <2>1. /\ new \in SlotControl
        /\ new.token = Here(c).token /\ new.state = "CLAIMING"
        /\ new.generation = Here(c).generation /\ new.owner = Here(c).owner
        /\ new.epoch = Here(c).epoch /\ new.next = loc[c].peer
        /\ new.sequence = Here(c).sequence + 1
    BY <1>2, FieldTypes, Zenon DEF SlotControl
  <2> HIDE DEF new
  <2>2. OnlySlot(loc[c].slot) /\ slot'[loc[c].slot] = new
    BY <1>1, <1>3, <2>1, RecordUpdate, Zenon
  <2>3. /\ Within(c, "publish")
        /\ loc'[c].epoch = loc[c].epoch
        /\ loc'[c].generation = loc[c].generation
        /\ loc'[c].peer = loc[c].peer
        /\ loc'[c].sequence = Here(c).sequence + 1
    <3>1. Moves(c, pc[c].op, "publish")
      BY <1>3, GotoMoves, Zenon DEF Labels
    <3>2. /\ LocType' /\ loc'[c].slot = loc[c].slot
          /\ \A d \in Components \ {c} : loc'[d] = loc[d]
          /\ loc'[c].epoch = loc[c].epoch
          /\ loc'[c].generation = loc[c].generation
          /\ loc'[c].peer = loc[c].peer
          /\ loc'[c].sequence = Here(c).sequence + 1
      BY <1>2, <1>3 DEF LocType, Locals
    <3> QED
      BY <3>1, <3>2, Zenon DEF Within, SendFill
  <2>4. TokenStep(c) /\ FieldStep(c) /\ TokenInv(c)'
    BY <1>1, <2>1, <2>2, <2>3, ClaimWrites, Zenon DEF Here
  <2>5. SendInv(c)'
    <3>1. Mine(c)'
      BY <1>2, <2>1, <2>2, <2>3, SameEpoch, Zenon DEF Mine, Here, Within
    <3>2. Transferring(c)'
      <4>1. Here(c)'.next = loc'[c].peer /\ Here(c)'.sequence = loc'[c].sequence
        BY <2>1, <2>2, <2>3, Zenon DEF Here, Within
      <4>2. Here(c).sequence \in Nat /\ loc'[c].sequence > 0
        <5>1. Here(c).sequence \in Nat
          BY <1>1, FieldTypes, Zenon DEF Here
        <5> QED
          BY <2>3, <5>1
      <4> QED
        BY <3>1, <4>1, <4>2, Zenon DEF Transferring
    <3> QED
      BY <1>1, <1>2, <2>3, <3>1, <3>2, Zenon DEF SendInv, Within, Moves
  <2> QED
    BY <1>1, <2>2, <2>3, <2>4, <2>5, GoodWithin, Zenon DEF OnlySlot, Steps
<1>4. CASE /\ slot' = [slot EXCEPT ![loc[c].slot].state = "OWNED"]
           /\ Goto(c, "undo")
           /\ UNCHANGED loc
  <2>1. SetsState(loc[c].slot, "OWNED") /\ Inner(c, "undo")
    BY <1>1, <1>4, StateUpdate, GotoMoves, Zenon DEF States, Labels, Inner, SendFill
  <2>2. TokenStep(c) /\ FieldStep(c) /\ TokenInv(c)'
    BY <1>1, <2>1, ClaimEnds, Zenon
  <2>3. SendInv(c)'
    BY <1>1, <1>2, <2>1, SameEpoch, Zenon
       DEF SendInv, Mine, Here, Inner, Moves, SetsState, SameFields
  <2> QED
    BY <1>1, <2>1, <2>2, <2>3, InnerWithin, GoodWithin, Zenon
       DEF SetsState, OnlySlot, Steps, Inner
<1> QED
  BY <1>3, <1>4, Zenon DEF SendFill, Here

LEMMA GoodSendPush ==
  ASSUME TypeOK, NoLeakedToken, NEW c \in Components, CallInv(c), SendPush(c)
  PROVE  Good(c)
<1> USE Types
<1>1. /\ pc[c].op = "SEND" /\ pc[c].at = "push" /\ loc[c].slot \in Slots
      /\ slot' = slot /\ life' = life
  <2>1. pc[c].op = "SEND" /\ pc[c].at = "push" /\ slot' = slot /\ life' = life
    BY AtFacts, Zenon DEF SendPush
  <2> QED
    BY <2>1, HasSlot, Zenon
<1>2. /\ <<c, loc[c].peer>> \in Links /\ loc[c].peer \in Components
      /\ Transferring(c) /\ Mine(c) /\ Here(c).state = "TRANSFER"
  BY <1>1, LinkPair, Zenon DEF CallInv, SendInv, Transferring
<1>3. CASE /\ ring' = [ring EXCEPT ![<<c, loc[c].peer>>] = Pushed(@, Descriptor(c))]
           /\ DropView(c)
           /\ Return(c)
  <2>1. PICK l \in Links : l = <<c, loc[c].peer>> /\ l[1] = c /\ l[2] = loc[c].peer
    BY <1>2, Zenon
  <2>2. PICK m \in Message : m = Descriptor(c)
    BY <1>1, <1>2, LocalTypes, Zenon DEF Descriptor, Message
  <2>3. /\ m.slot = loc[c].slot /\ m.generation = loc[c].generation
        /\ m.source = c /\ m.destination = loc[c].peer
        /\ m.sequence = loc[c].sequence
    BY <2>2, Zenon DEF Descriptor
  <2>4. /\ \A k \in Links \ {l} : ring'[k] = ring[k]
        /\ ring'[l] = Pushed(ring[l], m)
        /\ DOMAIN ring' = Links /\ ring' = [k \in Links |-> ring'[k]]
    BY <1>3, <2>1, <2>2, Zenon DEF RingType
  <2>5. ring[l] \in Seq(Message) /\ DOMAIN ring[l] = 1..Len(ring[l])
    BY DEF RingType
  <2>6. /\ Moves(c, "NONE", "idle") /\ LocType' /\ loc'[c] = NoCall
        /\ \A d \in Components \ {c} : loc'[d] = loc[d]
    BY <1>3, Returns, Zenon
  <2>7. Live(l, m)'
    BY <1>1, <1>2, <2>1, <2>3, <2>6
       DEF Live, Mine, Transferring, Here, Sending, Moves
  <2>8. \/ ring'[l] = ring[l]
        \/ /\ \A i \in 1..Len(ring[l]) : ring[l][i] # m
           /\ ring'[l] = Append(ring[l], m)
    BY <2>4, <2>5, Zenon DEF Pushed
  <2>9. RingType'
    <3>1. \A k \in Links : ring'[k] \in Seq(Message)
      BY <2>4, <2>5, <2>8 DEF RingType
    <3> QED
      BY <2>4, <3>1, Zenon DEF RingType
  <2>10. RingStep(c)
    <3>1. ASSUME NEW k \in Links
          PROVE  \/ ring'[k] = ring[k] /\ (k[2] = c /\ Done(k) => Done(k)')
                 \/ /\ k[1] = c /\ pc[c].op = "SEND"
                    /\ \E n \in Message :
                         /\ n.source = k[1] /\ n.destination = k[2]
                         /\ Live(k, n)'
                         /\ \A i \in 1..Len(ring[k]) : ring[k][i] # n
                         /\ ring'[k] = Append(ring[k], n)
      <4>1. k[2] = c => ~Done(k)
        BY <1>1, Zenon DEF Done
      <4>2. CASE k # l
        BY <2>4, <4>1, <4>2, Zenon
      <4>3. CASE k = l
        BY <1>1, <2>1, <2>3, <2>7, <2>8, <4>1, <4>3, Zenon
      <4> QED
        BY <4>2, <4>3, Zenon
    <3>2. \A s \in Slots : ~Sending(c, s)'
      BY <2>6, Zenon DEF Sending, Moves
    <3>3. \A k \in Links, s \in Slots : k[2] = c => ~Claiming(k, s)
      BY <1>1, AtFacts DEF Claiming
    <3> QED
      BY <3>1, <3>2, <3>3, Zenon DEF RingStep
  <2>11. /\ ViewType'
         /\ \A d \in Components \ {c} : views'[d] = views[d]
         /\ views'[c] = {v \in views[c] : v.slot # loc[c].slot}
    BY <1>3, Zenon DEF DropView, ViewType
  <2>12. TypeOK' /\ Frame(c)
    BY <1>1, <2>6, <2>9, <2>11, Zenon
       DEF TypeOK, Moves, Frame, SlotType, RingType, LifeType, ViewType, PcType,
           LocType
  <2>13. TokenStep(c) /\ FieldStep(c)
    BY <1>1, LeavesSlots, Zenon DEF HoldsToken, SameFields
  <2>14. ViewInv(c)'
    BY <1>1, <2>6, <2>11, ReturnViews, Zenon DEF CallInv
  <2>15. CallInv(c)'
    BY <2>6, <2>14, IdleCallInv, Zenon DEF Moves
  <2> QED
    BY <2>10, <2>12, <2>13, <2>15, Zenon DEF Good
<1>4. CASE /\ Enter(c, "ROLLBACK", "check")
           /\ UNCHANGED <<ring, views, loc>>
  <2>1. Moves(c, "ROLLBACK", "check") /\ loc' = loc /\ views' = views /\ ring' = ring
    BY <1>4, EnterMoves, Zenon DEF Kinds, Labels
  <2>2. TypeOK' /\ Frame(c)
    BY <1>1, <2>1, Zenon DEF TypeOK, Moves, Frame, PcType
  <2>3. TokenStep(c) /\ FieldStep(c)
    BY <1>1, LeavesSlots, Zenon DEF HoldsToken, SameFields
  <2>4. RingStep(c)
    BY <1>1, <2>1, QuietRing, Zenon DEF Sending
  <2>5. ControlInv(c)' /\ TokenInv(c)'
    BY <1>1, <2>1, Zenon DEF ControlInv, TokenInv, Steps, HoldsToken, InClaim, Moves
  <2>6. RollbackInv(c)'
    BY <1>1, <1>2, <2>1, SameEpoch, Zenon
       DEF RollbackInv, Transferring, Mine, Here, Moves
  <2>7. ViewInv(c)'
    BY <1>1, <2>1, InnerViews, Zenon DEF CallInv, Moves
  <2>8. CallInv(c)'
    BY <2>1, <2>5, <2>6, <2>7, CallInvOf, Zenon DEF Moves
  <2> QED
    BY <2>2, <2>3, <2>4, <2>8, Zenon DEF Good
<1> QED
  BY <1>3, <1>4, Zenon DEF SendPush

LEMMA GoodSend ==
  ASSUME TypeOK, NoLeakedToken, NEW c \in Components, CallInv(c),
         SendCall(c) \/ SendStep(c)
  PROVE  Good(c)
BY GoodSendCall, GoodSendStep, GoodSendFill, GoodSendPush, Zenon DEF SendStep

(***************************************************************************)
(* rollback_transfer.                                                      *)
(***************************************************************************)
LEMMA GoodRollbackFill ==
  ASSUME TypeOK, NoLeakedToken, NEW c \in Components, CallInv(c), RollbackFill(c)
  PROVE  Good(c)
<1> USE Types
<1>1. /\ pc[c].op = "ROLLBACK" /\ pc[c].at = "fill" /\ loc[c].slot \in Slots
      /\ InClaim(c) /\ HoldsToken(c)
  BY AtFacts, HasSlot DEF RollbackFill, InClaim, HoldsToken
<1>2. /\ Mine(c) /\ Transferring(c) /\ loc[c].sequence > 0
      /\ Here(c).token = Token("ROLLBACK", c, loc[c].epoch)
      /\ Here(c).token.comp = c /\ Here(c).token.kind = "ROLLBACK"
      /\ Here(c).state = "CLAIMING" /\ Here(c) \in SlotControl
      /\ loc[c].sequence - 1 \in Nat
  <2>1. Mine(c) /\ Transferring(c) /\ loc[c].sequence > 0
    BY <1>1, Zenon DEF CallInv, RollbackInv
  <2>2. /\ Here(c).token = Token("ROLLBACK", c, loc[c].epoch)
        /\ Here(c).token.comp = c /\ Here(c).token.kind = "ROLLBACK"
        /\ Here(c).state = "CLAIMING"
    BY <1>1, HasToken, Zenon
  <2>3. Here(c) \in SlotControl
    BY <1>1, Zenon DEF SlotType, Here
  <2>4. loc[c].sequence - 1 \in Nat
    BY <2>1, LocalTypes
  <2> QED
    BY <2>1, <2>2, <2>3, <2>4, Zenon
<1> DEFINE new == [Here(c) EXCEPT !.next = NoComponent,
                                  !.sequence = loc[c].sequence - 1]
<1>3. CASE slot' = [slot EXCEPT ![loc[c].slot] = new]
  <2>1. /\ new \in SlotControl
        /\ new.token = Here(c).token /\ new.state = "CLAIMING"
        /\ new.generation = Here(c).generation /\ new.owner = Here(c).owner
        /\ new.epoch = Here(c).epoch
    BY <1>2, Zenon DEF SlotControl
  <2> HIDE DEF new
  <2>2. OnlySlot(loc[c].slot) /\ slot'[loc[c].slot] = new
    BY <1>1, <1>3, <2>1, RecordUpdate, Zenon
  <2>3. CASE Goto(c, "publish")
    <3>1. Inner(c, "publish")
      BY <2>3, GotoMoves, Zenon DEF Labels, Inner, RollbackFill
    <3>2. TokenStep(c) /\ FieldStep(c) /\ TokenInv(c)'
      BY <1>1, <2>1, <2>2, <3>1, InnerWithin, ClaimWrites, Zenon DEF Here, Inner
    <3>3. RollbackInv(c)'
      BY <1>1, <1>2, <2>1, <2>2, <3>1, SameEpoch, Zenon
         DEF RollbackInv, Mine, Here, Inner, Moves
    <3> QED
      BY <1>1, <2>2, <3>1, <3>2, <3>3, InnerWithin, GoodWithin, Zenon
         DEF OnlySlot, Steps, Inner
  <2>4. CASE Goto(c, "lost")
    <3>1. Inner(c, "lost")
      BY <2>4, GotoMoves, Zenon DEF Labels, Inner, RollbackFill
    <3>2. TokenStep(c) /\ FieldStep(c)
      BY <1>1, <1>2, <2>1, <2>2, WritesSlot, Zenon DEF Here
    <3>3. TokenInv(c)' /\ RollbackInv(c)'
      BY <1>1, <1>2, <3>1, Zenon
         DEF TokenInv, RollbackInv, HoldsToken, InClaim, Inner, Moves
    <3> QED
      BY <1>1, <2>2, <3>1, <3>2, <3>3, InnerWithin, GoodWithin, Zenon
         DEF OnlySlot, Steps, Inner
  <2> QED
    BY <1>2, <2>3, <2>4, Zenon
       DEF RollbackFill, RollbackAccepts, Mine, Transferring
<1> QED
  BY <1>2, <1>3, Zenon DEF RollbackFill, RollbackAccepts, Mine, Transferring, Here

LEMMA GoodRollback ==
  ASSUME TypeOK, NoLeakedToken, NEW c \in Components, CallInv(c), RollbackStep(c)
  PROVE  Good(c)
<1> USE Types
<1>1. CASE RollbackCheck(c)
  <2>1. /\ pc[c].op = "ROLLBACK" /\ pc[c].at = "check" /\ loc[c].slot \in Slots
        /\ Here(c).state = "TRANSFER" /\ Transferring(c) /\ Mine(c)
    BY <1>1, AtFacts, HasSlot DEF RollbackCheck, CallInv, RollbackInv
  <2>2. loc[c].sequence - 1 \in Nat
    BY <2>1, LocalTypes DEF Transferring
  <2>3. Inner(c, "token")
    BY <1>1, <2>1, GotoMoves, Zenon DEF RollbackCheck, Inner, Labels
  <2>4. Journals(loc[c].slot)
    BY <1>1, <2>1, <2>2, SequenceJournal, Zenon DEF RollbackCheck
  <2>5. TokenStep(c) /\ FieldStep(c)
    BY <2>1, <2>4, JournalLeaves, LeavesSlots, Zenon DEF HoldsToken
  <2>6. TokenInv(c)' /\ RollbackInv(c)'
    BY <2>1, <2>3, <2>4, SameEpoch, Zenon
       DEF TokenInv, RollbackInv, Transferring, Mine, Here, HoldsToken, InClaim,
           Inner, Moves, Journals, SameFields
  <2> QED
    BY <2>1, <2>3, <2>4, <2>5, <2>6, InnerWithin, GoodWithin, Zenon
       DEF Journals, OnlySlot, Steps, Inner
<1>2. CASE RollbackToken(c)
  <2>1. /\ pc[c].op = "ROLLBACK" /\ pc[c].at = "token" /\ loc[c].slot \in Slots
        /\ Here(c).state = "TRANSFER" /\ Transferring(c) /\ Mine(c)
    BY <1>2, AtFacts, HasSlot DEF RollbackToken, CasToken, CallInv, RollbackInv
  <2>2. CASE Here(c).token = NoToken
    <3>1. /\ Inner(c, "claim")
          /\ SetsToken(loc[c].slot, Token("ROLLBACK", c, loc[c].epoch))
          /\ TokenStep(c) /\ FieldStep(c) /\ TokenInv(c)'
      BY <1>2, <2>2, TokenTaken, Zenon DEF RollbackToken, CasToken, Kinds
    <3>2. RollbackInv(c)'
      BY <2>1, <3>1, SameEpoch, Zenon
         DEF RollbackInv, Transferring, Mine, Here, Inner, Moves, SetsToken,
             SameFields
    <3> QED
      BY <2>1, <3>1, <3>2, InnerWithin, GoodWithin, Zenon
         DEF SetsToken, OnlySlot, Steps, Inner
  <2>3. CASE Here(c).token # NoToken
    <3>1. Inner(c, "lost") /\ slot' = slot
      BY <1>2, <2>3, GotoMoves, Zenon DEF RollbackToken, CasToken, Inner, Labels
    <3>2. TokenStep(c) /\ FieldStep(c)
      BY <2>1, <3>1, LeavesSlots, Zenon DEF HoldsToken, SameFields
    <3>3. TokenInv(c)' /\ RollbackInv(c)'
      BY <2>1, <3>1, Zenon
         DEF TokenInv, RollbackInv, Transferring, HoldsToken, InClaim, Inner, Moves
    <3> QED
      BY <2>1, <3>1, <3>2, <3>3, InnerWithin, GoodWithin, Zenon
         DEF Steps, SlotType, Inner
  <2> QED
    BY <2>2, <2>3, Zenon
<1>3. CASE RollbackClaim(c)
  <2>1. /\ pc[c].op = "ROLLBACK" /\ pc[c].at = "claim" /\ loc[c].slot \in Slots
        /\ Here(c).state = "TRANSFER" /\ Transferring(c) /\ Mine(c)
    BY <1>3, AtFacts, HasSlot DEF RollbackClaim, CasState, CallInv, RollbackInv
  <2>2. SetsState(loc[c].slot, "CLAIMING") /\ Inner(c, "fill")
    BY <1>3, <2>1, StateUpdate, GotoMoves, Zenon
       DEF RollbackClaim, CasState, States, Labels, Inner
  <2>3. TokenStep(c) /\ FieldStep(c) /\ TokenInv(c)'
    BY <2>1, <2>2, ClaimTaken, Zenon DEF Mine, Sending
  <2>4. RollbackInv(c)'
    BY <2>1, <2>2, SameEpoch, Zenon
       DEF RollbackInv, Transferring, Mine, Here, Inner, Moves, SetsState,
           SameFields
  <2> QED
    BY <2>1, <2>2, <2>3, <2>4, InnerWithin, GoodWithin, Zenon
       DEF SetsState, OnlySlot, Steps, Inner
<1>4. CASE RollbackUndo(c)
  <2>1. /\ pc[c].op = "ROLLBACK" /\ pc[c].at = "undo" /\ loc[c].slot \in Slots
        /\ SetsToken(loc[c].slot, NoToken) /\ Inner(c, "lost")
    BY <1>4, ClearAndGotoEffect, Zenon DEF RollbackUndo, CallInv, Labels
  <2>2. TokenStep(c) /\ FieldStep(c)
    BY <2>1, HasToken, ClearsToken, Zenon DEF HoldsToken, Here
  <2>3. TokenInv(c)' /\ RollbackInv(c)'
    BY <2>1, Zenon DEF TokenInv, RollbackInv, CallInv, HoldsToken, InClaim, Inner, Moves
  <2> QED
    BY <2>1, <2>2, <2>3, InnerWithin, GoodWithin, Zenon
       DEF SetsToken, OnlySlot, Steps, Inner
<1>5. CASE RollbackPublish(c)
  <2>1. /\ pc[c].op = "ROLLBACK" /\ pc[c].at = "publish" /\ loc[c].slot \in Slots
        /\ InClaim(c) /\ Mine(c)
    BY <1>5, AtFacts, HasSlot
       DEF RollbackPublish, Publish, InClaim, CallInv, RollbackInv
  <2>2. SetsState(loc[c].slot, "OWNED") /\ Inner(c, "clear")
    BY <1>5, <2>1, PublishEffect, Zenon DEF RollbackPublish, Labels, States
  <2>3. TokenStep(c) /\ FieldStep(c) /\ TokenInv(c)'
    BY <2>1, <2>2, ClaimEnds, Zenon
  <2>4. RollbackInv(c)'
    BY <2>1, <2>2, SameEpoch, Zenon
       DEF RollbackInv, CallInv, Mine, Here, Inner, Moves, SetsState, SameFields
  <2> QED
    BY <2>1, <2>2, <2>3, <2>4, InnerWithin, GoodWithin, Zenon
       DEF SetsState, OnlySlot, Steps, Inner
<1>6. CASE RollbackClear(c)
  <2>1. /\ pc[c].op = "ROLLBACK" /\ pc[c].at = "clear" /\ loc[c].slot \in Slots
        /\ SetsToken(loc[c].slot, NoToken)
        /\ Moves(c, "NONE", "idle") /\ LocType' /\ loc'[c] = NoCall
        /\ \A d \in Components \ {c} : loc'[d] = loc[d]
        /\ ring' = ring /\ life' = life /\ views' = views
    BY <1>6, ClearAndReturnEffect, Zenon DEF RollbackClear, CallInv
  <2>2. TokenStep(c) /\ FieldStep(c)
    BY <2>1, HasToken, ClearsToken, Zenon DEF HoldsToken, Here
  <2>3. Mine(c) /\ Here(c).state = "OWNED"
    BY <2>1, Zenon DEF CallInv, RollbackInv
  <2>4. ViewInv(c)'
    BY <2>1, <2>3, OwnedViews, Zenon DEF SetsToken, Here
  <2> QED
    BY <2>1, <2>2, <2>4, GoodReturn, Zenon DEF ViewType, SetsToken, OnlySlot
<1>7. CASE RollbackLost(c)
  <2>1. /\ pc[c].op = "ROLLBACK" /\ pc[c].at = "lost" /\ loc[c].slot \in Slots
        /\ Moves(c, "NONE", "idle") /\ LocType' /\ loc'[c] = NoCall
        /\ \A d \in Components \ {c} : loc'[d] = loc[d]
        /\ slot' = slot /\ ring' = ring /\ life' = life
    <3>1. /\ pc[c].op = "ROLLBACK" /\ pc[c].at = "lost" /\ Return(c)
          /\ slot' = slot /\ ring' = ring /\ life' = life
      BY <1>7, AtFacts, Zenon DEF RollbackLost
    <3> QED
      BY <3>1, HasSlot, Returns, Zenon
  <2>2. /\ ViewType'
        /\ \A d \in Components \ {c} : views'[d] = views[d]
        /\ views'[c] = {v \in views[c] : v.slot # loc[c].slot}
    BY <1>7, Zenon DEF RollbackLost, DropView, ViewType
  <2>3. TokenStep(c) /\ FieldStep(c)
    BY <2>1, LeavesSlots, Zenon DEF HoldsToken, SameFields
  <2>4. ViewInv(c)'
    BY <2>1, <2>2, ReturnViews, Zenon DEF CallInv
  <2> QED
    BY <2>1, <2>2, <2>3, <2>4, GoodReturn, Zenon DEF SlotType
<1> QED
  BY <1>1, <1>2, <1>3, <1>4, <1>5, <1>6, <1>7, GoodRollbackFill, Zenon DEF RollbackStep

(***************************************************************************)
(* zipc_buffer_release.                                                    *)
(***************************************************************************)
LEMMA GoodReleaseCall ==
  ASSUME TypeOK, NoLeakedToken, NEW c \in Components, CallInv(c), ReleaseCall(c)
  PROVE  Good(c)
<1> USE Types
<1>1. PICK v \in views[c] :
        /\ BufferOwned(c, v)
        /\ slot' = [slot EXCEPT ![v.slot] =
                      [@ EXCEPT !.prevRegion = slot[v.slot].region,
                                !.prevOwner = slot[v.slot].owner,
                                !.prevEpoch = slot[v.slot].epoch]]
        /\ loc' = [loc EXCEPT ![c] =
                     [NoCall EXCEPT !.slot = v.slot, !.generation = v.generation,
                                    !.epoch = v.epoch]]
  BY Zenon DEF ReleaseCall
<1>2. Idle(c) /\ pc[c].op = "NONE" /\ pc[c].at = "idle"
  BY AtFacts, Zenon DEF ReleaseCall, Idle
<1>3. Moves(c, "RELEASE", "token")
  BY EnterMoves, Zenon DEF ReleaseCall, Kinds, Labels
<1>4. v.slot \in Slots /\ v.generation \in Nat /\ v.epoch \in Nat
  BY DEF ViewType, View
<1>5. /\ LocType'
      /\ \A d \in Components \ {c} : loc'[d] = loc[d]
      /\ loc'[c].slot = v.slot
      /\ loc'[c].generation = v.generation
      /\ loc'[c].epoch = v.epoch
  <2> DEFINE r == [NoCall EXCEPT !.slot = v.slot, !.generation = v.generation,
                                 !.epoch = v.epoch]
  <2>1. /\ r \in Locals /\ r.slot = v.slot /\ r.generation = v.generation
        /\ r.epoch = v.epoch
    BY <1>4, TokenTypes, Zenon DEF NoCall, Locals, States
  <2>2. loc' = [loc EXCEPT ![c] = r]
    BY <1>1, Zenon
  <2> HIDE DEF r
  <2> QED
    BY <2>1, <2>2, LocalsUpdate, Zenon
<1>6. Journals(v.slot)
  <2> DEFINE r == [slot[v.slot] EXCEPT !.prevRegion = slot[v.slot].region,
                                       !.prevOwner = slot[v.slot].owner,
                                       !.prevEpoch = slot[v.slot].epoch]
  <2>1. /\ r \in SlotControl
        /\ r.token = slot[v.slot].token /\ r.state = slot[v.slot].state
        /\ r.generation = slot[v.slot].generation
        /\ r.owner = slot[v.slot].owner /\ r.next = slot[v.slot].next
        /\ r.epoch = slot[v.slot].epoch /\ r.sequence = slot[v.slot].sequence
    <3>1. slot[v.slot] \in SlotControl
      BY <1>4, Zenon DEF SlotType
    <3>2. PICK w \in SlotControl : w = slot[v.slot]
      BY <3>1, Zenon
    <3> QED
      BY <3>2, Zenon DEF SlotControl
  <2>2. slot' = [slot EXCEPT ![v.slot] = r]
    BY <1>1, Zenon
  <2> HIDE DEF r
  <2>3. OnlySlot(v.slot) /\ slot'[v.slot] = r
    BY <1>4, <2>1, <2>2, RecordUpdate, Zenon
  <2> QED
    BY <2>1, <2>3, Zenon DEF Journals, SameFields
<1>7. ring' = ring /\ life' = life /\ views' = views
  BY Zenon DEF ReleaseCall
<1>8. TypeOK' /\ Frame(c)
  BY <1>3, <1>5, <1>6, <1>7, Zenon
     DEF TypeOK, Moves, Frame, LocType, PcType, Journals, OnlySlot, SlotType
<1>9. TokenStep(c) /\ FieldStep(c)
  BY <1>2, <1>4, <1>6, JournalLeaves, LeavesSlots, Zenon DEF HoldsToken
<1>10. RingStep(c)
  BY <1>2, <1>3, <1>7, QuietRing, Zenon DEF Sending, Moves
<1>11. ReleaseInv(c)'
  BY <1>1, <1>3, <1>4, <1>5, <1>6, <1>7, SameEpoch
     DEF ReleaseInv, Mine, Here, BufferOwned, Journals, SameFields, Moves
<1>12. ControlInv(c)' /\ TokenInv(c)'
  BY <1>3, <1>4, <1>5, Zenon DEF ControlInv, TokenInv, Steps, Moves, HoldsToken, InClaim
<1>13. ViewInv(c)'
  BY <1>1, <1>2, <1>3, <1>4, <1>5, <1>6, <1>7, EntryViews DEF Moves, BufferOwned
<1>14. CallInv(c)'
  BY <1>3, <1>11, <1>12, <1>13, CallInvOf, Zenon DEF Moves
<1> QED
  BY <1>8, <1>9, <1>10, <1>14, Zenon DEF Good

LEMMA GoodReleaseFill ==
  ASSUME TypeOK, NoLeakedToken, NEW c \in Components, CallInv(c), ReleaseFill(c)
  PROVE  Good(c)
<1> USE Types
<1>1. /\ pc[c].op = "RELEASE" /\ pc[c].at = "fill" /\ loc[c].slot \in Slots
      /\ InClaim(c)
  BY AtFacts, HasSlot DEF ReleaseFill, InClaim
<1>2. /\ Mine(c) /\ Here(c).state = "CLAIMING" /\ Here(c) \in SlotControl
  BY <1>1, HasToken, Zenon DEF CallInv, ReleaseInv, Here, SlotType, HoldsToken, InClaim
<1> DEFINE new == [Here(c) EXCEPT !.owner = NoComponent, !.next = NoComponent,
                                  !.region = "EMPTY"]
<1>3. CASE slot' = [slot EXCEPT ![loc[c].slot] = new] /\ Goto(c, "publish")
  <2>1. /\ new \in SlotControl
        /\ new.token = Here(c).token /\ new.state = "CLAIMING"
    BY <1>2, Zenon DEF SlotControl
  <2> HIDE DEF new
  <2>2. OnlySlot(loc[c].slot) /\ slot'[loc[c].slot] = new
    BY <1>1, <1>3, <2>1, RecordUpdate, Zenon
  <2>3. Inner(c, "publish")
    BY <1>3, GotoMoves, Zenon DEF Labels, Inner, ReleaseFill
  <2>4. TokenStep(c) /\ FieldStep(c) /\ TokenInv(c)'
    BY <1>1, <2>1, <2>2, <2>3, InnerWithin, ClaimWrites, Zenon DEF Here, Inner
  <2>5. ReleaseInv(c)'
    BY <1>1, <2>3, Zenon DEF ReleaseInv, Inner, Moves
  <2> QED
    BY <1>1, <2>2, <2>3, <2>4, <2>5, InnerWithin, GoodWithin, Zenon
       DEF OnlySlot, Steps, Inner
<1>4. CASE slot' = [slot EXCEPT ![loc[c].slot].state = "OWNED"] /\ Goto(c, "undo")
  <2>1. SetsState(loc[c].slot, "OWNED") /\ Inner(c, "undo")
    BY <1>1, <1>4, StateUpdate, GotoMoves, Zenon DEF States, Labels, Inner, ReleaseFill
  <2>2. TokenStep(c) /\ FieldStep(c) /\ TokenInv(c)'
    BY <1>1, <2>1, ClaimEnds, Zenon
  <2>3. ReleaseInv(c)'
    BY <1>1, <1>2, <2>1, SameEpoch, Zenon
       DEF ReleaseInv, Mine, Here, Inner, Moves, SetsState, SameFields
  <2> QED
    BY <1>1, <2>1, <2>2, <2>3, InnerWithin, GoodWithin, Zenon
       DEF SetsState, OnlySlot, Steps, Inner
<1> QED
  BY <1>3, <1>4, Zenon DEF ReleaseFill, Here

LEMMA GoodRelease ==
  ASSUME TypeOK, NoLeakedToken, NEW c \in Components, CallInv(c),
         ReleaseCall(c) \/ ReleaseStep(c)
  PROVE  Good(c)
<1> USE Types
<1>1. CASE ReleaseToken(c)
  <2>1. /\ pc[c].op = "RELEASE" /\ pc[c].at = "token" /\ loc[c].slot \in Slots
        /\ Mine(c) /\ Here(c).state = "OWNED"
    BY <1>1, AtFacts, HasSlot DEF ReleaseToken, CasToken, CallInv, ReleaseInv
  <2>2. CASE Here(c).token = NoToken
    <3>1. /\ Inner(c, "claim")
          /\ SetsToken(loc[c].slot, Token("RELEASE", c, loc[c].epoch))
          /\ TokenStep(c) /\ FieldStep(c) /\ TokenInv(c)'
      BY <1>1, <2>2, TokenTaken, Zenon DEF ReleaseToken, CasToken, Kinds
    <3>2. ReleaseInv(c)'
      BY <2>1, <3>1, SameEpoch, Zenon
         DEF ReleaseInv, Inner, Moves, Mine, Here, SetsToken, SameFields
    <3> QED
      BY <2>1, <3>1, <3>2, InnerWithin, GoodWithin, Zenon
         DEF SetsToken, OnlySlot, Steps, Inner
  <2>3. CASE Here(c).token # NoToken
    <3>1. /\ Moves(c, "NONE", "idle") /\ LocType' /\ loc'[c] = NoCall
          /\ \A d \in Components \ {c} : loc'[d] = loc[d]
          /\ slot' = slot /\ ring' = ring /\ life' = life /\ views' = views
      BY <1>1, <2>3, Returns, Zenon DEF ReleaseToken, CasToken
    <3>2. TokenStep(c) /\ FieldStep(c)
      BY <2>1, <3>1, LeavesSlots, Zenon DEF HoldsToken, SameFields
    <3>3. ViewInv(c)'
      BY <2>1, <3>1, OwnedViews, Zenon DEF OnlySlot, SameFields, SlotType, Here
    <3> QED
      BY <2>1, <3>1, <3>2, <3>3, GoodReturn, Zenon DEF ViewType, SlotType
  <2> QED
    BY <2>2, <2>3, Zenon
<1>2. CASE ReleaseClaim(c)
  <2>1. /\ pc[c].op = "RELEASE" /\ pc[c].at = "claim" /\ loc[c].slot \in Slots
        /\ Mine(c) /\ Here(c).state = "OWNED"
    BY <1>2, AtFacts, HasSlot DEF ReleaseClaim, CasState, CallInv, ReleaseInv
  <2>2. SetsState(loc[c].slot, "CLAIMING") /\ Inner(c, "fill")
    BY <1>2, <2>1, StateUpdate, GotoMoves, Zenon
       DEF ReleaseClaim, CasState, States, Labels, Inner
  <2>3. TokenStep(c) /\ FieldStep(c) /\ TokenInv(c)'
    BY <2>1, <2>2, ClaimTaken, Zenon DEF Mine
  <2>4. ReleaseInv(c)'
    BY <2>1, <2>2, SameEpoch, Zenon
       DEF ReleaseInv, Mine, Here, Inner, Moves, SetsState, SameFields
  <2> QED
    BY <2>1, <2>2, <2>3, <2>4, InnerWithin, GoodWithin, Zenon
       DEF SetsState, OnlySlot, Steps, Inner
<1>3. CASE ReleaseUndo(c)
  <2>1. /\ pc[c].op = "RELEASE" /\ pc[c].at = "undo" /\ loc[c].slot \in Slots
        /\ SetsToken(loc[c].slot, NoToken)
        /\ Moves(c, "NONE", "idle") /\ LocType' /\ loc'[c] = NoCall
        /\ \A d \in Components \ {c} : loc'[d] = loc[d]
        /\ ring' = ring /\ life' = life /\ views' = views
    BY <1>3, ClearAndReturnEffect, Zenon DEF ReleaseUndo, CallInv
  <2>2. TokenStep(c) /\ FieldStep(c)
    BY <2>1, HasToken, ClearsToken, Zenon DEF HoldsToken, Here
  <2>3. Mine(c) /\ Here(c).state = "OWNED"
    BY <2>1, Zenon DEF CallInv, ReleaseInv
  <2>4. ViewInv(c)'
    BY <2>1, <2>3, OwnedViews, Zenon DEF SetsToken, Here
  <2> QED
    BY <2>1, <2>2, <2>4, GoodReturn, Zenon DEF ViewType, SetsToken, OnlySlot
<1>4. CASE ReleasePublish(c)
  <2>1. /\ pc[c].op = "RELEASE" /\ pc[c].at = "publish" /\ loc[c].slot \in Slots
        /\ InClaim(c)
    BY <1>4, AtFacts, HasSlot DEF ReleasePublish, Publish, InClaim
  <2>2. SetsState(loc[c].slot, "FREE") /\ Inner(c, "clear")
    BY <1>4, <2>1, PublishEffect, Zenon DEF ReleasePublish, Labels, States
  <2>3. TokenStep(c) /\ FieldStep(c) /\ TokenInv(c)'
    BY <2>1, <2>2, ClaimEnds, Zenon
  <2>4. ReleaseInv(c)'
    BY <2>1, <2>2, Zenon DEF ReleaseInv, Inner, Moves
  <2> QED
    BY <2>1, <2>2, <2>3, <2>4, InnerWithin, GoodWithin, Zenon
       DEF SetsState, OnlySlot, Steps, Inner
<1>5. CASE ReleaseClear(c)
  <2>1. /\ pc[c].op = "RELEASE" /\ pc[c].at = "clear" /\ loc[c].slot \in Slots
        /\ SetsToken(loc[c].slot, NoToken)
        /\ Moves(c, "NONE", "idle") /\ LocType' /\ loc'[c] = NoCall
        /\ \A d \in Components \ {c} : loc'[d] = loc[d]
        /\ ring' = ring /\ life' = life
    BY <1>5, ClearAndReturnEffect, Zenon DEF ReleaseClear, CallInv
  <2>2. /\ ViewType'
        /\ \A d \in Components \ {c} : views'[d] = views[d]
        /\ views'[c] = {v \in views[c] : v.slot # loc[c].slot}
    BY <1>5, Zenon DEF ReleaseClear, DropView, ViewType
  <2>3. TokenStep(c) /\ FieldStep(c)
    BY <2>1, HasToken, ClearsToken, Zenon DEF HoldsToken, Here
  <2>4. ViewInv(c)'
    BY <2>1, <2>2, ReturnViews, Zenon DEF CallInv, SetsToken, OnlySlot
  <2> QED
    BY <2>1, <2>2, <2>3, <2>4, GoodReturn, Zenon DEF SetsToken, OnlySlot
<1> QED
  BY <1>1, <1>2, <1>3, <1>4, <1>5, GoodReleaseCall, GoodReleaseFill, Zenon
     DEF ReleaseStep

(***************************************************************************)
(* zipc_recv.                                                              *)
(***************************************************************************)
Dones == {"publish", "free", "clear", "undo", "commit", "drop"}

\* The converse, for the state after a step.
LEMMA ReceiveInv ==
  ASSUME NEW c \in Components, Receives(c)',
         pc'[c].at # "check" => loc'[c].epoch = RegisteredEpoch(c)',
         pc'[c].at \in {"check", "token", "claim", "fill"} => Awaits(c)',
         pc'[c].at \in {"check", "token", "claim"} => Here(c)'.state = "TRANSFER",
         pc'[c].at = "fill" =>
           Here(c)'.state = "CLAIMING" /\ At(c, "RECEIVE", "fill")',
         pc'[c].at \in {"publish", "clear", "commit"} => Mine(c)',
         pc'[c].at \in {"clear", "commit"} => Here(c)'.state = "OWNED"
  PROVE  RecvInv(c)'
<1>1. PICK l \in Links : l = <<loc'[c].peer, c>> /\ l[1] = loc'[c].peer /\ l[2] = c
  BY Zenon DEF Receives
<1>2. PICK m : m = ring'[l][1]
  BY Zenon
<1>3. m.slot = loc'[c].slot /\ m.generation = loc'[c].generation
      /\ m.sequence = loc'[c].sequence
  BY <1>1, <1>2, Zenon DEF Receives
<1>4. pc'[c].at \in {"check", "token", "claim", "fill"} => Live(l, m)'
  BY <1>1, <1>3, Zenon DEF Live, Awaits, Here, Claiming
<1> QED
  BY <1>1, <1>2, <1>4, Zenon DEF RecvInv, Receives

\* A good step within a receive.
LEMMA GoodReceiving ==
  ASSUME TypeOK, NEW c \in Components, CallInv(c), pc[c].op = "RECEIVE",
         NEW label \in Steps("RECEIVE"), Within(c, label), SlotType',
         loc'[c].peer = loc[c].peer,
         \A r \in Slots \ {loc[c].slot} : slot'[r] = slot[r],
         pc[c].at \in Dones \cup {"fill"} => label \in Dones,
         TokenStep(c), FieldStep(c), TokenInv(c)', RecvInv(c)'
  PROVE  Good(c)
<1>1. TypeOK' /\ Frame(c)
  BY WithinFrame, Zenon
<1>2. pc'[c].op = "RECEIVE" /\ pc'[c].at = label
  BY Zenon DEF Within, Moves
<1>3. loc[c].slot \in Slots
  BY HasSlot, Zenon DEF CallInv, ControlInv, Steps
<1>4. ControlInv(c)'
  BY <1>2, <1>3, Zenon DEF ControlInv, Within
<1>5. ViewInv(c)'
  BY <1>2, <1>3, InnerViews, Zenon DEF CallInv, Within
<1>6. CallInv(c)'
  BY <1>2, <1>4, <1>5, CallInvOf, Zenon
<1>7. RingStep(c)
  <2>1. \A l \in Links : l[2] = c /\ Done(l) => Done(l)'
    BY <1>2, Zenon DEF Done, Dones
  <2>2. \A l \in Links, s \in Slots : l[2] = c /\ Claiming(l, s) => Done(l)'
    BY <1>2, AtFacts DEF Done, Dones, Claiming, At
  <2>3. \A s \in Slots : ~Sending(c, s)'
    BY <1>2, Zenon DEF Sending
  <2> QED
    BY <2>1, <2>2, <2>3, Zenon DEF RingStep, Within
<1> QED
  BY <1>1, <1>6, <1>7, Zenon DEF Good

\* A step of the receiver that keeps the descriptor and the slot's fields.
LEMMA StillReceives ==
  ASSUME NEW c \in Components, NEW label, Within(c, label), Receives(c),
         loc'[c].peer = loc[c].peer, loc'[c].generation = loc[c].generation,
         loc'[c].sequence = loc[c].sequence
  PROVE  Receives(c)'
BY Zenon DEF Within, Receives

LEMMA StillAwaits ==
  ASSUME NEW c \in Components, NEW label, Within(c, label), Awaits(c),
         pc[c].op = "RECEIVE", loc[c].peer \in Components,
         loc'[c].peer = loc[c].peer, loc'[c].generation = loc[c].generation,
         loc'[c].sequence = loc[c].sequence, SameFields(loc[c].slot)
  PROVE  Awaits(c)'
<1>1. ~Sending(loc[c].peer, loc[c].slot)'
  <2>1. CASE loc[c].peer = c
    BY <2>1, Zenon DEF Sending, Within, Moves
  <2>2. CASE loc[c].peer # c
    BY <2>2 DEF Sending, Within, Moves, Awaits
  <2> QED
    BY <2>1, <2>2, Zenon
<1> QED
  BY <1>1, Zenon DEF Awaits, Within, SameFields, Here, Sending

LEMMA GoodRecvCall ==
  ASSUME TypeOK, NoLeakedToken, RingInv, NEW c \in Components, CallInv(c),
         RecvCall(c)
  PROVE  Good(c)
<1> USE Types
<1>1. PICK l \in Links :
        /\ l[2] = c
        /\ ring[l] # <<>>
        /\ loc' = [loc EXCEPT ![c] =
                     [NoCall EXCEPT !.slot = Head(ring[l]).slot, !.peer = l[1],
                                    !.generation = Head(ring[l]).generation,
                                    !.sequence = Head(ring[l]).sequence]]
  BY Zenon DEF RecvCall
<1>2. pc[c].op = "NONE" /\ pc[c].at = "idle"
  BY AtFacts, Zenon DEF RecvCall, Idle
<1>3. Moves(c, "RECEIVE", "check")
  BY EnterMoves, Zenon DEF RecvCall, Kinds, Labels
<1>4. /\ slot' = slot /\ ring' = ring /\ life' = life /\ views' = views
      /\ l[1] \in Components /\ l = <<l[1], c>>
  BY <1>1, LinkPair, Zenon DEF RecvCall
<1>5. PICK m \in Message : m = ring[l][1] /\ m = Head(ring[l]) /\ 1 \in 1..Len(ring[l])
  <2>1. ring[l] \in Seq(Message)
    BY Zenon DEF RingType
  <2> QED
    BY <1>1, <2>1
<1>6. Live(l, m) /\ slot[m.slot].state = "TRANSFER"
  <2>1. Live(l, m) \/ Done(l)
    BY <1>5 DEF RingInv
  <2>2. ~Done(l) /\ ~Claiming(l, m.slot)
    BY <1>1, <1>2, AtFacts DEF Done, Claiming, At
  <2> QED
    BY <2>1, <2>2, Zenon DEF Live
<1>7. m.slot \in Slots /\ m.generation \in Nat /\ m.sequence \in Nat
  BY Zenon DEF Message
<1>8. /\ LocType'
      /\ \A d \in Components \ {c} : loc'[d] = loc[d]
      /\ loc'[c].slot = m.slot
      /\ loc'[c].generation = m.generation
      /\ loc'[c].sequence = m.sequence
      /\ loc'[c].peer = l[1]
  <2> DEFINE r == [NoCall EXCEPT !.slot = m.slot, !.peer = l[1],
                                 !.generation = m.generation,
                                 !.sequence = m.sequence]
  <2>1. /\ r \in Locals /\ r.slot = m.slot /\ r.generation = m.generation
        /\ r.sequence = m.sequence /\ r.peer = l[1]
    BY <1>4, <1>7, TokenTypes, Zenon DEF NoCall, Locals, States
  <2>2. loc' = [loc EXCEPT ![c] = r]
    BY <1>1, <1>5, Zenon
  <2> HIDE DEF r
  <2> QED
    BY <2>1, <2>2, LocalsUpdate, Zenon
<1>9. TypeOK' /\ Frame(c)
  BY <1>3, <1>4, <1>8, Zenon DEF TypeOK, Moves, Frame, LocType, PcType
<1>10. TokenStep(c) /\ FieldStep(c)
  BY <1>2, <1>4, LeavesSlots, Zenon DEF HoldsToken, SameFields
<1>11. RingStep(c)
  BY <1>2, <1>3, <1>4, QuietRing, Zenon DEF Sending, Moves
<1>12. Receives(c)'
  BY <1>1, <1>4, <1>5, <1>8 DEF Receives
<1>13. Awaits(c)'
  <2>1. ~Sending(l[1], m.slot)'
    <3>1. CASE l[1] = c
      BY <1>3, <3>1, Zenon DEF Sending, Moves
    <3>2. CASE l[1] # c
      BY <1>3, <1>4, <1>6, <1>8, <3>2, Zenon DEF Sending, Moves, Live
    <3> QED
      BY <3>1, <3>2, Zenon
  <2> QED
    BY <1>1, <1>4, <1>6, <1>8, <2>1, Zenon DEF Awaits, Live, Here, Sending
<1>14. RecvInv(c)'
  BY <1>3, <1>4, <1>6, <1>8, <1>12, <1>13, ReceiveInv, Zenon DEF Moves, Here
<1>15. ControlInv(c)' /\ TokenInv(c)'
  BY <1>3, <1>7, <1>8, Zenon DEF ControlInv, TokenInv, Steps, Moves, HoldsToken, InClaim
<1>16. ViewInv(c)'
  <2> SUFFICES ASSUME NEW v \in views[c]
               PROVE  v.slot # loc'[c].slot /\ BufferOwned(c, v)'
    BY <1>4, Zenon DEF ViewInv
  <2>1. v.slot \in Slots
    BY DEF ViewType, View
  <2>2. BufferOwned(c, v)
    BY <1>2, <2>1, ProtocolAssumption, Zenon DEF CallInv, ViewInv, ControlInv
  <2>3. BufferOwned(c, v)'
    BY <1>4, <2>2, SameEpoch, Zenon DEF BufferOwned
  <2> QED
    BY <1>6, <1>8, <2>2, <2>3, Zenon DEF BufferOwned
<1>17. CallInv(c)'
  BY <1>3, <1>14, <1>15, <1>16, CallInvOf, Zenon DEF Moves
<1> QED
  BY <1>9, <1>10, <1>11, <1>17, Zenon DEF Good

\* No token of a sender is on a slot that waits for its receiver: the sender
\* would still be sending.
LEMMA NoSendToken ==
  ASSUME TypeOK, NoLeakedToken, \A d \in Components : CallInv(d),
         NEW c \in Components, pc[c].op = "RECEIVE", pc[c].at = "token"
  PROVE  Here(c).token.kind # "SEND"
<1> SUFFICES ASSUME Here(c).token.kind = "SEND" PROVE FALSE
  BY Zenon
<1>1. loc[c].slot \in Slots /\ Here(c).state = "TRANSFER" /\ Awaits(c)
  BY HasSlot, ReceiveFacts, Zenon
<1>2. Here(c).token \in Tokens /\ Here(c).token # NoToken
  BY <1>1, Types, FieldTypes, TokenFields DEF Here, NoToken
<1>3. PICK d : d = Here(c).token.comp
  BY Zenon
<1>4. d \in Components
  BY <1>2, <1>3, Zenon DEF Tokens
<1>5. HoldsToken(d) /\ loc[d].slot = loc[c].slot
  BY <1>1, <1>2, <1>3, Zenon DEF NoLeakedToken, Here
<1>6. pc[d].op = "SEND"
  BY <1>4, <1>5, HasToken, Zenon DEF Here
<1>7. Here(d).owner = d
  BY <1>4, <1>6, Zenon DEF CallInv, SendInv, Mine
<1> QED
  BY <1>1, <1>5, <1>6, <1>7, Zenon DEF Awaits, Sending, Here

LEMMA GoodRecvStart ==
  ASSUME TypeOK, NoLeakedToken, \A d \in Components : CallInv(d),
         NEW c \in Components,
         RecvCheck(c) \/ RecvToken(c) \/ RecvSteal(c) \/ RecvSwap(c) \/ RecvClaim(c)
  PROVE  Good(c)
<1> USE Types
<1>0. CallInv(c)
  BY Zenon
<1>1. CASE RecvCheck(c)
  <2>1. /\ pc[c].op = "RECEIVE" /\ pc[c].at = "check" /\ loc[c].slot \in Slots
        /\ Receives(c) /\ Awaits(c) /\ Here(c).state = "TRANSFER"
        /\ loc[c].peer \in Components
    BY <1>0, <1>1, AtFacts, HasSlot, ReceiveFacts DEF RecvCheck
  <2>2. RegisteredEpoch(c) \in Nat
    BY Zenon DEF RegisteredEpoch, LifeType
  <2>3. /\ LocType' /\ loc'[c].slot = loc[c].slot
        /\ \A d \in Components \ {c} : loc'[d] = loc[d]
        /\ loc'[c].epoch = RegisteredEpoch(c)
        /\ loc'[c].generation = loc[c].generation
        /\ loc'[c].peer = loc[c].peer /\ loc'[c].sequence = loc[c].sequence
    BY <1>1, <2>1, <2>2 DEF RecvCheck, LocType, Locals
  <2>4. Within(c, "token") /\ slot' = slot
    BY <1>1, <2>1, <2>3, GotoMoves, Zenon DEF RecvCheck, Within, Labels
  <2>5. TokenStep(c) /\ FieldStep(c)
    BY <2>1, <2>4, LeavesSlots, Zenon DEF HoldsToken, SameFields
  <2>6. TokenInv(c)'
    BY <2>4, Zenon DEF TokenInv, HoldsToken, InClaim, Within, Moves
  <2>7. Receives(c)' /\ Awaits(c)'
    BY <2>1, <2>3, <2>4, StillReceives, StillAwaits, Zenon DEF SameFields
  <2>8. RecvInv(c)'
    BY <2>1, <2>3, <2>4, <2>7, SameEpoch, ReceiveInv, Zenon DEF Within, Moves, Here
  <2> QED
    BY <1>0, <2>1, <2>3, <2>4, <2>5, <2>6, <2>8, GoodReceiving, Zenon
       DEF Steps, Dones, SlotType
<1>2. CASE RecvToken(c)
  <2>1. /\ pc[c].op = "RECEIVE" /\ pc[c].at = "token" /\ loc[c].slot \in Slots
        /\ Receives(c) /\ Awaits(c) /\ Here(c).state = "TRANSFER"
        /\ loc[c].peer \in Components /\ loc[c].epoch = RegisteredEpoch(c)
    BY <1>0, <1>2, AtFacts, HasSlot, ReceiveFacts DEF RecvToken, CasToken
  <2>2. CASE Here(c).token = NoToken
    <3>1. /\ Inner(c, "claim")
          /\ SetsToken(loc[c].slot, Token("RECEIVE", c, loc[c].epoch))
          /\ TokenStep(c) /\ FieldStep(c) /\ TokenInv(c)'
      BY <1>0, <1>2, <2>2, TokenTaken, Zenon DEF RecvToken, CasToken, Kinds
    <3>2. Within(c, "claim") /\ loc' = loc /\ life' = life
      BY <3>1, InnerWithin, Zenon DEF Inner
    <3>3. Receives(c)' /\ Awaits(c)'
      BY <2>1, <3>1, <3>2, StillReceives, StillAwaits, Zenon DEF SetsToken
    <3>4. RecvInv(c)'
      BY <2>1, <3>1, <3>2, <3>3, SameEpoch, ReceiveInv, Zenon
         DEF Within, Moves, Here, SetsToken
    <3> QED
      BY <1>0, <2>1, <3>1, <3>2, <3>4, GoodReceiving, Zenon
         DEF Steps, Dones, SetsToken, OnlySlot
  <2>3. CASE Here(c).token # NoToken
    <3>1. Inner(c, "drop") /\ slot' = slot
      BY <1>2, <2>1, <2>3, NoSendToken, GotoMoves, Zenon
         DEF RecvToken, CasToken, Inner, Labels
    <3>2. Within(c, "drop") /\ loc' = loc /\ life' = life
      BY <3>1, InnerWithin, Zenon DEF Inner
    <3>3. TokenStep(c) /\ FieldStep(c)
      BY <2>1, <3>1, LeavesSlots, Zenon DEF HoldsToken, SameFields
    <3>4. TokenInv(c)'
      BY <3>1, Zenon DEF TokenInv, HoldsToken, InClaim, Inner, Moves
    <3>5. Receives(c)'
      BY <2>1, <3>2, StillReceives, Zenon
    <3>6. RecvInv(c)'
      BY <2>1, <3>2, <3>5, SameEpoch, ReceiveInv, Zenon DEF Within, Moves
    <3> QED
      BY <1>0, <2>1, <3>1, <3>2, <3>3, <3>4, <3>6, GoodReceiving, Zenon
         DEF Steps, Dones, SlotType
  <2> QED
    BY <2>2, <2>3, Zenon
<1>3. CASE RecvSteal(c) \/ RecvSwap(c)
  BY <1>0, <1>3, AtFacts DEF RecvSteal, RecvSwap, CallInv, ControlInv, Steps
<1>4. CASE RecvClaim(c)
  <2>1. /\ pc[c].op = "RECEIVE" /\ pc[c].at = "claim" /\ loc[c].slot \in Slots
        /\ Receives(c) /\ Awaits(c) /\ Here(c).state = "TRANSFER"
        /\ loc[c].peer \in Components /\ loc[c].epoch = RegisteredEpoch(c)
    BY <1>0, <1>4, AtFacts, HasSlot, ReceiveFacts DEF RecvClaim, CasState
  <2>2. SetsState(loc[c].slot, "CLAIMING") /\ Inner(c, "fill")
    BY <1>4, <2>1, StateUpdate, GotoMoves, Zenon
       DEF RecvClaim, CasState, States, Labels, Inner
  <2>3. Within(c, "fill") /\ loc' = loc /\ life' = life
    BY <2>2, InnerWithin, Zenon DEF Inner
  <2>4. At(c, "RECEIVE", "fill")'
    BY <1>4, <2>1, Zenon DEF RecvClaim, CasState, At, Goto, PcType, PCs
  <2>5. Claiming(<<Here(c).owner, c>>, loc[c].slot)'
    BY <2>1, <2>2, <2>3, <2>4, Zenon
       DEF Claiming, Awaits, SetsState, SameFields, Here
  <2>7. TokenStep(c) /\ FieldStep(c) /\ TokenInv(c)'
    BY <1>0, <2>1, <2>2, <2>5, ClaimTaken, Zenon DEF Awaits
  <2>8. Receives(c)' /\ Awaits(c)'
    BY <2>1, <2>2, <2>3, StillReceives, StillAwaits, Zenon DEF SetsState
  <2>9. RecvInv(c)'
    BY <2>1, <2>2, <2>3, <2>4, <2>8, SameEpoch, ReceiveInv, Zenon
       DEF Within, Moves, Here, SetsState
  <2> QED
    BY <1>0, <2>1, <2>2, <2>3, <2>7, <2>9, GoodReceiving, Zenon
       DEF Steps, Dones, SetsState, OnlySlot
<1> QED
  BY <1>1, <1>2, <1>3, <1>4, Zenon

LEMMA GoodRecvFill ==
  ASSUME TypeOK, NoLeakedToken, NEW c \in Components, CallInv(c), RecvFill(c)
  PROVE  Good(c)
<1> USE Types
<1>1. /\ pc[c].op = "RECEIVE" /\ pc[c].at = "fill" /\ loc[c].slot \in Slots
      /\ InClaim(c) /\ HoldsToken(c)
  BY AtFacts, HasSlot DEF RecvFill, InClaim, HoldsToken
<1>2. /\ Receives(c) /\ Awaits(c) /\ loc[c].peer \in Components
      /\ loc[c].epoch = RegisteredEpoch(c)
      /\ Here(c).state = "CLAIMING" /\ Here(c) \in SlotControl
      /\ Here(c).sourceHops + 1 \in Nat
  <2>1. /\ Receives(c) /\ Awaits(c) /\ loc[c].peer \in Components
        /\ loc[c].epoch = RegisteredEpoch(c)
    BY <1>1, ReceiveFacts, Zenon
  <2>2. Here(c).state = "CLAIMING"
    BY <1>1, HasToken, Zenon
  <2>3. Here(c) \in SlotControl /\ Here(c).sourceHops + 1 \in Nat
    BY <1>1, FieldTypes DEF SlotType, Here
  <2> QED
    BY <2>1, <2>2, <2>3, Zenon
<1> DEFINE received == [Here(c) EXCEPT !.owner = c, !.next = NoComponent,
                          !.epoch = loc[c].epoch, !.hops = Here(c).sourceHops + 1]
<1> DEFINE freed == [received EXCEPT !.owner = NoComponent, !.region = "EMPTY"]
<1>3. /\ received \in SlotControl
      /\ received.token = Here(c).token /\ received.state = "CLAIMING"
      /\ received.generation = Here(c).generation /\ received.owner = c
      /\ received.epoch = loc[c].epoch
  BY <1>2, LocalTypes, Zenon DEF SlotControl
<1>4. /\ freed \in SlotControl
      /\ freed.token = Here(c).token /\ freed.state = "CLAIMING"
  BY <1>3 DEF SlotControl
<1>6. /\ \/ slot' = [slot EXCEPT ![loc[c].slot] = received] /\ Goto(c, "publish")
         \/ slot' = [slot EXCEPT ![loc[c].slot] = freed] /\ Goto(c, "free")
         \/ /\ slot' = [slot EXCEPT ![loc[c].slot].state = "TRANSFER"]
            /\ Goto(c, "undo")
      /\ UNCHANGED <<ring, life, views, loc>>
  BY Zenon DEF RecvFill
<1> HIDE DEF received, freed
<1>7. CASE slot' = [slot EXCEPT ![loc[c].slot] = received] /\ Goto(c, "publish")
  <2>1. OnlySlot(loc[c].slot) /\ slot'[loc[c].slot] = received
    BY <1>1, <1>3, <1>7, RecordUpdate, Zenon
  <2>2. Inner(c, "publish")
    BY <1>6, <1>7, GotoMoves, Zenon DEF Labels, Inner
  <2>3. Within(c, "publish") /\ loc' = loc /\ life' = life
    BY <2>2, InnerWithin, Zenon DEF Inner
  <2>4. TokenStep(c) /\ FieldStep(c) /\ TokenInv(c)'
    BY <1>1, <1>3, <2>1, <2>3, ClaimWrites, Zenon DEF Here
  <2>5. Receives(c)' /\ Mine(c)'
    BY <1>2, <1>3, <2>1, <2>3, SameEpoch, StillReceives, Zenon DEF Mine, Here, Awaits
  <2>6. RecvInv(c)'
    BY <1>2, <2>3, <2>5, SameEpoch, ReceiveInv, Zenon DEF Within, Moves
  <2> QED
    BY <1>1, <2>1, <2>3, <2>4, <2>6, GoodReceiving, Zenon DEF Steps, Dones, OnlySlot
<1>8. CASE slot' = [slot EXCEPT ![loc[c].slot] = freed] /\ Goto(c, "free")
  <2>1. OnlySlot(loc[c].slot) /\ slot'[loc[c].slot] = freed
    BY <1>1, <1>4, <1>8, RecordUpdate, Zenon
  <2>2. Inner(c, "free")
    BY <1>6, <1>8, GotoMoves, Zenon DEF Labels, Inner
  <2>3. Within(c, "free") /\ loc' = loc /\ life' = life
    BY <2>2, InnerWithin, Zenon DEF Inner
  <2>4. TokenStep(c) /\ FieldStep(c) /\ TokenInv(c)'
    BY <1>1, <1>4, <2>1, <2>3, ClaimWrites, Zenon DEF Here
  <2>5. Receives(c)'
    BY <1>2, <2>3, StillReceives, Zenon
  <2>6. RecvInv(c)'
    BY <1>2, <2>3, <2>5, SameEpoch, ReceiveInv, Zenon DEF Within, Moves
  <2> QED
    BY <1>1, <2>1, <2>3, <2>4, <2>6, GoodReceiving, Zenon DEF Steps, Dones, OnlySlot
<1>9. CASE slot' = [slot EXCEPT ![loc[c].slot].state = "TRANSFER"] /\ Goto(c, "undo")
  <2>1. SetsState(loc[c].slot, "TRANSFER") /\ Inner(c, "undo")
    BY <1>1, <1>6, <1>9, StateUpdate, GotoMoves, Zenon DEF States, Labels, Inner
  <2>2. Within(c, "undo") /\ loc' = loc /\ life' = life
    BY <2>1, InnerWithin, Zenon DEF Inner
  <2>3. TokenStep(c) /\ FieldStep(c) /\ TokenInv(c)'
    BY <1>1, <2>1, ClaimEnds, Zenon
  <2>4. Receives(c)'
    BY <1>2, <2>2, StillReceives, Zenon
  <2>5. RecvInv(c)'
    BY <1>2, <2>2, <2>4, SameEpoch, ReceiveInv, Zenon DEF Within, Moves
  <2> QED
    BY <1>1, <2>1, <2>2, <2>3, <2>5, GoodReceiving, Zenon
       DEF Steps, Dones, SetsState, OnlySlot
<1> QED
  BY <1>6, <1>7, <1>8, <1>9, Zenon

LEMMA GoodRecvEnd ==
  ASSUME TypeOK, NoLeakedToken, NEW c \in Components, CallInv(c),
         RecvUndo(c) \/ RecvFree(c) \/ RecvPublish(c) \/ RecvClear(c)
  PROVE  Good(c)
<1> USE Types
<1>1. CASE RecvUndo(c)
  <2>1. /\ pc[c].op = "RECEIVE" /\ pc[c].at = "undo" /\ loc[c].slot \in Slots
        /\ SetsToken(loc[c].slot, NoToken) /\ Inner(c, "drop")
    BY <1>1, ClearAndGotoEffect, Zenon DEF RecvUndo, CallInv, Labels
  <2>2. Within(c, "drop") /\ loc' = loc /\ life' = life
    BY <2>1, InnerWithin, Zenon DEF Inner
  <2>3. TokenStep(c) /\ FieldStep(c)
    BY <2>1, HasToken, ClearsToken, Zenon DEF HoldsToken, Here
  <2>4. TokenInv(c)'
    BY <2>1, Zenon DEF TokenInv, HoldsToken, InClaim, Inner, Moves
  <2>5. Receives(c)' /\ loc[c].epoch = RegisteredEpoch(c)
    BY <2>1, <2>2, ReceiveFacts, StillReceives, Zenon
  <2>6. RecvInv(c)'
    BY <2>2, <2>5, SameEpoch, ReceiveInv, Zenon DEF Within, Moves
  <2> QED
    BY <2>1, <2>2, <2>3, <2>4, <2>6, GoodReceiving, Zenon
       DEF Steps, Dones, SetsToken, OnlySlot
<1>2. CASE RecvFree(c)
  <2>1. /\ pc[c].op = "RECEIVE" /\ pc[c].at = "free" /\ loc[c].slot \in Slots
        /\ InClaim(c)
    BY <1>2, AtFacts, HasSlot DEF RecvFree, Publish, InClaim
  <2>2. SetsState(loc[c].slot, "FREE") /\ Inner(c, "undo")
    BY <1>2, <2>1, PublishEffect, Zenon DEF RecvFree, Labels, States
  <2>3. Within(c, "undo") /\ loc' = loc /\ life' = life
    BY <2>2, InnerWithin, Zenon DEF Inner
  <2>4. TokenStep(c) /\ FieldStep(c) /\ TokenInv(c)'
    BY <2>1, <2>2, ClaimEnds, Zenon
  <2>5. Receives(c)' /\ loc[c].epoch = RegisteredEpoch(c)
    BY <2>1, <2>3, ReceiveFacts, StillReceives, Zenon
  <2>6. RecvInv(c)'
    BY <2>3, <2>5, SameEpoch, ReceiveInv, Zenon DEF Within, Moves
  <2> QED
    BY <2>1, <2>2, <2>3, <2>4, <2>6, GoodReceiving, Zenon
       DEF Steps, Dones, SetsState, OnlySlot
<1>3. CASE RecvPublish(c)
  <2>1. /\ pc[c].op = "RECEIVE" /\ pc[c].at = "publish" /\ loc[c].slot \in Slots
        /\ InClaim(c)
    BY <1>3, AtFacts, HasSlot DEF RecvPublish, Publish, InClaim
  <2>2. SetsState(loc[c].slot, "OWNED") /\ Inner(c, "clear")
    BY <1>3, <2>1, PublishEffect, Zenon DEF RecvPublish, Labels, States
  <2>3. Within(c, "clear") /\ loc' = loc /\ life' = life
    BY <2>2, InnerWithin, Zenon DEF Inner
  <2>4. TokenStep(c) /\ FieldStep(c) /\ TokenInv(c)'
    BY <2>1, <2>2, ClaimEnds, Zenon
  <2>5. Receives(c)' /\ loc[c].epoch = RegisteredEpoch(c) /\ Mine(c)
    BY <2>1, <2>3, ReceiveFacts, StillReceives, Zenon
  <2>6. Mine(c)' /\ Here(c)'.state = "OWNED"
    BY <2>2, <2>3, <2>5, SameEpoch, Zenon DEF Mine, Here, SetsState, SameFields
  <2>7. RecvInv(c)'
    BY <2>3, <2>5, <2>6, SameEpoch, ReceiveInv, Zenon DEF Within, Moves
  <2> QED
    BY <2>1, <2>2, <2>3, <2>4, <2>7, GoodReceiving, Zenon
       DEF Steps, Dones, SetsState, OnlySlot
<1>4. CASE RecvClear(c)
  <2>1. /\ pc[c].op = "RECEIVE" /\ pc[c].at = "clear" /\ loc[c].slot \in Slots
        /\ SetsToken(loc[c].slot, NoToken) /\ Inner(c, "commit")
    BY <1>4, ClearAndGotoEffect, Zenon DEF RecvClear, CallInv, Labels
  <2>2. Within(c, "commit") /\ loc' = loc /\ life' = life
    BY <2>1, InnerWithin, Zenon DEF Inner
  <2>3. TokenStep(c) /\ FieldStep(c)
    BY <2>1, HasToken, ClearsToken, Zenon DEF HoldsToken, Here
  <2>4. TokenInv(c)'
    BY <2>1, Zenon DEF TokenInv, HoldsToken, InClaim, Inner, Moves
  <2>5. /\ Receives(c)' /\ loc[c].epoch = RegisteredEpoch(c)
        /\ Mine(c) /\ Here(c).state = "OWNED"
    BY <2>1, <2>2, ReceiveFacts, StillReceives, Zenon
  <2>6. Mine(c)' /\ Here(c)'.state = "OWNED"
    BY <2>1, <2>2, <2>5, SameEpoch, Zenon DEF Mine, Here, SetsToken, SameFields
  <2>7. RecvInv(c)'
    BY <2>2, <2>5, <2>6, SameEpoch, ReceiveInv, Zenon DEF Within, Moves
  <2> QED
    BY <2>1, <2>2, <2>3, <2>4, <2>7, GoodReceiving, Zenon
       DEF Steps, Dones, SetsToken, OnlySlot
<1> QED
  BY <1>1, <1>2, <1>3, <1>4, Zenon

\* The descriptor at the head is committed: nothing else moves in the rings.
LEMMA GoodCommit ==
  ASSUME TypeOK, NoLeakedToken, NEW c \in Components, CallInv(c),
         pc[c].op = "RECEIVE", pc[c].at \in {"commit", "drop"},
         Commit(c), Return(c), slot' = slot, life' = life, ViewType',
         \A d \in Components \ {c} : views'[d] = views[d], ViewInv(c)'
  PROVE  Good(c)
<1> USE Types
<1>1. PICK l \in Links : /\ l = <<loc[c].peer, c>> /\ l[1] = loc[c].peer /\ l[2] = c
                         /\ ring[l] # <<>>
  BY ReceiveFacts, Zenon DEF Receives
<1>2. ring[l] \in Seq(Message)
  BY Zenon DEF RingType
<1>3. /\ Moves(c, "NONE", "idle") /\ LocType' /\ loc'[c] = NoCall
      /\ \A d \in Components \ {c} : loc'[d] = loc[d]
  BY Returns, Zenon
<1>4. ring' = [ring EXCEPT ![l] = Tail(ring[l])]
  BY <1>1, Zenon DEF Commit
<1>5. /\ ring'[l] = Tail(ring[l])
      /\ \A k \in Links \ {l} : ring'[k] = ring[k]
      /\ RingType'
  <2>1. Tail(ring[l]) \in Seq(Message)
    BY <1>1, <1>2
  <2> QED
    BY <1>4, <2>1, Zenon DEF RingType
<1>6. Done(l)
  BY <1>1, Zenon DEF Done
<1>7. RingStep(c)
  <2>1. \A k \in Links : k[2] = c /\ Done(k) => k = l
    BY <1>1, LinkPair DEF Done
  <2>2. \A k \in Links, s \in Slots : k[2] = c => ~Claiming(k, s)
    BY AtFacts DEF Claiming, At
  <2>3. \A s \in Slots : ~Sending(c, s)'
    BY <1>3, Zenon DEF Sending, Moves
  <2> QED
    BY <1>1, <1>3, <1>5, <1>6, <2>1, <2>2, <2>3, Zenon DEF RingStep, Moves
<1>8. TokenStep(c) /\ FieldStep(c)
  BY LeavesSlots, Zenon DEF HoldsToken, SameFields
<1>9. TypeOK' /\ Frame(c)
  BY <1>3, <1>5, Zenon
     DEF TypeOK, Moves, Frame, SlotType, RingType, LifeType, ViewType, PcType,
         LocType
<1>10. CallInv(c)'
  BY <1>3, IdleCallInv, Zenon DEF Moves
<1> QED
  BY <1>7, <1>8, <1>9, <1>10, Zenon DEF Good

LEMMA GoodReceive ==
  ASSUME TypeOK, NoLeakedToken, RingInv, \A d \in Components : CallInv(d),
         NEW c \in Components, RecvCall(c) \/ RecvStep(c)
  PROVE  Good(c)
<1> USE Types
<1>0. CallInv(c)
  BY Zenon
<1>1. CASE RecvCommit(c)
  <2>1. /\ pc[c].op = "RECEIVE" /\ pc[c].at = "commit" /\ loc[c].slot \in Slots
        /\ slot' = slot /\ life' = life
    <3>1. /\ pc[c].op = "RECEIVE" /\ pc[c].at = "commit"
          /\ slot' = slot /\ life' = life
      BY <1>1, AtFacts, Zenon DEF RecvCommit
    <3> QED
      BY <1>0, <3>1, HasSlot, Zenon
  <2>2. Mine(c) /\ Here(c).state = "OWNED"
    BY <1>0, <2>1, ReceiveFacts, Zenon
  <2>3. PICK new \in View :
          new = [slot |-> loc[c].slot, generation |-> loc[c].generation,
                 epoch |-> loc[c].epoch]
    BY <2>1, LocalTypes, Zenon DEF View
  <2>4. views' = [views EXCEPT ![c] = @ \cup {new}]
    BY <1>1, <2>3, Zenon DEF RecvCommit, AddView
  <2>5. ViewType' /\ \A d \in Components \ {c} : views'[d] = views[d]
    BY <2>4, Zenon DEF ViewType
  <2>6. BufferOwned(c, new)' /\ new.slot \in Slots
    BY <2>1, <2>2, <2>3, SameEpoch, Zenon DEF BufferOwned, Mine, Here
  <2>7. \A v \in views[c] : v.slot # loc[c].slot
    BY <1>0, <2>1, Zenon DEF CallInv, ViewInv
  <2>8. \A v \in views'[c] : v \in views[c] \/ v = new
    BY <2>4, Zenon DEF ViewType
  <2>9. ViewInv(c)'
    BY <1>0, <1>1, <2>1, <2>6, <2>7, <2>8, Returns, ReturnViews, Zenon
       DEF CallInv, RecvCommit
  <2> QED
    BY <1>0, <1>1, <2>1, <2>5, <2>9, GoodCommit, Zenon DEF RecvCommit
<1>2. CASE RecvDrop(c)
  <2>1. /\ pc[c].op = "RECEIVE" /\ pc[c].at = "drop" /\ loc[c].slot \in Slots
        /\ slot' = slot /\ life' = life /\ views' = views
    BY <1>0, <1>2, AtFacts, HasSlot DEF RecvDrop
  <2>2. \A v \in views[c] : v.slot # loc[c].slot
    BY <1>0, <2>1, Zenon DEF CallInv, ViewInv
  <2>3. ViewInv(c)'
    BY <1>0, <1>2, <2>1, <2>2, Returns, ReturnViews, Zenon DEF CallInv, RecvDrop
  <2> QED
    BY <1>0, <1>2, <2>1, <2>3, GoodCommit, Zenon DEF RecvDrop, ViewType
<1>3. CASE \/ RecvCheck(c) \/ RecvToken(c) \/ RecvSteal(c) \/ RecvSwap(c)
           \/ RecvClaim(c)
  BY <1>3, GoodRecvStart, Zenon
<1>4. CASE RecvUndo(c) \/ RecvFree(c) \/ RecvPublish(c) \/ RecvClear(c)
  BY <1>0, <1>4, GoodRecvEnd, Zenon
<1> QED
  BY <1>0, <1>1, <1>2, <1>3, <1>4, GoodRecvCall, GoodRecvFill, Zenon DEF RecvStep
=============================================================================
