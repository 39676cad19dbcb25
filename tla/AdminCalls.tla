---------------------------- MODULE AdminCalls ------------------------------
(***************************************************************************)
(* The steps of a runtime while others have been terminated: what a step   *)
(* does to the slots the others work on, and the steps of an allocation    *)
(* and of a send one by one.                                               *)
(***************************************************************************)
EXTENDS AdminInvariant, SlotSteps

(***************************************************************************)
(* The guarantee that a step of runtime x gives to the others.             *)
(***************************************************************************)
Still(s) == SameFields(s) /\ slot'[s].state = slot[s].state

\* The claim of slot s ends, or goes on, in a legal state.
EndsWell(s) ==
  /\ slot'[s].state # "ERROR"
  /\ slot'[s].state = "FREE" => slot'[s].owner = NoComponent
  /\ slot'[s].state \in {"OWNED", "TRANSFER"} => Belongs(s)' /\ Behind(s)'
  /\ slot'[s].generation >= slot[s].generation

\* x claims only a free slot, a transferred one or its own; and what it writes
\* inside a claim is not the unpublished transfer of another runtime.
Takes(x, s) ==
  /\ s = loc[x].slot
  /\ SameFields(s)
  /\ \/ slot[s].state \in {"FREE", "TRANSFER"}
     \/ slot[s].state = "OWNED" /\ slot[s].owner = x
  /\ slot'[s].state = "CLAIMING"
  /\ InClaim(x)' /\ loc'[x].slot = s

Works(x, s) ==
  /\ s = loc[x].slot
  /\ InClaim(x)
  /\ \/ slot[s].owner \in {x, NoComponent}
     \/ ~Fresh(s)
     \/ SameFields(s) /\ slot'[s].state = "TRANSFER"
  /\ EndsWell(s)
  /\ slot'[s].state = "CLAIMING" => (InClaim(x)' /\ loc'[x].slot = s) \/ Abandoned(s)'

SlotMove(x) ==
  \A s \in Slots :
    \/ /\ Still(s)
       /\ InClaim(x) /\ loc[x].slot = s => InClaim(x)' /\ loc'[x].slot = s
    \/ Takes(x, s)
    \/ Works(x, s)

\* x changes a token only if there is none, if it is its own, or if it is one
\* that a sender left.
TokenMove(x) ==
  \A s \in Slots :
    /\ \/ slot'[s].token = slot[s].token
       \/ slot[s].token.kind \in {"NONE", "SEND"}
       \/ slot[s].token.comp = x /\ HoldsToken(x) /\ loc[x].slot = s
    /\ HoldsToken(x)' /\ loc'[x].slot = s =>
         \/ HoldsToken(x) /\ loc[x].slot = s
         \/ slot[s].token.kind \in {"NONE", "SEND"}

\* x leaves the heads of the rings to their receivers, and adds only the
\* descriptor of the last transfer of a slot that it owns.
Announces(x, m) ==
  /\ slot' = slot
  /\ slot[m.slot].owner = x
  /\ m.generation = slot[m.slot].generation
  /\ m.sequence = slot[m.slot].sequence

RingMove(x) ==
  /\ \A l \in Links : l[2] # x /\ ring[l] # <<>> =>
       ring'[l] # <<>> /\ ring'[l][1] = ring[l][1]
  /\ \A m \in Descriptors' : m \in Descriptors \/ Announces(x, m)

ClaimMove(x) ==
  InClaim(x)' =>
    /\ loc'[x].slot = loc[x].slot
    /\ InClaim(x) \/ slot[loc[x].slot].state # "CLAIMING"

Fine(x) ==
  /\ TypeOK' /\ Frame(x)
  /\ SlotMove(x) /\ TokenMove(x) /\ RingMove(x) /\ ClaimMove(x)

LEMMA DescriptorType ==
  ASSUME RingType
  PROVE  Descriptors \subseteq Message
<1> SUFFICES ASSUME NEW l \in Links, NEW i \in 1..Len(ring[l])
             PROVE  ring[l][i] \in Message
  BY DEF Descriptors
<1>1. ring[l] \in Seq(Message)
  BY Zenon DEF RingType
<1> QED
  BY <1>1

LEMMA MessageFields ==
  ASSUME NEW m \in Message
  PROVE  m.slot \in Slots /\ m.generation \in Nat /\ m.sequence \in Nat
BY Zenon DEF Message

(***************************************************************************)
(* What a runtime relies on survives the steps of another one, x.          *)
(***************************************************************************)
LEMMA OwnedStill ==
  ASSUME NEW x \in Components, Fine(x), WorkInv(x), NEW s \in Slots,
         slot[s].state = "OWNED", slot[s].owner # x
  PROVE  Still(s)
BY Zenon DEF Fine, SlotMove, Takes, Works, WorkInv, Here

LEMMA ClaimedStill ==
  ASSUME NEW x \in Components, Fine(x), SoleClaimant, NEW c \in Components, c # x,
         InClaim(c), loc[c].slot \in Slots
  PROVE  Still(loc[c].slot)
BY Zenon DEF Fine, SlotMove, Takes, Works, SoleClaimant, Here

LEMMA BehindKept ==
  ASSUME TypeOK, NEW x \in Components, Fine(x), NEW s \in Slots, SameFields(s)
  PROVE  /\ Behind(s) => Behind(s)'
         /\ Fresh(s) /\ slot[s].owner # x => Fresh(s)'
<1>1. ASSUME NEW m \in Descriptors', m.slot = s PROVE m \in Descriptors \/ Announces(x, m)
  BY <1>1, Zenon DEF Fine, RingMove
<1>2. slot[s].sequence \in Nat
  BY Types, FieldTypes, Zenon
<1>3. Behind(s) => Behind(s)'
  BY <1>1, <1>2 DEF Behind, SameFields, Announces
<1>4. Fresh(s) /\ slot[s].owner # x => Fresh(s)'
  BY <1>1, Zenon DEF Fresh, SameFields, Announces
<1> QED
  BY <1>3, <1>4, Zenon

LEMMA UnpublishedKept ==
  ASSUME TypeOK, NEW x \in Components, Fine(x), NEW c \in Components, c # x,
         loc[c].slot \in Slots, Unpublished(c),
         Here(c).state \in {"TRANSFER", "CLAIMING"}
  PROVE  /\ SameFields(loc[c].slot)
         /\ Here(c)'.state \in {"TRANSFER", "CLAIMING"}
         /\ Unpublished(c)'
<1>1. Here(c).owner = c /\ Fresh(loc[c].slot) /\ c # NoComponent
  BY ProtocolAssumption, Zenon DEF Unpublished, Transferring, Mine
<1>2. /\ SameFields(loc[c].slot)
      /\ slot'[loc[c].slot].state \in {"TRANSFER", "CLAIMING"}
  BY <1>1, Zenon DEF Fine, SlotMove, Takes, Works, Still, Here
<1>3. loc'[c] = loc[c] /\ life' = life
  BY Zenon DEF Fine, Frame
<1>4. Fresh(loc[c].slot)'
  BY <1>1, <1>2, <1>3, BehindKept, Zenon DEF Here
<1>5. Transferring(c)'
  BY <1>2, <1>3, SameEpoch, Zenon DEF Unpublished, Transferring, Mine, Here, SameFields
<1> QED
  BY <1>2, <1>3, <1>4, <1>5, Zenon DEF Unpublished, Here

LEMMA MineStill ==
  ASSUME NEW c \in Components, loc'[c] = loc[c], life' = life, Still(loc[c].slot)
  PROVE  /\ Mine(c) => Mine(c)'
         /\ Transferring(c) => Transferring(c)'
         /\ Belongs(loc[c].slot) => Belongs(loc[c].slot)'
         /\ Here(c)'.state = Here(c).state
         /\ Here(c)'.owner = Here(c).owner
<1>1. Mine(c) => Mine(c)'
  BY SameEpoch, Zenon DEF Mine, Here, Still, SameFields
<1> QED
  BY <1>1, Zenon DEF Transferring, Belongs, Here, Still, SameFields

\* The invariant of a call is the part that its operation has.
LEMMA RunInvOf ==
  ASSUME NEW c \in Components, WorkInv(c)', ViewWork(c)',
         \/ pc'[c].op = "ALLOCATE" /\ AllocWork(c)'
         \/ pc'[c].op = "SEND" /\ SendWork(c)'
         \/ pc'[c].op = "ROLLBACK" /\ RollbackWork(c)'
         \/ pc'[c].op = "RECEIVE" /\ RecvWork(c)'
         \/ pc'[c].op = "RELEASE" /\ ReleaseWork(c)'
         \/ pc'[c].op = "NONE"
  PROVE  RunInv(c)'
<1>1. pc'[c].op # "ALLOCATE" => AllocWork(c)'
  BY Zenon DEF AllocWork
<1>2. pc'[c].op # "SEND" => SendWork(c)'
  BY Zenon DEF SendWork
<1>3. pc'[c].op # "ROLLBACK" => RollbackWork(c)'
  BY Zenon DEF RollbackWork
<1>4. pc'[c].op # "RECEIVE" => RecvWork(c)'
  BY Zenon DEF RecvWork
<1>5. pc'[c].op # "RELEASE" => ReleaseWork(c)'
  BY Zenon DEF ReleaseWork
<1> QED
  BY <1>1, <1>2, <1>3, <1>4, <1>5, Zenon DEF RunInv

LEMMA WorkFacts ==
  ASSUME TypeOK, NEW c \in Components, WorkInv(c)
  PROVE  /\ pc[c].at \notin {"idle", "scan"} => loc[c].slot \in Slots
         /\ pc[c].op = "NONE" => pc[c].at = "idle" /\ loc[c].slot = NoSlot
         /\ pc[c].op = "ALLOCATE" => pc[c].at \in Steps("ALLOCATE")
         /\ pc[c].op = "SEND" => pc[c].at \in Steps("SEND")
         /\ pc[c].op = "ROLLBACK" => pc[c].at \in Steps("ROLLBACK")
         /\ pc[c].op = "RECEIVE" => pc[c].at \in Steps("RECEIVE") \cup {"steal", "swap"}
         /\ pc[c].op = "RELEASE" => pc[c].at \in Steps("RELEASE")
         /\ pc[c].op \in Kinds \cup {"NONE"}
         /\ InClaim(c) => Here(c).state = "CLAIMING"
BY Types, Zenon DEF WorkInv, Steps, PcType, PCs

LEMMA StableRun ==
  ASSUME TypeOK, SoleClaimant, NEW x \in Components, WorkInv(x), Fine(x),
         NEW c \in Components, c # x, RunInv(c)
  PROVE  RunInv(c)'
<1> DEFINE s == loc[c].slot
<1> USE Types
<1>1. /\ pc'[c] = pc[c] /\ loc'[c] = loc[c] /\ views'[c] = views[c] /\ life' = life
      /\ Frame(x)
  BY Zenon DEF Fine, Frame
<1>2. InClaim(c) /\ s \in Slots => Still(s)
  BY ClaimedStill, Zenon
<1>3. s \in Slots /\ Here(c).state = "OWNED" /\ Mine(c) => Still(s)
  BY OwnedStill, Zenon DEF Mine, Here
<1>4. WorkInv(c)'
  <2>1. InClaim(c) => loc[c].slot \in Slots /\ Here(c).state = "CLAIMING"
    BY WorkFacts, Zenon DEF RunInv, InClaim
  <2>2. InClaim(c)' => Here(c)'.state = "CLAIMING"
    BY <1>1, <1>2, <2>1, Zenon DEF InClaim, Here, Still
  <2> QED
    BY <1>1, <2>2, Zenon DEF WorkInv, RunInv
<1>5. ViewWork(c)'
  <2> SUFFICES ASSUME NEW v \in views[c], BufferOwned(c, v)
               PROVE  BufferOwned(c, v)'
    BY <1>1, Zenon DEF ViewWork, RunInv
  <2>1. v.slot \in Slots
    BY DEF ViewType, View
  <2>2. Still(v.slot)
    BY <2>1, OwnedStill, Zenon DEF BufferOwned
  <2> QED
    BY <1>1, <2>1, <2>2, SameEpoch, Zenon DEF BufferOwned, Still, SameFields
<1>6. s \in Slots /\ Still(s) =>
        /\ Behind(s) => Behind(s)'
        /\ Fresh(s) /\ slot[s].owner = c => Fresh(s)'
  BY <1>1, BehindKept, Zenon DEF Still
<1>7. WorkInv(c)
  BY Zenon DEF RunInv
<1>8. CASE pc[c].op = "ALLOCATE"
  <2>1. AllocWork(c) /\ pc[c].at \in Steps("ALLOCATE") /\ (pc[c].at # "scan" => s \in Slots)
    BY <1>7, <1>8, WorkFacts, Zenon DEF RunInv, Steps
  <2>2. pc[c].at \in {"fill", "free", "publish", "clear"} => Still(s)
    BY <1>2, <1>3, <1>8, <2>1, Zenon DEF AllocWork, InClaim
  <2>3. AllocWork(c)'
    BY <1>1, <1>6, <1>8, <2>1, <2>2, MineStill, SameEpoch, Zenon DEF AllocWork
  <2> QED
    BY <1>1, <1>4, <1>5, <1>8, <2>3, RunInvOf, Zenon
<1>9. CASE pc[c].op = "SEND"
  <2>1. SendWork(c) /\ pc[c].at \in Steps("SEND") /\ s \in Slots
    BY <1>7, <1>9, WorkFacts, Zenon DEF RunInv, Steps
  <2>2. Mine(c) /\ slot[s].owner = c
    BY <1>9, <2>1, Zenon DEF SendWork, Mine, Here
  <2>3. pc[c].at \in {"token", "claim", "undo", "fill", "publish"} => Still(s)
    BY <1>2, <1>3, <1>9, <2>1, Zenon DEF SendWork, InClaim
  <2>4. CASE pc[c].at \in {"token", "claim", "undo", "fill", "publish"}
    <3>1. Unpublished(c) => Unpublished(c)'
      BY <1>1, <1>6, <2>1, <2>2, <2>3, <2>4, MineStill, Zenon DEF Unpublished
    <3>2. SendWork(c)'
      BY <1>1, <1>6, <1>9, <2>1, <2>2, <2>3, <2>4, <3>1, MineStill, Zenon DEF SendWork
    <3> QED
      BY <1>1, <1>4, <1>5, <1>9, <3>2, RunInvOf, Zenon
  <2>5. CASE pc[c].at \in {"clear", "push"}
    <3>1. Unpublished(c)' /\ Here(c)'.state \in {"TRANSFER", "CLAIMING"}
      BY <1>9, <2>1, <2>5, UnpublishedKept, Zenon DEF SendWork
    <3>2. SendWork(c)'
      BY <1>1, <1>9, <2>1, <2>5, <3>1, Zenon DEF SendWork, Unpublished, Transferring
    <3> QED
      BY <1>1, <1>4, <1>5, <1>9, <3>2, RunInvOf, Zenon
  <2> QED
    BY <2>1, <2>4, <2>5, Zenon DEF Steps
<1>10. CASE pc[c].op = "ROLLBACK"
  <2>1. RollbackWork(c) /\ pc[c].at \in Steps("ROLLBACK") /\ s \in Slots
    BY <1>7, <1>10, WorkFacts, Zenon DEF RunInv, Steps
  <2>2. HoldsToken(c) => Here(c)'.token = Token("ROLLBACK", c, loc[c].epoch)
    BY <1>1, <1>10, <2>1, TokenFields DEF RollbackWork, Fine, TokenMove, Here
  <2>3. pc[c].at \in {"publish", "clear"} => Still(s)
    BY <1>2, <1>3, <1>10, <2>1, Zenon DEF RollbackWork, InClaim
  <2>4. pc[c].at \in {"check", "token", "claim", "fill"} =>
          Unpublished(c)' /\ Here(c)'.state \in {"TRANSFER", "CLAIMING"}
    BY <1>10, <2>1, UnpublishedKept, Zenon DEF RollbackWork
  <2>5. RollbackWork(c)'
    BY <1>1, <1>6, <1>10, <2>1, <2>2, <2>3, <2>4, MineStill, Zenon DEF RollbackWork, HoldsToken
  <2> QED
    BY <1>1, <1>4, <1>5, <1>10, <2>5, RunInvOf, Zenon
<1>11. CASE pc[c].op = "RECEIVE"
  <2>1. RecvWork(c) /\ pc[c].at \in Steps("RECEIVE") \cup {"steal", "swap"} /\ s \in Slots
    BY <1>7, <1>11, WorkFacts, Zenon DEF RunInv, Steps
  <2>2. pc[c].at \in {"fill", "free", "publish", "clear", "commit"} => Still(s)
    BY <1>2, <1>3, <1>11, <2>1, Zenon DEF RecvWork, InClaim
  <2>3. Peeked(c)'
    <3>1. PICK l \in Links : l = <<loc[c].peer, c>> /\ l[2] = c /\ ring[l] # <<>>
      BY <1>11, <2>1, Zenon DEF RecvWork, Peeked
    <3>2. ring'[l] # <<>> /\ ring'[l][1] = ring[l][1]
      BY <3>1, Zenon DEF Fine, RingMove
    <3> QED
      BY <1>1, <1>11, <2>1, <3>1, <3>2, Zenon DEF RecvWork, Peeked
  <2>4. RecvWork(c)'
    BY <1>1, <1>6, <1>11, <2>1, <2>2, <2>3, MineStill, SameEpoch, Zenon DEF RecvWork
  <2> QED
    BY <1>1, <1>4, <1>5, <1>11, <2>4, RunInvOf, Zenon
<1>12. CASE pc[c].op = "RELEASE"
  <2>1. ReleaseWork(c) /\ pc[c].at \in Steps("RELEASE") /\ s \in Slots
    BY <1>7, <1>12, WorkFacts, Zenon DEF RunInv, Steps
  <2>2. pc[c].at \in {"token", "claim", "undo", "fill", "publish"} => Still(s)
    BY <1>2, <1>3, <1>12, <2>1, Zenon DEF ReleaseWork, InClaim
  <2>3. ReleaseWork(c)'
    BY <1>1, <1>6, <1>12, <2>1, <2>2, MineStill, Zenon DEF ReleaseWork
  <2> QED
    BY <1>1, <1>4, <1>5, <1>12, <2>3, RunInvOf, Zenon
<1>13. CASE pc[c].op = "NONE"
  BY <1>1, <1>4, <1>5, <1>13, RunInvOf, Zenon
<1> QED
  BY <1>7, <1>8, <1>9, <1>10, <1>11, <1>12, <1>13, WorkFacts, Zenon DEF Kinds

LEMMA AbandonedKept ==
  ASSUME NEW x \in Components, Fine(x), NEW s \in Slots, Abandoned(s)
  PROVE  Abandoned(s)'
<1>1. /\ slot[s].token.kind = "ROLLBACK" /\ slot[s].token.comp \in Components
      /\ slot[s].token.epoch = life[slot[s].token.comp].epoch
      /\ ~(HoldsToken(slot[s].token.comp) /\ loc[slot[s].token.comp].slot = s)
  BY Zenon DEF Abandoned
<1>2. slot'[s].token = slot[s].token
  BY <1>1, Zenon DEF Fine, TokenMove
<1>3. PICK c \in Components : c = slot[s].token.comp
  BY <1>1, Zenon
<1>4. ~(HoldsToken(c)' /\ loc'[c].slot = s)
  <2>1. CASE c = x
    BY <1>1, <1>3, <2>1, Zenon DEF Fine, TokenMove
  <2>2. CASE c # x
    BY <1>1, <1>3, <2>2, Zenon DEF Fine, Frame, HoldsToken
  <2> QED
    BY <2>1, <2>2, Zenon
<1>5. life' = life
  BY Zenon DEF Fine, Frame
<1>6. slot'[s].token.comp = c /\ slot'[s].token.kind = "ROLLBACK"
      /\ slot'[s].token.epoch = life'[c].epoch
  BY <1>1, <1>2, <1>3, <1>5, Zenon
<1> QED
  BY <1>4, <1>6, Zenon DEF Abandoned, HoldsToken

LEMMA StableKept ==
  ASSUME TypeOK, NEW x \in Components, Fine(x), NEW s \in Slots, KeptInv(s),
         UNCHANGED <<down, swept>>
  PROVE  KeptInv(s)'
<1> USE Types
<1>1. /\ slot[s].generation \in Nat /\ slot'[s].generation \in Nat /\ life' = life
      /\ slot'[s].generation >= slot[s].generation
  <2>1. slot[s].generation \in Nat /\ slot'[s].generation \in Nat /\ life' = life
    BY FieldTypes, Zenon DEF Fine, Frame, TypeOK, SlotType, SlotControl
  <2>2. slot'[s].generation = slot[s].generation \/ slot'[s].generation >= slot[s].generation
    BY Zenon DEF Fine, SlotMove, Takes, Works, Still, SameFields, EndsWell
  <2> QED
    BY <2>1, <2>2
<1>2. Older(s)'
  <2> SUFFICES ASSUME NEW m \in Descriptors', m.slot = s
               PROVE  m.generation <= slot'[s].generation
    BY Zenon DEF Older
  <2>1. CASE m \in Descriptors
    <3>1. m.generation \in Nat /\ m.generation <= slot[s].generation
      BY <2>1, DescriptorType, MessageFields, Zenon DEF KeptInv, Older
    <3> QED
      BY <1>1, <3>1
  <2>2. CASE Announces(x, m)
    BY <1>1, <2>2, Zenon DEF Announces
  <2> QED
    BY <2>1, <2>2, Zenon DEF Fine, RingMove
<1>3. CASE /\ Still(s)
           /\ InClaim(x) /\ loc[x].slot = s => InClaim(x)' /\ loc'[x].slot = s
  <2>1. slot[s].state = "CLAIMING" => Attended(s)'
    <3>1. ASSUME NEW c \in Components, InClaim(c), loc[c].slot = s
          PROVE  InClaim(c)' /\ loc'[c].slot = s
      BY <1>3, <3>1, Zenon DEF Fine, Frame, InClaim
    <3> QED
      BY <3>1, AbandonedKept, Zenon DEF KeptInv, Attended
  <2>2. Belongs(s) /\ Behind(s) => Belongs(s)' /\ Behind(s)'
    BY <1>1, <1>3, BehindKept, Zenon DEF Belongs, Still, SameFields
  <2> QED
    BY <1>2, <1>3, <2>1, <2>2, Zenon DEF KeptInv, Still, SameFields
<1>4. CASE Takes(x, s)
  BY <1>2, <1>4, Zenon DEF KeptInv, Takes, Attended
<1>5. CASE Works(x, s)
  BY <1>2, <1>5, Zenon DEF KeptInv, Works, EndsWell, Attended
<1> QED
  BY <1>3, <1>4, <1>5, Zenon DEF Fine, SlotMove

LEMMA StableSole ==
  ASSUME SoleClaimant, NEW x \in Components, Fine(x), \A c \in Components : WorkInv(c)'
  PROVE  SoleClaimant'
<1> SUFFICES ASSUME NEW c \in Components, InClaim(c)',
                    NEW d \in Components \ {c}, InClaim(d)'
             PROVE  loc'[d].slot # loc'[c].slot
  BY Zenon DEF SoleClaimant, WorkInv, InClaim
<1>1. ASSUME NEW e \in Components, e # x, InClaim(e)'
      PROVE  InClaim(e) /\ loc'[e] = loc[e]
  BY <1>1, Zenon DEF Fine, Frame, InClaim
<1>2. ASSUME NEW e \in Components, e # x, InClaim(e)', InClaim(x)'
      PROVE  loc'[e].slot # loc'[x].slot
  BY <1>1, <1>2 DEF Fine, ClaimMove, SoleClaimant, Here
<1> QED
  BY <1>1, <1>2, Zenon DEF SoleClaimant

LEMMA FineKeeps ==
  ASSUME AdminInductive, NEW x \in Components, x \notin down, ~quiet,
         Fine(x), RunInv(x)', UNCHANGED <<down, quiet, swept>>
  PROVE  AdminInductive'
<1>1. \A c \in Components : RunInv(c)'
  BY StableRun, Zenon DEF AdminInductive, RunInv
<1>2. SoleClaimant'
  BY <1>1, StableSole, Zenon DEF AdminInductive, RunInv
<1>3. \A s \in Slots : KeptInv(s)'
  BY StableKept, Zenon DEF AdminInductive
<1>4. Quiesced'
  BY Zenon DEF AdminInductive, Quiesced, Fine, Frame, Idle, At
<1> QED
  BY <1>1, <1>2, <1>3, <1>4, Zenon DEF AdminInductive, Fine

(***************************************************************************)
(* The shapes of a step of runtime c: outside a claim, into a claim, and   *)
(* inside a claim.                                                         *)
(***************************************************************************)
LEMMA RingsAlone ==
  ASSUME NEW c \in Components, ring' = ring
  PROVE  RingMove(c)
<1>1. Descriptors' = Descriptors
  BY DEF Descriptors
<1> QED
  BY <1>1, Zenon DEF RingMove

LEMMA OutsideFine ==
  ASSUME TypeOK', NEW c \in Components, Frame(c), ring' = ring, ~InClaim(c), ~InClaim(c)',
         \A s \in Slots : Still(s), TokenMove(c)
  PROVE  Fine(c)
BY RingsAlone, Zenon DEF Fine, SlotMove, ClaimMove

LEMMA TakeFine ==
  ASSUME TypeOK', NEW c \in Components, Frame(c), ring' = ring,
         loc[c].slot \in Slots, loc'[c].slot = loc[c].slot,
         HoldsToken(c), ~InClaim(c), InClaim(c)',
         SetsState(loc[c].slot, "CLAIMING"),
         \/ Here(c).state \in {"FREE", "TRANSFER"}
         \/ Here(c).state = "OWNED" /\ Here(c).owner = c
  PROVE  Fine(c)
<1>1. SlotMove(c)
  <2>1. /\ SameFields(loc[c].slot)
        /\ slot'[loc[c].slot].state = "CLAIMING"
    BY Zenon DEF SetsState
  <2>2. Takes(c, loc[c].slot)
    BY <2>1, Zenon DEF Takes, Here
  <2>3. \A s \in Slots \ {loc[c].slot} : Still(s)
    BY Zenon DEF Still, SetsState, OnlySlot, SameFields
  <2> QED
    BY <2>2, <2>3, Zenon DEF SlotMove
<1>2. TokenMove(c)
  BY Zenon DEF TokenMove, SetsState, OnlySlot
<1>3. ClaimMove(c)
  BY Zenon DEF ClaimMove, Here
<1> QED
  BY <1>1, <1>2, <1>3, RingsAlone, Zenon DEF Fine

LEMMA WorkFine ==
  ASSUME TypeOK', NEW c \in Components, Frame(c), ring' = ring,
         loc[c].slot \in Slots, loc'[c].slot = loc[c].slot, InClaim(c),
         OnlySlot(loc[c].slot), slot'[loc[c].slot].token = Here(c).token,
         Works(c, loc[c].slot)
  PROVE  Fine(c)
<1>1. SlotMove(c)
  BY Zenon DEF SlotMove, Still, OnlySlot, SameFields
<1>2. TokenMove(c)
  BY Zenon DEF TokenMove, OnlySlot, HoldsToken, InClaim, Here
<1>3. ClaimMove(c)
  BY Zenon DEF ClaimMove
<1> QED
  BY <1>1, <1>2, <1>3, RingsAlone, Zenon DEF Fine

\* The steps a runtime can take from one point of its call to another.
RunSteps(kind) == Steps(kind) \cup (IF kind = "RECEIVE" THEN {"steal", "swap"} ELSE {})

LEMMA StepWithin ==
  ASSUME TypeOK, NEW c \in Components, RunInv(c), pc[c].at \notin {"idle", "scan"},
         NEW label \in RunSteps(pc[c].op), Within(c, label), OnlySlot(loc[c].slot),
         pc[c].op \in {"SEND", "ROLLBACK", "RELEASE"} =>
           /\ loc'[c].generation = loc[c].generation
           /\ loc'[c].epoch = loc[c].epoch,
         pc[c].op = "ROLLBACK" =>
           pc[c].at \notin {"undo", "lost"} \/ label \in {"undo", "lost"},
         pc[c].op \in {"ALLOCATE", "RECEIVE"} =>
           Still(loc[c].slot) \/ Here(c).state # "OWNED",
         label \in {"fill", "free", "publish"} => slot'[loc[c].slot].state = "CLAIMING"
  PROVE  /\ TypeOK' /\ Frame(c) /\ WorkInv(c)' /\ ViewWork(c)'
         /\ pc'[c].op = pc[c].op /\ pc'[c].at = label
         /\ loc[c].slot \in Slots /\ life' = life /\ ring' = ring
<1> USE Types
<1>1. TypeOK' /\ Frame(c)
  BY WithinFrame, Zenon DEF OnlySlot
<1>2. /\ pc'[c].op = pc[c].op /\ pc'[c].at = label /\ loc[c].slot \in Slots
      /\ loc'[c].slot = loc[c].slot /\ views' = views /\ life' = life /\ ring' = ring
  BY WorkFacts, Zenon DEF RunInv, Within, Moves
<1>3. pc[c].op # "NONE"
  BY WorkFacts, Zenon DEF RunInv
<1>4. WorkInv(c)'
  BY <1>2, <1>3, Zenon DEF WorkInv, RunSteps, InClaim, Here
<1>5. ViewWork(c)'
  <2> SUFFICES ASSUME NEW v \in views[c]
               PROVE  IF pc[c].op \in {"SEND", "ROLLBACK", "RELEASE"} /\ v.slot = loc[c].slot
                      THEN label \notin {"undo", "lost"} \/ pc[c].op # "ROLLBACK" =>
                             v.generation = loc'[c].generation /\ v.epoch = loc'[c].epoch
                      ELSE BufferOwned(c, v)'
    BY <1>2, Zenon DEF ViewWork
  <2>1. v.slot \in Slots
    BY DEF ViewType, View
  <2>2. CASE pc[c].op \in {"SEND", "ROLLBACK", "RELEASE"} /\ v.slot = loc[c].slot
    BY <2>2, Zenon DEF RunInv, ViewWork
  <2>3. CASE ~(pc[c].op \in {"SEND", "ROLLBACK", "RELEASE"} /\ v.slot = loc[c].slot)
    <3>1. BufferOwned(c, v)
      BY <2>3, Zenon DEF RunInv, ViewWork
    <3>2. pc[c].op \in {"SEND", "ROLLBACK", "RELEASE", "ALLOCATE", "RECEIVE"}
      BY <1>3, Zenon DEF PcType, PCs, Kinds
    <3>3. Still(v.slot)
      BY <2>1, <2>3, <3>1, <3>2 DEF OnlySlot, Still, SameFields, BufferOwned, Here
    <3> QED
      BY <1>2, <2>3, <3>1, <3>3, SameEpoch DEF BufferOwned, Still, SameFields
  <2> QED
    BY <2>2, <2>3, Zenon
<1> QED
  BY <1>1, <1>2, <1>4, <1>5, Zenon

\* A call returns: the view on its slot, if one is left, is of an owned slot.
LEMMA StepReturns ==
  ASSUME TypeOK, NEW c \in Components, RunInv(c),
         Moves(c, "NONE", "idle"), LocType', loc'[c] = NoCall,
         \A d \in Components \ {c} : loc'[d] = loc[d],
         \A d \in Components \ {c} : views'[d] = views[d],
         ViewType', SlotType', RingType', life' = life,
         \A r \in Slots \ {loc[c].slot} : slot'[r] = slot[r],
         \A v \in views'[c] : \/ v \in views[c] /\ v.slot # loc[c].slot
                              \/ BufferOwned(c, v)'
  PROVE  TypeOK' /\ Frame(c) /\ RunInv(c)'
<1> USE Types
<1>1. TypeOK'
  BY Zenon DEF TypeOK, Moves, SlotType, RingType, LifeType, ViewType, PcType, LocType
<1>2. Frame(c)
  BY Zenon DEF Frame, Moves
<1>3. pc'[c].op = "NONE" /\ pc'[c].at = "idle" /\ loc'[c].slot = NoSlot
  BY DEF Moves, NoCall
<1>4. WorkInv(c)'
  BY <1>3, Zenon DEF WorkInv, Steps, InClaim
<1>5. ViewWork(c)'
  <2> SUFFICES ASSUME NEW v \in views'[c]
               PROVE  BufferOwned(c, v)'
    BY <1>3, Zenon DEF ViewWork
  <2>1. CASE v \in views[c] /\ v.slot # loc[c].slot
    <3>1. v.slot \in Slots /\ BufferOwned(c, v)
      BY <2>1 DEF ViewType, View, RunInv, ViewWork
    <3> QED
      BY <2>1, <3>1, SameEpoch, Zenon DEF BufferOwned
  <2> QED
    BY <2>1, Zenon
<1> QED
  BY <1>1, <1>2, <1>3, <1>4, <1>5, RunInvOf, Zenon

(***************************************************************************)
(* The steps that the operations share.                                    *)
(***************************************************************************)
HoldingSteps == {"claim", "undo", "fill", "free", "publish", "clear"}
ClaimSteps == {"fill", "free", "publish"}

\* What is left to show of a step within a call is the part of its operation.
Goes(c, label) ==
  /\ Fine(c) /\ WorkInv(c)' /\ ViewWork(c)'
  /\ pc'[c].op = pc[c].op /\ pc'[c].at = label
  /\ loc[c].slot \in Slots /\ loc'[c].slot = loc[c].slot
  /\ life' = life /\ ring' = ring

LEMMA TokenFine ==
  ASSUME TypeOK', NEW c \in Components, Frame(c), ring' = ring,
         loc[c].slot \in Slots, ~InClaim(c), ~InClaim(c)', NEW t,
         SetsToken(loc[c].slot, t),
         \/ Here(c).token.kind \in {"NONE", "SEND"}
         \/ HoldsToken(c) /\ (Here(c).token.comp = c \/ t = Here(c).token),
         HoldsToken(c)' =>
           /\ loc'[c].slot = loc[c].slot
           /\ HoldsToken(c) \/ Here(c).token.kind \in {"NONE", "SEND"}
  PROVE  Fine(c)
<1>1. \A s \in Slots : Still(s)
  BY Zenon DEF Still, SetsToken, OnlySlot, SameFields
<1>2. TokenMove(c)
  BY Zenon DEF TokenMove, SetsToken, OnlySlot, Here
<1> QED
  BY <1>1, <1>2, OutsideFine, Zenon

\* At most the journal of the slot is written.
LEMMA JournalGoes ==
  ASSUME TypeOK, NEW c \in Components, RunInv(c), pc[c].at \notin {"idle", "scan"},
         NEW label \in RunSteps(pc[c].op), Within(c, label), Journals(loc[c].slot),
         pc[c].op \in {"SEND", "ROLLBACK", "RELEASE"} =>
           /\ loc'[c].generation = loc[c].generation
           /\ loc'[c].epoch = loc[c].epoch,
         pc[c].op = "ROLLBACK" =>
           pc[c].at \notin {"undo", "lost"} \/ label \in {"undo", "lost"},
         ~InClaim(c), label \notin ClaimSteps, label \in HoldingSteps => HoldsToken(c)
  PROVE  Goes(c, label) /\ Still(loc[c].slot)
<1>1. /\ OnlySlot(loc[c].slot) /\ Still(loc[c].slot)
      /\ \A s \in Slots : Still(s) /\ slot'[s].token = slot[s].token
  BY Zenon DEF Journals, OnlySlot, Still, SameFields
<1>2. /\ TypeOK' /\ Frame(c) /\ WorkInv(c)' /\ ViewWork(c)'
      /\ pc'[c].op = pc[c].op /\ pc'[c].at = label
      /\ loc[c].slot \in Slots /\ life' = life /\ ring' = ring
  BY <1>1, StepWithin, Zenon DEF ClaimSteps
<1>3. loc'[c].slot = loc[c].slot
  BY Zenon DEF Within
<1>4. (HoldsToken(c)' => HoldsToken(c)) /\ ~InClaim(c)'
  BY <1>2, Zenon DEF HoldsToken, InClaim, HoldingSteps, ClaimSteps
<1>5. TokenMove(c)
  BY <1>1, <1>3, <1>4, Zenon DEF TokenMove
<1> QED
  BY <1>1, <1>2, <1>3, <1>4, <1>5, OutsideFine, Zenon DEF Goes

\* The slot is left alone.
LEMMA QuietGoes ==
  ASSUME TypeOK, NEW c \in Components, RunInv(c), pc[c].at \notin {"idle", "scan"},
         NEW label \in RunSteps(pc[c].op), Within(c, label), slot' = slot,
         pc[c].op \in {"SEND", "ROLLBACK", "RELEASE"} =>
           /\ loc'[c].generation = loc[c].generation
           /\ loc'[c].epoch = loc[c].epoch,
         pc[c].op = "ROLLBACK" =>
           pc[c].at \notin {"undo", "lost"} \/ label \in {"undo", "lost"},
         ~InClaim(c), label \notin ClaimSteps, label \in HoldingSteps => HoldsToken(c)
  PROVE  Goes(c, label)
<1>1. Journals(loc[c].slot)
  BY Types, Zenon DEF Journals, OnlySlot, SlotType, SameFields
<1> QED
  BY <1>1, JournalGoes, Zenon

LEMMA TokenGoes ==
  ASSUME TypeOK, NEW c \in Components, RunInv(c), pc[c].at \notin {"idle", "scan"},
         NEW label \in RunSteps(pc[c].op), Inner(c, label), ~InClaim(c), label \notin ClaimSteps,
         pc[c].op = "ROLLBACK" =>
           pc[c].at \notin {"undo", "lost"} \/ label \in {"undo", "lost"},
         NEW t, SetsToken(loc[c].slot, t),
         \/ Here(c).token.kind \in {"NONE", "SEND"}
         \/ HoldsToken(c) /\ (Here(c).token.comp = c \/ t = Here(c).token)
  PROVE  Goes(c, label) /\ Still(loc[c].slot)
<1>1. OnlySlot(loc[c].slot) /\ Still(loc[c].slot) /\ Within(c, label)
  BY InnerWithin, Zenon DEF SetsToken, Still
<1>2. /\ TypeOK' /\ Frame(c) /\ WorkInv(c)' /\ ViewWork(c)'
      /\ pc'[c].op = pc[c].op /\ pc'[c].at = label
      /\ loc[c].slot \in Slots /\ life' = life /\ ring' = ring
  BY <1>1, StepWithin, Zenon DEF ClaimSteps, Inner
<1>3. loc'[c].slot = loc[c].slot /\ ~InClaim(c)'
  BY <1>2, Zenon DEF Inner, InClaim, ClaimSteps
<1>4. Fine(c)
  BY <1>2, <1>3, TokenFine, Zenon
<1> QED
  BY <1>1, <1>2, <1>3, <1>4, Zenon DEF Goes

LEMMA TokenTakenGoes ==
  ASSUME TypeOK, NEW c \in Components, RunInv(c), NEW kind \in Kinds,
         At(c, kind, "token"), Here(c).token = NoToken,
         slot' = [slot EXCEPT ![loc[c].slot].token = Token(kind, c, loc[c].epoch)],
         Goto(c, "claim"), UNCHANGED <<ring, life, views, loc>>
  PROVE  /\ Goes(c, "claim") /\ Still(loc[c].slot)
         /\ slot'[loc[c].slot].token = Token(kind, c, loc[c].epoch)
<1>1. pc[c].op = kind /\ pc[c].at = "token"
  BY AtFacts, Zenon
<1>2. loc[c].slot \in Slots
  BY <1>1, WorkFacts, Zenon DEF RunInv
<1>3. Inner(c, "claim")
  BY Types, GotoMoves, Zenon DEF Inner, Labels
<1>4. SetsToken(loc[c].slot, Token(kind, c, loc[c].epoch))
  <2>1. Token(kind, c, loc[c].epoch) \in Tokens
    BY Types, TokenTypes, LocalTypes, Zenon
  <2> QED
    BY Types, <1>2, <2>1, TokenUpdate, Zenon
<1>5. Here(c).token.kind = "NONE"
  BY DEF NoToken, Token
<1>6. "claim" \in RunSteps(pc[c].op)
  BY <1>1, Zenon DEF RunSteps, Steps, Kinds
<1>7. Goes(c, "claim") /\ Still(loc[c].slot)
  BY <1>1, <1>3, <1>4, <1>5, <1>6, TokenGoes, Zenon DEF InClaim, ClaimSteps
<1> QED
  BY <1>4, <1>7, Zenon DEF SetsToken

\* clear_claim_token removes the token of this call, or leaves another one.
LEMMA ClearSets ==
  ASSUME TypeOK, NEW c \in Components, loc[c].slot \in Slots, NEW kind \in Kinds,
         ClearToken(c, kind)
  PROVE  \E t \in Tokens : /\ SetsToken(loc[c].slot, t)
                           /\ Here(c).token.comp = c \/ t = Here(c).token
<1>1. PICK t \in Tokens : /\ slot' = [slot EXCEPT ![loc[c].slot].token = t]
                          /\ Here(c).token = Token(kind, c, loc[c].epoch) \/ t = Here(c).token
  BY Types, FieldTypes, TokenTypes, Zenon DEF ClearToken, Here
<1>2. SetsToken(loc[c].slot, t)
  BY <1>1, Types, TokenUpdate, Zenon
<1> QED
  BY <1>1, <1>2, TokenFields

LEMMA ClearGoes ==
  ASSUME TypeOK, NEW c \in Components, RunInv(c), NEW kind \in Kinds,
         NEW at \in {"undo", "clear"},
         NEW then \in RunSteps(kind) \cap {"scan", "push", "lost", "drop", "commit"},
         ClearAndGoto(c, kind, at, then)
  PROVE  Goes(c, then) /\ Still(loc[c].slot) /\ loc' = loc /\ pc[c].op = kind /\ pc[c].at = at
<1>1. pc[c].op = kind /\ pc[c].at = at
  BY AtFacts, Zenon DEF ClearAndGoto
<1>2. loc[c].slot \in Slots
  BY <1>1, WorkFacts, Zenon DEF RunInv
<1>3. then \in Labels
  BY Zenon DEF Labels
<1>4. Inner(c, then)
  BY <1>3, Types, GotoMoves, Zenon DEF ClearAndGoto, Inner
<1>5. PICK t \in Tokens : /\ SetsToken(loc[c].slot, t)
                          /\ Here(c).token.comp = c \/ t = Here(c).token
  BY <1>2, ClearSets, Zenon DEF ClearAndGoto
<1>6. HoldsToken(c) /\ ~InClaim(c)
  BY <1>1, Zenon DEF HoldsToken, InClaim
<1>7. kind = "ROLLBACK" => then \in {"undo", "lost"}
  BY Zenon DEF RunSteps, Steps
<1>8. Goes(c, then) /\ Still(loc[c].slot)
  BY <1>1, <1>4, <1>5, <1>6, <1>7, TokenGoes, Zenon DEF ClaimSteps
<1> QED
  BY <1>1, <1>4, <1>8, Zenon DEF Inner

LEMMA ClearReturns ==
  ASSUME TypeOK, NEW c \in Components, RunInv(c), NEW kind \in Kinds,
         NEW at \in {"undo", "clear"}, ClearAndReturn(c, kind, at),
         ViewType', \A d \in Components \ {c} : views'[d] = views[d],
         Still(loc[c].slot) =>
           \A v \in views'[c] : \/ v \in views[c] /\ v.slot # loc[c].slot
                                \/ BufferOwned(c, v)'
  PROVE  Fine(c) /\ RunInv(c)'
<1> USE Types
<1>1. pc[c].op = kind /\ pc[c].at = at
  BY AtFacts, Zenon DEF ClearAndReturn
<1>2. loc[c].slot \in Slots
  BY <1>1, WorkFacts, Zenon DEF RunInv
<1>3. /\ Moves(c, "NONE", "idle") /\ LocType' /\ loc'[c] = NoCall
      /\ \A d \in Components \ {c} : loc'[d] = loc[d]
      /\ ring' = ring /\ life' = life
  BY Returns, Zenon DEF ClearAndReturn
<1>4. PICK t \in Tokens : /\ SetsToken(loc[c].slot, t)
                          /\ Here(c).token.comp = c \/ t = Here(c).token
  BY <1>2, ClearSets, Zenon DEF ClearAndReturn
<1>5. Still(loc[c].slot) /\ SlotType' /\ \A r \in Slots \ {loc[c].slot} : slot'[r] = slot[r]
  BY <1>4, Zenon DEF SetsToken, OnlySlot, Still
<1>6. TypeOK' /\ Frame(c) /\ RunInv(c)'
  BY <1>3, <1>5, StepReturns, Zenon DEF RingType
<1>7. HoldsToken(c) /\ ~InClaim(c) /\ ~HoldsToken(c)' /\ ~InClaim(c)'
  BY <1>1, <1>3, Zenon DEF HoldsToken, InClaim, Moves
<1>8. Fine(c)
  BY <1>2, <1>3, <1>4, <1>6, <1>7, TokenFine, Zenon
<1> QED
  BY <1>6, <1>8, Zenon

LEMMA SameRings ==
  ASSUME ring' = ring
  PROVE  Descriptors' = Descriptors
BY DEF Descriptors

LEMMA BehindAlone ==
  ASSUME ring' = ring, NEW s \in Slots,
         slot'[s].generation = slot[s].generation, slot'[s].sequence = slot[s].sequence
  PROVE  /\ Behind(s) => Behind(s)'
         /\ Fresh(s) => Fresh(s)'
BY SameRings, Zenon DEF Behind, Fresh

LEMMA WorkGoes ==
  ASSUME TypeOK, NEW c \in Components, RunInv(c), InClaim(c),
         NEW label \in RunSteps(pc[c].op), Within(c, label), OnlySlot(loc[c].slot),
         slot'[loc[c].slot].token = Here(c).token,
         pc[c].op \in {"SEND", "ROLLBACK", "RELEASE"} =>
           /\ loc'[c].generation = loc[c].generation
           /\ loc'[c].epoch = loc[c].epoch,
         Works(c, loc[c].slot),
         label \in ClaimSteps => slot'[loc[c].slot].state = "CLAIMING"
  PROVE  Goes(c, label)
<1>1. pc[c].at \in ClaimSteps /\ Here(c).state = "CLAIMING"
  BY WorkFacts, Zenon DEF InClaim, ClaimSteps, RunInv
<1>2. /\ TypeOK' /\ Frame(c) /\ WorkInv(c)' /\ ViewWork(c)'
      /\ pc'[c].op = pc[c].op /\ pc'[c].at = label
      /\ loc[c].slot \in Slots /\ life' = life /\ ring' = ring
  BY <1>1, StepWithin, Zenon DEF ClaimSteps
<1>3. loc'[c].slot = loc[c].slot
  BY Zenon DEF Within
<1>4. Fine(c)
  BY <1>2, <1>3, WorkFine, Zenon
<1> QED
  BY <1>2, <1>3, <1>4, Zenon DEF Goes

LEMMA PublishGoes ==
  ASSUME TypeOK, NEW c \in Components, RunInv(c), NEW kind \in Kinds,
         NEW at \in ClaimSteps, NEW state \in {"FREE", "OWNED", "TRANSFER"},
         NEW then \in RunSteps(kind) \cap {"undo", "clear"},
         Publish(c, kind, at, state, then),
         Here(c).owner \in {c, NoComponent} \/ state = "TRANSFER",
         state = "FREE" => Here(c).owner = NoComponent,
         state # "FREE" => Belongs(loc[c].slot) /\ Behind(loc[c].slot)
  PROVE  Goes(c, then) /\ SetsState(loc[c].slot, state) /\ loc' = loc
<1>1. pc[c].op = kind /\ pc[c].at = at
  BY AtFacts, Zenon DEF Publish
<1>2. loc[c].slot \in Slots /\ InClaim(c)
  BY <1>1, WorkFacts, Zenon DEF RunInv, InClaim, ClaimSteps
<1>3. state \in States /\ then \in Labels
  BY Zenon DEF States, Labels
<1>4. SetsState(loc[c].slot, state) /\ Inner(c, then)
  BY <1>2, <1>3, PublishEffect, Zenon
<1>5. Within(c, then)
  BY <1>4, InnerWithin, Zenon
<1>6. EndsWell(loc[c].slot)
  <2>1. /\ slot'[loc[c].slot].state = state /\ SameFields(loc[c].slot)
        /\ slot[loc[c].slot].generation \in Nat
    BY <1>2, <1>4, Types, FieldTypes, Zenon DEF SetsState
  <2>2. life' = life /\ ring' = ring /\ loc' = loc
    BY <1>4, Zenon DEF Inner
  <2>3. state # "FREE" => Belongs(loc[c].slot)' /\ Behind(loc[c].slot)'
    BY <1>2, <2>1, <2>2, BehindAlone, Zenon DEF Belongs, SameFields
  <2> QED
    BY <2>1, <2>2, <2>3 DEF EndsWell, SameFields, Here
<1>7. Works(c, loc[c].slot)
  BY <1>2, <1>4, <1>6, Zenon DEF Works, SetsState, Here
<1>8. Goes(c, then)
  BY <1>1, <1>2, <1>4, <1>5, <1>7, WorkGoes, Zenon DEF SetsState, ClaimSteps, Inner, Here
<1> QED
  BY <1>4, <1>8, Zenon DEF Inner

LEMMA ClaimGoes ==
  ASSUME TypeOK, NEW c \in Components, RunInv(c), NEW kind \in Kinds,
         NEW from \in {"FREE", "OWNED", "TRANSFER"}, CasState(c, kind, from),
         from = "OWNED" => Here(c).owner = c /\ kind \notin {"ALLOCATE", "RECEIVE"}
  PROVE  /\ pc[c].op = kind /\ pc[c].at = "claim" /\ loc' = loc
         /\ \/ /\ Goes(c, "fill") /\ Here(c).state = from
               /\ SetsState(loc[c].slot, "CLAIMING")
            \/ Goes(c, "undo") /\ slot' = slot
<1>1. pc[c].op = kind /\ pc[c].at = "claim"
  BY AtFacts, Zenon DEF CasState
<1>2. loc[c].slot \in Slots /\ HoldsToken(c) /\ ~InClaim(c)
  BY <1>1, WorkFacts, Zenon DEF RunInv, InClaim, HoldsToken
<1>3. {"fill", "undo"} \subseteq RunSteps(kind)
  BY Zenon DEF RunSteps, Steps, Kinds
<1>4. CASE /\ Here(c).state = from
           /\ SetsState(loc[c].slot, "CLAIMING")
           /\ Inner(c, "fill")
  <2>1. Within(c, "fill") /\ OnlySlot(loc[c].slot) /\ slot'[loc[c].slot].state = "CLAIMING"
    BY <1>4, InnerWithin, Zenon DEF SetsState
  <2>2. /\ TypeOK' /\ Frame(c) /\ WorkInv(c)' /\ ViewWork(c)'
        /\ pc'[c].op = pc[c].op /\ pc'[c].at = "fill"
        /\ life' = life /\ ring' = ring
    BY <1>1, <1>3, <1>4, <2>1, StepWithin, Zenon DEF Inner
  <2>3. loc' = loc /\ InClaim(c)'
    BY <1>4, <2>2, Zenon DEF Inner, InClaim
  <2>4. Fine(c)
    BY <1>2, <1>4, <2>2, <2>3, TakeFine, Zenon
  <2> QED
    BY <1>1, <1>2, <1>4, <2>2, <2>3, <2>4, Zenon DEF Goes
<1>5. CASE slot' = slot /\ Inner(c, "undo")
  <2>1. Within(c, "undo") /\ loc' = loc
    BY <1>5, InnerWithin, Zenon DEF Inner
  <2>2. Goes(c, "undo")
    BY <1>1, <1>2, <1>3, <1>5, <2>1, QuietGoes, Zenon DEF ClaimSteps
  <2> QED
    BY <1>1, <1>5, <2>1, <2>2, Zenon
<1> QED
  BY <1>2, <1>4, <1>5, CasStateEffect, Zenon

(***************************************************************************)
(* Facts about the slot and the views of a runtime.                        *)
(***************************************************************************)
LEMMA MineKept ==
  ASSUME NEW c \in Components, loc'[c] = loc[c], life' = life, SameFields(loc[c].slot)
  PROVE  /\ Mine(c) => Mine(c)'
         /\ Transferring(c) => Transferring(c)'
<1>1. Mine(c) => Mine(c)'
  BY SameEpoch, Zenon DEF Mine, Here, SameFields
<1> QED
  BY <1>1, Zenon DEF Transferring, Here, SameFields

\* The epoch of a component that is registered is its current one.
LEMMA MineBelongs ==
  ASSUME NEW c \in Components, life[c].state = "ACTIVE", Mine(c)
  PROVE  Belongs(loc[c].slot)
BY Zenon DEF Belongs, Mine, RegisteredEpoch, Here

\* Outside the calls that give a buffer away every view is of an owned slot.
LEMMA ViewsOwned ==
  ASSUME NEW c \in Components, RunInv(c), pc[c].op \notin {"SEND", "ROLLBACK", "RELEASE"},
         NEW v \in views[c]
  PROVE  BufferOwned(c, v)
BY Zenon DEF RunInv, ViewWork

LEMMA StillOwned ==
  ASSUME NEW c \in Components, NEW v, BufferOwned(c, v), Still(v.slot), life' = life
  PROVE  BufferOwned(c, v)'
BY SameEpoch, Zenon DEF BufferOwned, Still, SameFields

\* A call that leaves every slot as it was and gives no buffer away.
LEMMA StillViews ==
  ASSUME TypeOK, NEW c \in Components, RunInv(c),
         pc[c].op \notin {"SEND", "ROLLBACK", "RELEASE"},
         pc'[c].op \notin {"SEND", "ROLLBACK", "RELEASE"},
         \A s \in Slots : Still(s), life' = life, views' = views
  PROVE  ViewWork(c)'
<1> SUFFICES ASSUME NEW v \in views[c]
             PROVE  BufferOwned(c, v)'
  BY Zenon DEF ViewWork
<1>1. v.slot \in Slots
  BY Types DEF ViewType, View
<1> QED
  BY <1>1, ViewsOwned, StillOwned, Zenon

\* A call begins, or an allocation probes the next slot.
LEMMA Starts ==
  ASSUME TypeOK, NEW c \in Components, RunInv(c), pc[c].at \in {"idle", "scan"},
         NEW kind \in {"ALLOCATE", "SEND", "RECEIVE", "RELEASE"},
         NEW label \in RunSteps(kind) \cap {"scan", "token", "check"},
         Moves(c, kind, label), LocType', \A d \in Components \ {c} : loc'[d] = loc[d],
         label # "scan" => loc'[c].slot \in Slots,
         SlotType', \A s \in Slots : Still(s) /\ slot'[s].token = slot[s].token,
         ring' = ring, life' = life, views' = views
  PROVE  Fine(c) /\ WorkInv(c)' /\ pc'[c].op = kind /\ pc'[c].at = label
<1> USE Types
<1>1. TypeOK'
  BY Zenon DEF TypeOK, Moves, SlotType, RingType, LifeType, ViewType, PcType, LocType
<1>2. Frame(c) /\ pc'[c].op = kind /\ pc'[c].at = label
  BY Zenon DEF Frame, Moves
<1>3. ~InClaim(c) /\ ~InClaim(c)' /\ ~HoldsToken(c)'
  BY <1>2, Zenon DEF InClaim, HoldsToken
<1>4. TokenMove(c)
  BY <1>3, Zenon DEF TokenMove
<1>5. Fine(c)
  BY <1>1, <1>2, <1>3, <1>4, OutsideFine, Zenon
<1>6. WorkInv(c)'
  BY <1>2, <1>3, Zenon DEF WorkInv, RunSteps
<1> QED
  BY <1>2, <1>5, <1>6, Zenon

(***************************************************************************)
(* zipc_buffer_alloc.                                                      *)
(***************************************************************************)
LEMMA AllocOf ==
  ASSUME NEW c \in Components, NEW label, Goes(c, label), pc[c].op = "ALLOCATE", AllocWork(c)'
  PROVE  Fine(c) /\ RunInv(c)'
BY RunInvOf, Zenon DEF Goes

LEMMA AllocStarts ==
  ASSUME TypeOK, NEW c \in Components, RunInv(c), AllocCall(c) \/ AllocProbe(c) \/ AllocNone(c)
  PROVE  Fine(c) /\ RunInv(c)'
<1> USE Types
<1>0. /\ slot' = slot /\ ring' = ring /\ life' = life /\ views' = views
      /\ SlotType' /\ \A s \in Slots : Still(s) /\ slot'[s].token = slot[s].token
  BY Zenon DEF AllocCall, AllocProbe, AllocNone, SlotType, Still, SameFields
<1>1. CASE AllocCall(c)
  <2>1. pc[c].op = "NONE" /\ pc[c].at = "idle"
    BY <1>1, AtFacts, Zenon DEF AllocCall, Idle
  <2>2. Moves(c, "ALLOCATE", "scan")
    BY <1>1, EnterMoves, Zenon DEF AllocCall, Kinds, Labels
  <2>3. RegisteredEpoch(c) \in Nat
    BY Zenon DEF RegisteredEpoch, LifeType
  <2>4. /\ LocType'
        /\ \A d \in Components \ {c} : loc'[d] = loc[d]
        /\ loc'[c].epoch = RegisteredEpoch(c)
    <3>1. PICK t \in SUBSET Slots :
            loc' = [loc EXCEPT ![c].todo = t, ![c].epoch = RegisteredEpoch(c)]
      BY <1>1, Zenon DEF AllocCall
    <3>2. PICK r \in Locals :
            r = [loc[c] EXCEPT !.todo = t, !.epoch = RegisteredEpoch(c)]
      BY <2>3 DEF LocType, Locals
    <3>3. r.epoch = RegisteredEpoch(c)
      BY <3>2, Zenon DEF LocType, Locals
    <3>4. loc' = [loc EXCEPT ![c] = r]
      BY <3>1, <3>2, Zenon DEF LocType
    <3> QED
      BY <3>3, <3>4, LocalsUpdate, Zenon
  <2>5. Fine(c) /\ WorkInv(c)' /\ pc'[c].op = "ALLOCATE" /\ pc'[c].at = "scan"
    BY <1>0, <2>1, <2>2, <2>4, Starts, Zenon DEF RunSteps, Steps
  <2>6. AllocWork(c)'
    BY <1>0, <2>4, <2>5, SameEpoch, Zenon DEF AllocWork
  <2>7. ViewWork(c)'
    BY <1>0, <2>1, <2>5, StillViews, Zenon
  <2> QED
    BY <2>5, <2>6, <2>7, RunInvOf, Zenon
<1>2. CASE AllocProbe(c)
  <2>1. pc[c].op = "ALLOCATE" /\ pc[c].at = "scan"
    BY <1>2, AtFacts, Zenon DEF AllocProbe
  <2>2. PICK r \in loc[c].todo :
          IF slot[r].state = "FREE"
          THEN /\ loc' = [loc EXCEPT ![c].slot = r, ![c].todo = @ \ {r}]
               /\ Goto(c, "token")
          ELSE /\ loc' = [loc EXCEPT ![c].todo = @ \ {r}]
               /\ UNCHANGED pc
    BY <1>2, Zenon DEF AllocProbe
  <2>3. r \in Slots
    BY LocalTypes, Zenon
  <2>4. /\ LocType'
        /\ \A d \in Components \ {c} : loc'[d] = loc[d]
        /\ loc'[c].epoch = loc[c].epoch
        /\ slot[r].state = "FREE" => loc'[c].slot = r
    BY <2>2, <2>3 DEF LocType, Locals
  <2>5. PICK label \in {"token", "scan"} :
          Moves(c, "ALLOCATE", label) /\ (label = "token" => loc'[c].slot \in Slots)
    <3>1. CASE slot[r].state = "FREE"
      BY <2>1, <2>2, <2>3, <2>4, <3>1, GotoMoves, Zenon DEF Labels
    <3>2. CASE slot[r].state # "FREE"
      BY <2>1, <2>2, <3>2, Zenon DEF Moves, PcType
    <3> QED
      BY <3>1, <3>2, Zenon
  <2>6. Fine(c) /\ WorkInv(c)' /\ pc'[c].op = "ALLOCATE" /\ pc'[c].at = label
    BY <1>0, <2>1, <2>4, <2>5, Starts, Zenon DEF RunSteps, Steps
  <2>7. AllocWork(c)'
    BY <1>0, <2>1, <2>4, <2>6, SameEpoch, Zenon DEF AllocWork, RunInv
  <2>8. ViewWork(c)'
    BY <1>0, <2>1, <2>6, StillViews, Zenon
  <2> QED
    BY <2>6, <2>7, <2>8, RunInvOf, Zenon
<1>3. CASE AllocNone(c)
  <2>1. pc[c].op = "ALLOCATE" /\ pc[c].at = "scan"
    BY <1>3, AtFacts, Zenon DEF AllocNone
  <2>2. /\ Moves(c, "NONE", "idle") /\ LocType' /\ loc'[c] = NoCall
        /\ \A d \in Components \ {c} : loc'[d] = loc[d]
    BY <1>3, Returns, Zenon DEF AllocNone
  <2>3. \A v \in views[c] : BufferOwned(c, v)'
    <3> TAKE v \in views[c]
    <3>1. v.slot \in Slots
      BY DEF ViewType, View
    <3> QED
      BY <1>0, <2>1, <3>1, ViewsOwned, StillOwned, Zenon
  <2>4. TypeOK' /\ Frame(c) /\ RunInv(c)'
    BY <1>0, <2>2, <2>3, StepReturns, Zenon DEF ViewType, RingType
  <2>5. ~InClaim(c) /\ ~InClaim(c)' /\ ~HoldsToken(c)'
    BY <2>1, <2>2, Zenon DEF InClaim, HoldsToken, Moves
  <2>6. TokenMove(c)
    BY <1>0, <2>5, Zenon DEF TokenMove
  <2> QED
    BY <1>0, <2>4, <2>5, <2>6, OutsideFine, Zenon
<1> QED
  BY <1>1, <1>2, <1>3, Zenon

LEMMA AllocWrites ==
  ASSUME TypeOK, NEW c \in Components, RunInv(c), KeptInv(loc[c].slot), AllocFill(c)
  PROVE  Fine(c) /\ RunInv(c)'
<1> USE Types
<1> DEFINE allocated ==
      [InitialSlot EXCEPT !.state = "CLAIMING", !.token = Here(c).token,
         !.generation = Here(c).generation + 1, !.owner = c,
         !.epoch = loc[c].epoch, !.hops = 1, !.region = "SET"]
<1> DEFINE freed ==
      [allocated EXCEPT !.owner = NoComponent, !.region = "EMPTY"]
<1>1. pc[c].op = "ALLOCATE" /\ pc[c].at = "fill"
  BY AtFacts, Zenon DEF AllocFill
<1>2. /\ loc[c].slot \in Slots /\ InClaim(c)
      /\ Here(c).owner = NoComponent /\ loc[c].epoch = RegisteredEpoch(c)
  BY <1>1, WorkFacts, Zenon DEF InClaim, RunInv, AllocWork
<1>3. PICK g \in Nat : g = Here(c).generation
  BY <1>2, FieldTypes, Zenon DEF Here
<1>4. /\ allocated \in SlotControl
      /\ allocated.token = Here(c).token /\ allocated.state = "CLAIMING"
      /\ allocated.owner = c /\ allocated.epoch = loc[c].epoch
      /\ allocated.generation = g + 1
  <2>1. loc[c].epoch \in Nat /\ Here(c).token \in Tokens /\ g + 1 \in Nat
    BY <1>2, LocalTypes, FieldTypes DEF Here
  <2>2. /\ allocated.token = Here(c).token /\ allocated.state = "CLAIMING"
        /\ allocated.owner = c /\ allocated.epoch = loc[c].epoch
        /\ allocated.generation = g + 1
    BY <1>3, Zenon DEF InitialSlot
  <2>3. allocated \in SlotControl
    BY <1>3, <2>1, InitialTypes, Zenon DEF SlotControl, States
  <2> QED
    BY <2>2, <2>3, Zenon
<1>5. /\ freed \in SlotControl
      /\ freed.token = Here(c).token /\ freed.state = "CLAIMING"
      /\ freed.owner = NoComponent /\ freed.generation = g + 1
  BY <1>4 DEF SlotControl
<1> HIDE DEF allocated, freed
<1>6. ASSUME slot'[loc[c].slot].state = "CLAIMING",
             slot'[loc[c].slot].generation = g + 1,
             InClaim(c)' /\ loc'[c].slot = loc[c].slot
      PROVE  Works(c, loc[c].slot)
  <2>1. g + 1 >= g
    OBVIOUS
  <2>2. EndsWell(loc[c].slot)
    BY <1>3, <1>6, <2>1, Zenon DEF EndsWell, Here
  <2> QED
    BY <1>2, <1>6, <2>2, Zenon DEF Works, Here
<1>7. CASE /\ slot' = [slot EXCEPT ![loc[c].slot] = allocated]
           /\ loc' = [loc EXCEPT ![c].generation = allocated.generation]
           /\ Goto(c, "publish")
  <2>1. OnlySlot(loc[c].slot) /\ slot'[loc[c].slot] = allocated
    BY <1>2, <1>4, <1>7, RecordUpdate, Zenon
  <2>2. /\ Within(c, "publish")
        /\ loc'[c].epoch = loc[c].epoch
        /\ loc'[c].generation = g + 1
    <3>1. Moves(c, pc[c].op, "publish")
      BY <1>7, GotoMoves, Zenon DEF Labels
    <3>2. /\ LocType' /\ loc'[c].slot = loc[c].slot
          /\ \A d \in Components \ {c} : loc'[d] = loc[d]
          /\ loc'[c].epoch = loc[c].epoch
          /\ loc'[c].generation = g + 1
      BY <1>4, <1>7 DEF LocType, Locals
    <3> QED
      BY <3>1, <3>2, Zenon DEF Within, AllocFill
  <2>3. InClaim(c)' /\ loc'[c].slot = loc[c].slot /\ ring' = ring /\ life' = life
    BY <2>2, Zenon DEF InClaim, Within, Moves
  <2>4. Goes(c, "publish")
    BY <1>1, <1>2, <1>4, <1>6, <2>1, <2>2, <2>3, WorkGoes, Zenon DEF RunSteps, Steps
  <2>5. Mine(c)'
    BY <1>2, <1>4, <2>1, <2>2, <2>3, SameEpoch, Zenon DEF Mine, Here
  <2>6. Behind(loc[c].slot)'
    <3> SUFFICES ASSUME NEW m \in Descriptors, m.slot = loc[c].slot
                 PROVE  m.generation # g + 1
      BY <1>4, <2>1, <2>3, SameRings, Zenon DEF Behind
    <3>1. m.generation \in Nat /\ m.generation <= g
      BY <1>3, DescriptorType, MessageFields, Zenon DEF KeptInv, Older, Here
    <3> QED
      BY <3>1
  <2>7. AllocWork(c)'
    BY <1>2, <2>2, <2>3, <2>4, <2>5, <2>6, SameEpoch, Zenon DEF AllocWork, Goes
  <2> QED
    BY <1>1, <2>4, <2>7, AllocOf, Zenon
<1>8. CASE /\ slot' = [slot EXCEPT ![loc[c].slot] = freed]
           /\ loc' = [loc EXCEPT ![c].todo = {}]
           /\ Goto(c, "free")
  <2>1. OnlySlot(loc[c].slot) /\ slot'[loc[c].slot] = freed
    BY <1>2, <1>5, <1>8, RecordUpdate, Zenon
  <2>2. Within(c, "free") /\ loc'[c].epoch = loc[c].epoch
    <3>1. Moves(c, pc[c].op, "free")
      BY <1>8, GotoMoves, Zenon DEF Labels
    <3>2. /\ LocType' /\ loc'[c].slot = loc[c].slot
          /\ \A d \in Components \ {c} : loc'[d] = loc[d]
          /\ loc'[c].epoch = loc[c].epoch
      BY <1>8 DEF LocType, Locals
    <3> QED
      BY <3>1, <3>2, Zenon DEF Within, AllocFill
  <2>3. InClaim(c)' /\ loc'[c].slot = loc[c].slot /\ ring' = ring /\ life' = life
    BY <2>2, Zenon DEF InClaim, Within, Moves
  <2>4. Goes(c, "free")
    BY <1>1, <1>2, <1>5, <1>6, <2>1, <2>2, <2>3, WorkGoes, Zenon DEF RunSteps, Steps
  <2>5. AllocWork(c)'
    BY <1>2, <1>5, <2>1, <2>2, <2>3, <2>4, SameEpoch, Zenon DEF AllocWork, Goes, Here
  <2> QED
    BY <1>1, <2>4, <2>5, AllocOf, Zenon
<1> QED
  BY <1>7, <1>8, Zenon DEF AllocFill, allocated, freed

LEMMA AllocRuns ==
  ASSUME TypeOK, NEW c \in Components, RunInv(c), life[c].state = "ACTIVE",
         \A s \in Slots : KeptInv(s), AllocStep(c)
  PROVE  Fine(c) /\ RunInv(c)'
<1> USE Types
<1>1. CASE AllocToken(c)
  <2>1. pc[c].op = "ALLOCATE" /\ pc[c].at = "token" /\ life' = life
    BY <1>1, AtFacts, Zenon DEF AllocToken, CasToken
  <2>2. CASE Here(c).token = NoToken
    <3>1. Goes(c, "claim") /\ loc' = loc
      BY <1>1, <2>2, TokenTakenGoes, Zenon DEF AllocToken, CasToken, Kinds
    <3>2. AllocWork(c)'
      BY <2>1, <3>1, SameEpoch, Zenon DEF AllocWork, RunInv, Goes
    <3> QED
      BY <2>1, <3>1, <3>2, AllocOf, Zenon
  <2>3. CASE Here(c).token # NoToken
    <3>1. Inner(c, "scan") /\ slot' = slot /\ loc' = loc
      BY <1>1, <2>3, GotoMoves, Zenon DEF AllocToken, CasToken, Inner, Labels
    <3>2. Within(c, "scan")
      BY <3>1, InnerWithin, Zenon
    <3>3. Goes(c, "scan")
      BY <2>1, <3>1, <3>2, QuietGoes, Zenon
         DEF RunSteps, Steps, InClaim, ClaimSteps, HoldingSteps
    <3>4. AllocWork(c)'
      BY <2>1, <3>1, <3>3, SameEpoch, Zenon DEF AllocWork, RunInv, Goes
    <3> QED
      BY <2>1, <3>3, <3>4, AllocOf, Zenon
  <2> QED
    BY <2>2, <2>3, Zenon
<1>2. CASE AllocClaim(c)
  <2>1. /\ pc[c].op = "ALLOCATE" /\ pc[c].at = "claim" /\ loc' = loc
        /\ \/ /\ Goes(c, "fill") /\ Here(c).state = "FREE"
              /\ SetsState(loc[c].slot, "CLAIMING")
           \/ Goes(c, "undo") /\ slot' = slot
    BY <1>2, ClaimGoes, Zenon DEF AllocClaim, Kinds
  <2>2. CASE /\ Goes(c, "fill") /\ Here(c).state = "FREE"
             /\ SetsState(loc[c].slot, "CLAIMING")
    <3>1. Here(c).owner = NoComponent
      BY <2>2, Zenon DEF Goes, KeptInv, Here
    <3>2. AllocWork(c)'
      BY <2>1, <2>2, <3>1, SameEpoch, Zenon
         DEF AllocWork, RunInv, Goes, SetsState, SameFields, Here
    <3> QED
      BY <2>1, <2>2, <3>2, AllocOf, Zenon
  <2>3. CASE Goes(c, "undo") /\ slot' = slot
    <3>1. AllocWork(c)'
      BY <2>1, <2>3, SameEpoch, Zenon DEF AllocWork, RunInv, Goes
    <3> QED
      BY <2>1, <2>3, <3>1, AllocOf, Zenon
  <2> QED
    BY <2>1, <2>2, <2>3, Zenon
<1>3. CASE AllocUndo(c)
  <2>1. Goes(c, "scan") /\ loc' = loc /\ pc[c].op = "ALLOCATE"
    BY <1>3, ClearGoes, Zenon DEF AllocUndo, Kinds, RunSteps, Steps
  <2>2. AllocWork(c)'
    BY <2>1, SameEpoch, Zenon DEF AllocWork, RunInv, Goes
  <2> QED
    BY <2>1, <2>2, AllocOf, Zenon
<1>4. CASE AllocFill(c)
  <2>1. loc[c].slot \in Slots
    BY <1>4, AtFacts, WorkFacts DEF AllocFill, RunInv
  <2> QED
    BY <1>4, <2>1, AllocWrites, Zenon
<1>5. CASE AllocFree(c)
  <2>1. pc[c].op = "ALLOCATE" /\ pc[c].at = "free"
    BY <1>5, AtFacts, Zenon DEF AllocFree, Publish
  <2>2. /\ "ALLOCATE" \in Kinds /\ "free" \in ClaimSteps
        /\ "undo" \in RunSteps("ALLOCATE") \cap {"undo", "clear"}
    BY DEF Kinds, RunSteps, Steps, ClaimSteps
  <2>3. Here(c).owner = NoComponent
    BY <2>1, Zenon DEF RunInv, AllocWork
  <2>4. Publish(c, "ALLOCATE", "free", "FREE", "undo")
    BY <1>5, Zenon DEF AllocFree
  <2>5. Goes(c, "undo") /\ loc' = loc
    BY <2>2, <2>3, <2>4, PublishGoes, Zenon
  <2>6. AllocWork(c)'
    BY <2>1, <2>5, SameEpoch, Zenon DEF AllocWork, RunInv, Goes
  <2> QED
    BY <2>1, <2>2, <2>5, <2>6, AllocOf, Zenon
<1>6. CASE AllocPublish(c)
  <2>1. pc[c].op = "ALLOCATE" /\ pc[c].at = "publish"
    BY <1>6, AtFacts, Zenon DEF AllocPublish, Publish
  <2>2. Mine(c) /\ Behind(loc[c].slot) /\ Here(c).owner = c
    BY <2>1, Zenon DEF RunInv, AllocWork, Mine
  <2>3. Belongs(loc[c].slot)
    BY <2>2, MineBelongs, Zenon
  <2>4. Goes(c, "clear") /\ loc' = loc /\ SetsState(loc[c].slot, "OWNED")
    <3>1. /\ "ALLOCATE" \in Kinds /\ "publish" \in ClaimSteps
          /\ "clear" \in RunSteps("ALLOCATE") \cap {"undo", "clear"}
      BY DEF Kinds, RunSteps, Steps, ClaimSteps
    <3>2. Publish(c, "ALLOCATE", "publish", "OWNED", "clear")
      BY <1>6, Zenon DEF AllocPublish
    <3>3. QED
      BY <2>2, <2>3, <3>1, <3>2, PublishGoes, Zenon
  <2>5. Mine(c)' /\ Here(c)'.state = "OWNED" /\ life' = life
    BY <2>2, <2>4, MineKept, Zenon DEF SetsState, Here, Goes
  <2>6. AllocWork(c)'
    BY <2>4, <2>5, SameEpoch, Zenon DEF AllocWork, Goes, Mine
  <2> QED
    BY <2>1, <2>4, <2>6, AllocOf, Zenon
<1>7. CASE AllocClear(c)
  <2>1. /\ pc[c].op = "ALLOCATE" /\ pc[c].at = "clear" /\ loc[c].slot \in Slots
        /\ life' = life
    BY <1>7, AtFacts, WorkFacts DEF AllocClear, ClearAndReturn, RunInv
  <2>2. PICK new \in View :
          new = [slot |-> loc[c].slot, generation |-> loc[c].generation,
                 epoch |-> loc[c].epoch]
    BY <2>1, LocalTypes, Zenon DEF View
  <2>3. views' = [views EXCEPT ![c] = @ \cup {new}]
    BY <1>7, <2>2, Zenon DEF AllocClear, AddView
  <2>4. /\ ViewType' /\ \A d \in Components \ {c} : views'[d] = views[d]
        /\ \A v \in views'[c] : v \in views[c] \/ v = new
    BY <2>3, Zenon DEF ViewType
  <2>5. BufferOwned(c, new) /\ new.slot = loc[c].slot
    BY <2>1, <2>2, Zenon DEF BufferOwned, RunInv, AllocWork, Mine, Here
  <2>6. ASSUME Still(loc[c].slot), NEW v \in views'[c]
        PROVE  (v \in views[c] /\ v.slot # loc[c].slot) \/ BufferOwned(c, v)'
    BY <2>1, <2>4, <2>5, <2>6, ViewsOwned, StillOwned, Zenon
  <2> QED
    BY <1>7, <2>4, <2>6, ClearReturns, Zenon DEF AllocClear, Kinds
<1> QED
  BY <1>1, <1>2, <1>3, <1>4, <1>5, <1>6, <1>7, AllocStarts, Zenon DEF AllocStep

(***************************************************************************)
(* zipc_send.                                                              *)
(***************************************************************************)
LEMMA SendOf ==
  ASSUME NEW c \in Components, NEW label, Goes(c, label), pc[c].op = "SEND", SendWork(c)'
  PROVE  Fine(c) /\ RunInv(c)'
BY RunInvOf, Zenon DEF Goes

\* The caller still owns the slot of its call when the call returns.
LEMMA OwnerViews ==
  ASSUME NEW c \in Components, RunInv(c), pc[c].op \in {"SEND", "ROLLBACK", "RELEASE"},
         pc[c].op = "ROLLBACK" => pc[c].at \notin {"undo", "lost"},
         Mine(c), Here(c).state = "OWNED", Still(loc[c].slot), life' = life,
         NEW v \in views[c]
  PROVE  v.slot # loc[c].slot \/ BufferOwned(c, v)'
<1> SUFFICES ASSUME v.slot = loc[c].slot
             PROVE  BufferOwned(c, v)'
  BY Zenon
<1>1. v.generation = loc[c].generation /\ v.epoch = loc[c].epoch
  BY Zenon DEF RunInv, ViewWork
<1>2. BufferOwned(c, v)
  BY <1>1, Zenon DEF BufferOwned, Mine, Here
<1> QED
  BY <1>2, StillOwned, Zenon

\* A call returns and leaves the slots alone.
LEMMA QuietReturns ==
  ASSUME TypeOK, NEW c \in Components, RunInv(c), ~InClaim(c), Return(c),
         slot' = slot, RingType', RingMove(c), life' = life,
         ViewType', \A d \in Components \ {c} : views'[d] = views[d],
         \A v \in views'[c] : \/ v \in views[c] /\ v.slot # loc[c].slot
                              \/ BufferOwned(c, v)'
  PROVE  Fine(c) /\ RunInv(c)'
<1> USE Types
<1>1. /\ Moves(c, "NONE", "idle") /\ LocType' /\ loc'[c] = NoCall
      /\ \A d \in Components \ {c} : loc'[d] = loc[d]
  BY Returns, Zenon
<1>2. TypeOK' /\ Frame(c) /\ RunInv(c)'
  BY <1>1, StepReturns, Zenon DEF SlotType
<1>3. ~InClaim(c)' /\ ~HoldsToken(c)'
  BY <1>1, Zenon DEF InClaim, HoldsToken, Moves
<1>4. \A s \in Slots : Still(s)
  BY Zenon DEF Still, SameFields
<1>5. TokenMove(c)
  BY <1>3, Zenon DEF TokenMove
<1> QED
  BY <1>2, <1>3, <1>4, <1>5, Zenon DEF Fine, SlotMove, ClaimMove

LEMMA FreshBehind ==
  ASSUME TypeOK, NEW s \in Slots, Fresh(s)
  PROVE  Behind(s)
<1> SUFFICES ASSUME NEW m \in Descriptors, m.slot = s, m.generation = slot[s].generation
             PROVE  m.sequence <= slot[s].sequence
  BY Zenon DEF Behind
<1>1. m.sequence \in Nat /\ slot[s].sequence \in Nat /\ m.sequence < slot[s].sequence
  BY Types, DescriptorType, MessageFields, FieldTypes, Zenon DEF Fresh
<1> QED
  BY <1>1

\* A call on a buffer of the caller begins.
LEMMA OwnerStarts ==
  ASSUME TypeOK, NEW c \in Components, RunInv(c), Idle(c),
         NEW kind \in {"SEND", "RELEASE"}, Moves(c, kind, "token"),
         NEW v \in views[c], BufferOwned(c, v), Journals(v.slot), LocType',
         \A d \in Components \ {c} : loc'[d] = loc[d],
         loc'[c].slot = v.slot, loc'[c].generation = v.generation, loc'[c].epoch = v.epoch,
         ring' = ring, life' = life, views' = views
  PROVE  /\ Fine(c) /\ WorkInv(c)' /\ ViewWork(c)'
         /\ pc'[c].op = kind /\ pc'[c].at = "token"
         /\ Mine(c)' /\ Here(c)'.state = "OWNED"
<1> USE Types
<1>1. pc[c].op = "NONE" /\ pc[c].at = "idle" /\ v.slot \in Slots
  BY AtFacts DEF Idle, ViewType, View
<1>2. SlotType' /\ \A s \in Slots : Still(s) /\ slot'[s].token = slot[s].token
  BY <1>1, JournalLeaves, Zenon DEF Journals, OnlySlot, Still
<1>3. Fine(c) /\ WorkInv(c)' /\ pc'[c].op = kind /\ pc'[c].at = "token"
  BY <1>1, <1>2, Starts DEF RunSteps, Steps
<1>4. BufferOwned(c, v)'
  BY <1>1, <1>2, StillOwned, Zenon
<1>5. Mine(c)' /\ Here(c)'.state = "OWNED"
  BY <1>4, Zenon DEF Mine, Here, BufferOwned
<1>6. ViewWork(c)'
  <2> SUFFICES ASSUME NEW w \in views[c]
               PROVE  /\ w.slot # v.slot => BufferOwned(c, w)'
                      /\ w.slot = v.slot => w.generation = v.generation /\ w.epoch = v.epoch
    BY <1>3, Zenon DEF ViewWork
  <2>1. w.slot \in Slots /\ BufferOwned(c, w)
    BY <1>1, ViewsOwned DEF ViewType, View
  <2> QED
    BY <1>2, <2>1, StillOwned, Zenon DEF BufferOwned
<1> QED
  BY <1>3, <1>5, <1>6, Zenon

LEMMA SendStarts ==
  ASSUME TypeOK, NEW c \in Components, RunInv(c), SendCall(c)
  PROVE  Fine(c) /\ RunInv(c)'
<1> USE Types
<1>1. PICK v \in views[c], l \in Links :
        /\ l[1] = c
        /\ BufferOwned(c, v)
        /\ slot' = [slot EXCEPT ![v.slot].prevSequence = slot[v.slot].sequence]
        /\ loc' = [loc EXCEPT ![c] =
                     [NoCall EXCEPT !.slot = v.slot, !.generation = v.generation,
                                    !.peer = l[2], !.epoch = v.epoch]]
  BY Zenon DEF SendCall
<1>2. Moves(c, "SEND", "token") /\ Idle(c)
  BY EnterMoves, Zenon DEF SendCall, Kinds, Labels
<1>3. v.slot \in Slots /\ v.generation \in Nat /\ v.epoch \in Nat
  BY DEF ViewType, View
<1>4. l = <<c, l[2]>> /\ l[2] \in Components
  BY <1>1, LinkPair, Zenon
<1>5. /\ LocType'
      /\ \A d \in Components \ {c} : loc'[d] = loc[d]
      /\ loc'[c].slot = v.slot
      /\ loc'[c].generation = v.generation
      /\ loc'[c].peer = l[2]
      /\ loc'[c].epoch = v.epoch
  <2> DEFINE r == [NoCall EXCEPT !.slot = v.slot, !.generation = v.generation,
                                 !.peer = l[2], !.epoch = v.epoch]
  <2>1. /\ r \in Locals /\ r.slot = v.slot /\ r.generation = v.generation
        /\ r.peer = l[2] /\ r.epoch = v.epoch
    BY <1>3, <1>4, TokenTypes, Zenon DEF NoCall, Locals, States
  <2>2. loc' = [loc EXCEPT ![c] = r]
    BY <1>1, Zenon
  <2> HIDE DEF r
  <2> QED
    BY <2>1, <2>2, LocalsUpdate, Zenon
<1>6. Journals(v.slot) /\ ring' = ring /\ life' = life /\ views' = views
  BY <1>1, <1>3, FieldTypes, SequenceJournal, Zenon DEF SendCall
<1>7. /\ Fine(c) /\ WorkInv(c)' /\ ViewWork(c)'
      /\ pc'[c].op = "SEND" /\ pc'[c].at = "token"
      /\ Mine(c)' /\ Here(c)'.state = "OWNED"
  BY <1>1, <1>2, <1>5, <1>6, OwnerStarts, Zenon
<1>8. SendWork(c)'
  BY <1>4, <1>5, <1>7, Zenon DEF SendWork
<1> QED
  BY <1>7, <1>8, RunInvOf, Zenon

LEMMA SendWrites ==
  ASSUME TypeOK, NEW c \in Components, RunInv(c), life[c].state = "ACTIVE", SendFill(c)
  PROVE  Fine(c) /\ RunInv(c)'
<1> USE Types
<1>1. pc[c].op = "SEND" /\ pc[c].at = "fill"
  BY AtFacts, Zenon DEF SendFill
<1>2. /\ loc[c].slot \in Slots /\ InClaim(c) /\ Here(c).state = "CLAIMING"
      /\ <<c, loc[c].peer>> \in Links /\ Mine(c) /\ Behind(loc[c].slot)
      /\ Here(c).owner = c
  BY <1>1, WorkFacts, Zenon DEF InClaim, RunInv, SendWork, Mine
<1>3. PICK q \in Nat : q = Here(c).sequence
  BY <1>2, FieldTypes, Zenon DEF Here
<1>4. CASE /\ slot' = [slot EXCEPT ![loc[c].slot] =
                         [@ EXCEPT !.next = loc[c].peer, !.source = c,
                                   !.sourceEpoch = Here(c).epoch,
                                   !.sourceHops = Here(c).hops,
                                   !.sequence = Here(c).sequence + 1]]
           /\ loc' = [loc EXCEPT ![c].sequence = Here(c).sequence + 1]
           /\ Goto(c, "publish")
  <2>0. Here(c) \in SlotControl /\ loc[c].peer \in Components /\ q + 1 \in Nat
    BY <1>2, LinkPair DEF Here, SlotType
  <2> DEFINE new == [Here(c) EXCEPT !.next = loc[c].peer, !.source = c,
                       !.sourceEpoch = Here(c).epoch, !.sourceHops = Here(c).hops,
                       !.sequence = Here(c).sequence + 1]
  <2>1. /\ new \in SlotControl
        /\ new.token = Here(c).token /\ new.state = "CLAIMING"
        /\ new.generation = Here(c).generation /\ new.owner = c
        /\ new.epoch = Here(c).epoch /\ new.next = loc[c].peer
        /\ new.sequence = q + 1
    BY <1>2, <1>3, <2>0, Zenon DEF SlotControl
  <2>2. OnlySlot(loc[c].slot) /\ slot'[loc[c].slot] = new
    <3>1. slot' = [slot EXCEPT ![loc[c].slot] = new]
      BY <1>2, <1>4, Zenon DEF SlotType, Here
    <3> HIDE DEF new
    <3> QED
      BY <1>2, <2>1, <3>1, RecordUpdate, Zenon
  <2> HIDE DEF new
  <2>3. /\ Within(c, "publish")
        /\ loc'[c].epoch = loc[c].epoch
        /\ loc'[c].generation = loc[c].generation
        /\ loc'[c].peer = loc[c].peer
        /\ loc'[c].sequence = q + 1
    <3>1. Moves(c, pc[c].op, "publish")
      BY <1>4, GotoMoves, Zenon DEF Labels
    <3>2. /\ LocType' /\ loc'[c].slot = loc[c].slot
          /\ \A d \in Components \ {c} : loc'[d] = loc[d]
          /\ loc'[c].epoch = loc[c].epoch
          /\ loc'[c].generation = loc[c].generation
          /\ loc'[c].peer = loc[c].peer
          /\ loc'[c].sequence = q + 1
      BY <1>3, <1>4, <2>0 DEF LocType, Locals
    <3> QED
      BY <3>1, <3>2, Zenon DEF Within, SendFill
  <2>4. InClaim(c)' /\ loc'[c].slot = loc[c].slot /\ ring' = ring /\ life' = life
    BY <2>3, Zenon DEF InClaim, Within, Moves
  <2>5. Works(c, loc[c].slot)
    <3>1. Here(c).generation \in Nat
      BY <1>2, FieldTypes, Zenon DEF Here
    <3>2. EndsWell(loc[c].slot)
      BY <2>1, <2>2, <3>1 DEF EndsWell, Here
    <3> QED
      BY <1>2, <2>4, <3>2, Zenon DEF Works, Here
  <2>6. Goes(c, "publish")
    BY <1>1, <1>2, <2>1, <2>2, <2>3, <2>5, WorkGoes, Zenon DEF RunSteps, Steps
  <2>7. Mine(c)'
    BY <1>2, <2>1, <2>2, <2>3, <2>4, SameEpoch DEF Mine, Here
  <2>8. Transferring(c)'
    <3>1. Here(c)'.next = loc'[c].peer /\ Here(c)'.sequence = loc'[c].sequence
      BY <2>1, <2>2, <2>3, <2>4, Zenon DEF Here
    <3>2. loc'[c].sequence > 0
      BY <2>3
    <3> QED
      BY <2>7, <3>1, <3>2, Zenon DEF Transferring
  <2>9. Fresh(loc[c].slot)'
    <3> SUFFICES ASSUME NEW m \in Descriptors, m.slot = loc[c].slot,
                        m.generation = Here(c).generation
                 PROVE  m.sequence < q + 1
      BY <2>1, <2>2, <2>4, SameRings, Zenon DEF Fresh
    <3>1. m.sequence \in Nat /\ m.sequence <= q
      BY <1>2, <1>3, DescriptorType, MessageFields, Zenon DEF Behind, Here
    <3> QED
      BY <3>1
  <2>10. SendWork(c)'
    BY <1>2, <2>3, <2>6, <2>7, <2>8, <2>9, Zenon DEF SendWork, Unpublished, Goes
  <2> QED
    BY <1>1, <2>6, <2>10, SendOf, Zenon
<1>5. CASE /\ slot' = [slot EXCEPT ![loc[c].slot].state = "OWNED"]
           /\ Goto(c, "undo")
           /\ UNCHANGED loc
  <2>1. Publish(c, "SEND", "fill", "OWNED", "undo")
    BY <1>5, Zenon DEF SendFill, Publish
  <2>2. Belongs(loc[c].slot)
    BY <1>2, MineBelongs, Zenon
  <2>3. Goes(c, "undo") /\ SetsState(loc[c].slot, "OWNED") /\ loc' = loc
    BY <1>2, <2>1, <2>2, PublishGoes, Zenon DEF Kinds, RunSteps, Steps, ClaimSteps
  <2>4. SendWork(c)'
    BY <1>2, <2>3, MineKept, Zenon DEF SendWork, Goes, SetsState, Here
  <2> QED
    BY <1>1, <2>3, <2>4, SendOf, Zenon
<1> QED
  BY <1>4, <1>5, Zenon DEF SendFill

LEMMA PushedRings ==
  ASSUME RingType, NEW l \in Links, NEW m \in Message,
         ring' = [ring EXCEPT ![l] = Pushed(@, m)]
  PROVE  /\ RingType'
         /\ \A k \in Links : ring[k] # <<>> => ring'[k] # <<>> /\ ring'[k][1] = ring[k][1]
         /\ \A n \in Descriptors' : n \in Descriptors \/ n = m
<1>1. ring[l] \in Seq(Message) /\ ring'[l] = Pushed(ring[l], m)
  BY Zenon DEF RingType
<1>2. /\ DOMAIN ring' = Links /\ ring' = [k \in Links |-> ring'[k]]
      /\ \A k \in Links \ {l} : ring'[k] = ring[k]
  BY Zenon DEF RingType
<1>3. ring'[l] = ring[l] \/ ring'[l] = Append(ring[l], m)
  BY <1>1, Zenon DEF Pushed
<1>4. RingType'
  <2>1. \A k \in Links : ring'[k] \in Seq(Message)
    BY <1>1, <1>2, <1>3 DEF RingType
  <2> QED
    BY <1>2, <2>1, Zenon DEF RingType
<1>5. ASSUME NEW k \in Links, ring[k] # <<>>
      PROVE  ring'[k] # <<>> /\ ring'[k][1] = ring[k][1]
  BY <1>1, <1>2, <1>3, <1>5
<1>6. ASSUME NEW n \in Descriptors' PROVE n \in Descriptors \/ n = m
  <2>1. PICK k \in Links : \E i \in 1..Len(ring'[k]) : n = ring'[k][i]
    BY <1>6, Zenon DEF Descriptors
  <2>2. PICK i \in 1..Len(ring'[k]) : n = ring'[k][i]
    BY <2>1, Zenon
  <2>3. CASE ring'[k] = ring[k]
    BY <2>2, <2>3 DEF Descriptors
  <2>4. CASE k = l /\ ring'[l] = Append(ring[l], m)
    <3>1. (i \in 1..Len(ring[l]) /\ n = ring[l][i]) \/ n = m
      BY <1>1, <2>2, <2>4
    <3> QED
      BY <3>1 DEF Descriptors
  <2> QED
    BY <1>2, <1>3, <2>3, <2>4, Zenon
<1> QED
  BY <1>4, <1>5, <1>6, Zenon

LEMMA SendPushes ==
  ASSUME TypeOK, NEW c \in Components, RunInv(c), SendPush(c)
  PROVE  Fine(c) /\ RunInv(c)'
<1> USE Types
<1>1. pc[c].op = "SEND" /\ pc[c].at = "push" /\ slot' = slot /\ life' = life
  BY AtFacts, Zenon DEF SendPush
<1>2. /\ loc[c].slot \in Slots /\ ~InClaim(c)
      /\ <<c, loc[c].peer>> \in Links /\ loc[c].peer \in Components
      /\ Unpublished(c) /\ Mine(c) /\ Transferring(c)
      /\ Here(c).state \in {"TRANSFER", "CLAIMING"}
  BY <1>1, WorkFacts, LinkPair, Zenon DEF RunInv, SendWork, InClaim, Unpublished
<1>3. CASE /\ ring' = [ring EXCEPT ![<<c, loc[c].peer>>] = Pushed(@, Descriptor(c))]
           /\ DropView(c)
           /\ Return(c)
  <2>1. PICK m \in Message : m = Descriptor(c)
    BY <1>2, LocalTypes, Zenon DEF Descriptor, Message
  <2>2. Announces(c, m)
    BY <1>1, <1>2, <2>1, Zenon DEF Announces, Descriptor, Transferring, Mine, Here
  <2>3. RingType' /\ RingMove(c)
    BY <1>2, <1>3, <2>1, <2>2, PushedRings, Zenon DEF RingMove
  <2>4. /\ ViewType'
        /\ \A d \in Components \ {c} : views'[d] = views[d]
        /\ \A v \in views'[c] : v \in views[c] /\ v.slot # loc[c].slot
    BY <1>3, Zenon DEF DropView, ViewType
  <2> QED
    BY <1>1, <1>2, <1>3, <2>3, <2>4, QuietReturns, Zenon
<1>4. CASE /\ Enter(c, "ROLLBACK", "check")
           /\ UNCHANGED <<ring, views, loc>>
  <2>1. Moves(c, "ROLLBACK", "check") /\ loc' = loc /\ views' = views /\ ring' = ring
    BY <1>4, EnterMoves, Zenon DEF Kinds, Labels
  <2>2. TypeOK' /\ Frame(c) /\ pc'[c].op = "ROLLBACK" /\ pc'[c].at = "check"
    BY <1>1, <2>1, Zenon DEF TypeOK, Moves, Frame, PcType
  <2>3. /\ (\A s \in Slots : Still(s)) /\ ~InClaim(c)' /\ ~HoldsToken(c)'
    BY <1>1, <2>2, Zenon DEF Still, SameFields, InClaim, HoldsToken
  <2>4. TokenMove(c)
    BY <1>1, <2>3, Zenon DEF TokenMove
  <2>5. Fine(c)
    BY <1>2, <2>1, <2>2, <2>3, <2>4, OutsideFine, Zenon
  <2>6. WorkInv(c)'
    BY <1>2, <2>1, <2>2, <2>3, Zenon DEF WorkInv, Steps
  <2>7. Unpublished(c)' /\ Here(c)'.state \in {"TRANSFER", "CLAIMING"}
    BY <1>1, <1>2, <2>1, MineKept, BehindAlone, Zenon DEF Unpublished, SameFields, Here
  <2>8. RollbackWork(c)'
    BY <2>2, <2>3, <2>7, Zenon DEF RollbackWork, Unpublished, Transferring
  <2>9. ViewWork(c)'
    <3> SUFFICES ASSUME NEW v \in views[c]
                 PROVE  IF v.slot = loc[c].slot
                        THEN v.generation = loc[c].generation /\ v.epoch = loc[c].epoch
                        ELSE BufferOwned(c, v)'
      BY <2>1, <2>2, Zenon DEF ViewWork
    <3>1. v.slot \in Slots
      BY DEF ViewType, View
    <3>2. IF v.slot = loc[c].slot
          THEN v.generation = loc[c].generation /\ v.epoch = loc[c].epoch
          ELSE BufferOwned(c, v)
      BY <1>1, Zenon DEF RunInv, ViewWork
    <3> QED
      BY <1>1, <2>3, <3>1, <3>2, StillOwned, Zenon
  <2> QED
    BY <2>2, <2>5, <2>6, <2>8, <2>9, RunInvOf, Zenon
<1> QED
  BY <1>3, <1>4, Zenon DEF SendPush

LEMMA SendRuns ==
  ASSUME TypeOK, NEW c \in Components, RunInv(c), life[c].state = "ACTIVE",
         \A s \in Slots : KeptInv(s), SendStep(c)
  PROVE  Fine(c) /\ RunInv(c)'
<1> USE Types
<1>0. pc[c].op = "SEND" => loc[c].slot \in Slots /\ Mine(c) /\ <<c, loc[c].peer>> \in Links
  BY WorkFacts, Zenon DEF RunInv, SendWork, Steps
<1>1. CASE SendToken(c)
  <2>1. /\ pc[c].op = "SEND" /\ pc[c].at = "token"
        /\ life' = life /\ ring' = ring /\ views' = views
    BY <1>1, AtFacts, Zenon DEF SendToken, CasToken
  <2>2. Mine(c) /\ Here(c).state = "OWNED"
    BY <2>1, Zenon DEF RunInv, SendWork
  <2>3. CASE Here(c).token = NoToken
    <3>1. Goes(c, "claim") /\ loc' = loc /\ Still(loc[c].slot)
      BY <1>1, <2>3, TokenTakenGoes, Zenon DEF SendToken, CasToken, Kinds
    <3>2. SendWork(c)'
      BY <1>0, <2>1, <2>2, <3>1, MineStill, Zenon DEF SendWork, Goes
    <3> QED
      BY <2>1, <3>1, <3>2, SendOf, Zenon
  <2>4. CASE Here(c).token # NoToken
    <3>1. Return(c) /\ slot' = slot
      BY <1>1, <2>4, Zenon DEF SendToken, CasToken
    <3>2. \A v \in views[c] : v.slot # loc[c].slot \/ BufferOwned(c, v)'
      BY <2>1, <2>2, <3>1, OwnerViews, Zenon DEF Still, SameFields
    <3> QED
      BY <2>1, <3>1, <3>2, QuietReturns, RingsAlone, Zenon DEF InClaim, ViewType, RingType
  <2> QED
    BY <2>3, <2>4, Zenon
<1>2. CASE SendClaim(c)
  <2>1. pc[c].op = "SEND" /\ pc[c].at = "claim"
    BY <1>2, AtFacts, Zenon DEF SendClaim, CasState
  <2>2. Mine(c) /\ Here(c).state = "OWNED" /\ Here(c).owner = c
    BY <2>1, Zenon DEF RunInv, SendWork, Mine
  <2>3. /\ loc' = loc
        /\ \/ Goes(c, "fill") /\ SetsState(loc[c].slot, "CLAIMING")
           \/ Goes(c, "undo") /\ slot' = slot
    BY <1>2, <2>2, ClaimGoes, Zenon DEF SendClaim, Kinds
  <2>4. CASE Goes(c, "fill") /\ SetsState(loc[c].slot, "CLAIMING")
    <3>1. Behind(loc[c].slot)'
      BY <1>0, <2>1, <2>2, <2>4, BehindAlone, Zenon DEF KeptInv, Here, SetsState, SameFields, Goes
    <3>2. Mine(c)'
      BY <2>2, <2>3, <2>4, MineKept, Zenon DEF SetsState, Goes
    <3>3. SendWork(c)'
      BY <1>0, <2>1, <2>3, <2>4, <3>1, <3>2, Zenon DEF SendWork, Goes
    <3> QED
      BY <2>1, <2>4, <3>3, SendOf, Zenon
  <2>5. CASE Goes(c, "undo") /\ slot' = slot
    <3>1. SendWork(c)'
      BY <1>0, <2>1, <2>2, <2>3, <2>5, MineStill, Zenon DEF SendWork, Goes, Still, SameFields
    <3> QED
      BY <2>1, <2>5, <3>1, SendOf, Zenon
  <2> QED
    BY <2>3, <2>4, <2>5, Zenon
<1>3. CASE SendUndo(c)
  <2>1. pc[c].op = "SEND" /\ pc[c].at = "undo" /\ life' = life /\ views' = views
    BY <1>3, AtFacts, Zenon DEF SendUndo, ClearAndReturn
  <2>2. Mine(c) /\ Here(c).state = "OWNED"
    BY <2>1, Zenon DEF RunInv, SendWork
  <2>3. ASSUME Still(loc[c].slot), NEW v \in views[c]
        PROVE  v.slot # loc[c].slot \/ BufferOwned(c, v)'
    BY <2>1, <2>2, <2>3, OwnerViews, Zenon
  <2> QED
    BY <1>3, <2>1, <2>3, ClearReturns, Zenon DEF SendUndo, Kinds, ViewType
<1>4. CASE SendFill(c)
  BY <1>4, SendWrites, Zenon
<1>5. CASE SendPublish(c)
  <2>1. pc[c].op = "SEND" /\ pc[c].at = "publish"
    BY <1>5, AtFacts, Zenon DEF SendPublish, Publish
  <2>2. Unpublished(c) /\ Mine(c) /\ Here(c).owner = c
    BY <2>1, Zenon DEF RunInv, SendWork, Mine
  <2>3. Belongs(loc[c].slot) /\ Behind(loc[c].slot)
    BY <1>0, <2>1, <2>2, MineBelongs, FreshBehind, Zenon DEF Unpublished
  <2>4. Goes(c, "clear") /\ SetsState(loc[c].slot, "TRANSFER") /\ loc' = loc
    BY <1>5, <2>2, <2>3, PublishGoes, Zenon DEF SendPublish, Kinds, RunSteps, Steps, ClaimSteps
  <2>5. Unpublished(c)' /\ Mine(c)'
    BY <1>0, <2>1, <2>2, <2>4, MineKept, BehindAlone, Zenon
       DEF Unpublished, SetsState, SameFields, Goes
  <2>6. SendWork(c)'
    BY <1>0, <2>1, <2>4, <2>5, Zenon DEF SendWork, Goes, SetsState, Here
  <2> QED
    BY <2>1, <2>4, <2>6, SendOf, Zenon
<1>6. CASE SendClear(c)
  <2>1. /\ Goes(c, "push") /\ Still(loc[c].slot) /\ loc' = loc
        /\ pc[c].op = "SEND" /\ pc[c].at = "clear"
    BY <1>6, ClearGoes, Zenon DEF SendClear, Kinds, RunSteps, Steps
  <2>2. /\ Unpublished(c) /\ Mine(c) /\ Here(c).state \in {"TRANSFER", "CLAIMING"}
    BY <2>1, Zenon DEF RunInv, SendWork
  <2>3. Unpublished(c)' /\ Mine(c)' /\ Here(c)'.state \in {"TRANSFER", "CLAIMING"}
    BY <2>1, <2>2, MineStill, BehindAlone, Zenon DEF Unpublished, Still, SameFields, Goes
  <2>4. SendWork(c)'
    BY <1>0, <2>1, <2>3, Zenon DEF SendWork, Goes
  <2> QED
    BY <2>1, <2>4, SendOf, Zenon
<1>7. CASE SendPush(c)
  BY <1>7, SendPushes, Zenon
<1> QED
  BY <1>1, <1>2, <1>3, <1>4, <1>5, <1>6, <1>7, Zenon DEF SendStep
=============================================================================
