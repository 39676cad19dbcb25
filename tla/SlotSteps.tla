----------------------------- MODULE SlotSteps -----------------------------
(***************************************************************************)
(* What the steps of SlotProtocol have in common, for every set of         *)
(* components, slots and links: their effect on the slot of the call, the  *)
(* guarantee that a step of one runtime gives to the others, and what a    *)
(* runtime in a call can rely on.                                          *)
(***************************************************************************)
EXTENDS SlotInvariant, TLAPS

(***************************************************************************)
(* What the shared steps do.                                               *)
(***************************************************************************)
SlotType == slot \in [Slots -> SlotControl]
RingType == ring \in [Links -> Seq(Message)]
LifeType == life \in [Components ->
              [epoch : Nat, state : {"INACTIVE", "ACTIVE", "RECOVERING"}]]
ViewType == views \in [Components -> SUBSET View]
PcType == pc \in [Components -> PCs]
LocType == loc \in [Components -> Locals]

LEMMA Types ==
  TypeOK <=> /\ SlotType /\ RingType /\ LifeType
             /\ ViewType /\ PcType /\ LocType
BY Zenon DEF TypeOK, SlotType, RingType, LifeType, ViewType, PcType, LocType

LEMMA TokenTypes ==
  /\ NoToken \in Tokens
  /\ \A kind \in Kinds, c \in Components, e \in Nat : Token(kind, c, e) \in Tokens
BY Zenon DEF NoToken, Tokens, Token

LEMMA TokenFields ==
  ASSUME NEW kind, NEW c, NEW e
  PROVE  /\ Token(kind, c, e).kind = kind
         /\ Token(kind, c, e).comp = c
         /\ Token(kind, c, e).epoch = e
BY Zenon DEF Token

LEMMA InitialTypes ==
  /\ InitialSlot \in SlotControl
  /\ NoCall \in Locals
BY ProtocolAssumption, TokenTypes, Zenon
   DEF InitialSlot, SlotControl, NoCall, Locals, States

LEMMA LinkPair ==
  ASSUME NEW l \in Links
  PROVE  /\ l[1] \in Components
         /\ l[2] \in Components
         /\ l = <<l[1], l[2]>>
<1>1. l \in Components \X Components
  BY ProtocolAssumption, Zenon
<1> QED
  BY <1>1

LEMMA FieldTypes ==
  ASSUME SlotType, NEW s \in Slots
  PROVE  /\ slot[s].state \in States
         /\ slot[s].token \in Tokens
         /\ slot[s].generation \in Nat
         /\ slot[s].owner \in Components \cup {NoComponent}
         /\ slot[s].epoch \in Nat
         /\ slot[s].hops \in Nat
         /\ slot[s].sourceHops \in Nat
         /\ slot[s].sequence \in Nat
         /\ slot[s].region \in {"EMPTY", "SET"}
BY Zenon DEF SlotType, SlotControl

LEMMA LocalTypes ==
  ASSUME LocType, NEW c \in Components
  PROVE  /\ loc[c].slot \in Slots \cup {NoSlot}
         /\ loc[c].generation \in Nat
         /\ loc[c].peer \in Components \cup {NoComponent}
         /\ loc[c].sequence \in Nat
         /\ loc[c].epoch \in Nat
         /\ loc[c].todo \in SUBSET Slots
         /\ loc[c].seen \in Tokens
BY Zenon DEF LocType, Locals

\* The protected fields of slot s, and what a step may leave alone.
SameFields(s) ==
  /\ slot'[s].generation = slot[s].generation
  /\ slot'[s].owner = slot[s].owner
  /\ slot'[s].next = slot[s].next
  /\ slot'[s].epoch = slot[s].epoch
  /\ slot'[s].sequence = slot[s].sequence

OnlySlot(s) == SlotType' /\ \A r \in Slots \ {s} : slot'[r] = slot[r]

SetsToken(s, t) ==
  /\ OnlySlot(s)
  /\ SameFields(s)
  /\ slot'[s].state = slot[s].state
  /\ slot'[s].token = t

SetsState(s, state) ==
  /\ OnlySlot(s)
  /\ SameFields(s)
  /\ slot'[s].state = state
  /\ slot'[s].token = slot[s].token

Moves(c, op, label) ==
  /\ PcType'
  /\ pc'[c].op = op /\ pc'[c].at = label
  /\ \A d \in Components \ {c} : pc'[d] = pc[d]

LEMMA TokenUpdate ==
  ASSUME SlotType, NEW s \in Slots, NEW t \in Tokens,
         slot' = [slot EXCEPT ![s].token = t]
  PROVE  SetsToken(s, t)
BY DEF SlotType, SlotControl, SetsToken, OnlySlot, SameFields

LEMMA StateUpdate ==
  ASSUME SlotType, NEW s \in Slots, NEW state \in States,
         slot' = [slot EXCEPT ![s].state = state]
  PROVE  SetsState(s, state)
BY DEF SlotType, SlotControl, SetsState, OnlySlot, SameFields

LEMMA RecordUpdate ==
  ASSUME SlotType, NEW s \in Slots, NEW r \in SlotControl,
         slot' = [slot EXCEPT ![s] = r]
  PROVE  OnlySlot(s) /\ slot'[s] = r
BY Zenon DEF SlotType, OnlySlot

Labels ==
  {"idle", "scan", "token", "claim", "undo", "fill", "free", "publish",
   "clear", "push", "check", "lost", "steal", "swap", "commit", "drop"}

LEMMA LocalsUpdate ==
  ASSUME LocType, NEW c \in Components, NEW r \in Locals,
         loc' = [loc EXCEPT ![c] = r]
  PROVE  /\ LocType' /\ loc'[c] = r
         /\ \A d \in Components \ {c} : loc'[d] = loc[d]
BY Zenon DEF LocType

LEMMA GotoMoves ==
  ASSUME PcType, NEW c \in Components, NEW label \in Labels, Goto(c, label)
  PROVE  Moves(c, pc[c].op, label)
BY Zenon DEF PcType, PCs, Goto, Moves, Labels

LEMMA EnterMoves ==
  ASSUME PcType, NEW c \in Components, NEW kind \in Kinds \cup {"NONE"},
         NEW label \in Labels, Enter(c, kind, label)
  PROVE  Moves(c, kind, label)
BY Zenon DEF PcType, PCs, Enter, Moves, Labels

LEMMA Returns ==
  ASSUME PcType, LocType, NEW c \in Components, Return(c)
  PROVE  /\ Moves(c, "NONE", "idle")
         /\ LocType'
         /\ loc'[c] = NoCall
         /\ \A d \in Components \ {c} : loc'[d] = loc[d]
<1>1. Moves(c, "NONE", "idle")
  BY EnterMoves, Zenon DEF Return, Labels
<1> QED
  BY <1>1, InitialTypes, Zenon DEF Return, LocType

LEMMA AtFacts ==
  ASSUME NEW c \in Components, NEW kind, NEW label, At(c, kind, label)
  PROVE  pc[c].op = kind /\ pc[c].at = label
BY DEF At

(***************************************************************************)
(* What a step of one runtime does to the others: the rely/guarantee       *)
(* relation.  x takes the step.                                            *)
(***************************************************************************)
Frame(x) ==
  /\ life' = life
  /\ \A d \in Components \ {x} :
       pc'[d] = pc[d] /\ loc'[d] = loc[d] /\ views'[d] = views[d]

\* x sets a token only on a slot that has none, removes only its own, and
\* its own are on the slot it is working on or abandoned in a rollback.
TokenStep(x) ==
  \A s \in Slots :
    /\ \/ slot'[s].token = slot[s].token
       \/ slot[s].token = NoToken /\ slot'[s].token.comp = x
       \/ slot[s].token.comp = x /\ slot'[s].token = NoToken
    /\ slot'[s].token.comp = x =>
         \/ HoldsToken(x)' /\ loc'[x].slot = s
         \/ slot'[s].state = "CLAIMING" /\ slot'[s].token.kind = "ROLLBACK"

\* x writes a slot only while its token is on it, and moves an owned or
\* transferred slot only when it is the owner or the addressee.
FieldStep(x) ==
  \A s \in Slots :
    \/ SameFields(s) /\ slot'[s].state = slot[s].state
    \/ /\ slot[s].token.comp = x
       /\ slot'[s].token = slot[s].token
       /\ s = loc[x].slot
       /\ HoldsToken(x)
       /\ \/ slot[s].state \in {"FREE", "CLAIMING"}
          \/ slot[s].state = "OWNED" /\ slot[s].owner = x
          \/ slot[s].state = "TRANSFER" /\ slot[s].owner = x /\ Sending(x, s)
          \/ /\ slot[s].state = "TRANSFER"
             /\ slot[s].next = x
             /\ SameFields(s)
             /\ slot'[s].state = "CLAIMING"
             /\ Claiming(<<slot[s].owner, x>>, s)'

\* x removes only the head it is done with, adds only a live descriptor, and
\* leaves the slot it claims as a receiver for TRANSFER or is done.
RingStep(x) ==
  /\ \A l \in Links :
       \/ ring'[l] = ring[l] /\ (l[2] = x /\ Done(l) => Done(l)')
       \/ /\ l[2] = x /\ Done(l) /\ pc'[x].op = "NONE"
          /\ ring[l] # <<>> /\ ring'[l] = Tail(ring[l])
       \/ /\ l[1] = x /\ pc[x].op = "SEND"
          /\ \E m \in Message :
               /\ m.source = l[1] /\ m.destination = l[2]
               /\ Live(l, m)'
               /\ \A i \in 1..Len(ring[l]) : ring[l][i] # m
               /\ ring'[l] = Append(ring[l], m)
  /\ \A s \in Slots :
       Sending(x, s)' => Sending(x, s) \/ slot[s].state = "OWNED"
  /\ \A l \in Links, s \in Slots :
       l[2] = x /\ Claiming(l, s) =>
         \/ Done(l)'
         \/ /\ SameFields(s)
            /\ slot'[s].state = slot[s].state
            /\ Claiming(l, s)'

Good(x) ==
  TypeOK' /\ Frame(x) /\ CallInv(x)' /\ TokenStep(x) /\ FieldStep(x) /\ RingStep(x)

Inner(c, label) ==
  /\ Moves(c, pc[c].op, label)
  /\ loc' = loc /\ views' = views /\ ring' = ring /\ life' = life

\* The call may also have changed its other locals.
Within(c, label) ==
  /\ Moves(c, pc[c].op, label)
  /\ LocType' /\ loc'[c].slot = loc[c].slot
  /\ \A d \in Components \ {c} : loc'[d] = loc[d]
  /\ views' = views /\ ring' = ring /\ life' = life

LEMMA WithinFrame ==
  ASSUME TypeOK, NEW c \in Components, NEW label, Within(c, label), SlotType'
  PROVE  Frame(c) /\ TypeOK'
BY Types, Zenon DEF Within, Moves, Frame, TypeOK, SlotType, PcType, LocType

LEMMA InnerWithin ==
  ASSUME TypeOK, NEW c \in Components, NEW label, Inner(c, label)
  PROVE  Within(c, label)
BY Types, Zenon DEF Inner, Within, LocType

LEMMA InnerFrame ==
  ASSUME NEW c \in Components, NEW label, Inner(c, label)
  PROVE  Frame(c)
BY Zenon DEF Inner, Moves, Frame

LEMMA InnerTypes ==
  ASSUME TypeOK, NEW c \in Components, NEW label, Inner(c, label), SlotType'
  PROVE  TypeOK'
BY Types, Zenon DEF Inner, Moves, TypeOK, SlotType, PcType

\* The effect of the shared steps.
LEMMA CasStateEffect ==
  ASSUME TypeOK, NEW c \in Components, loc[c].slot \in Slots,
         NEW kind, NEW from, CasState(c, kind, from)
  PROVE  /\ pc[c].op = kind /\ pc[c].at = "claim"
         /\ \/ /\ Here(c).state = from
               /\ SetsState(loc[c].slot, "CLAIMING")
               /\ Inner(c, "fill")
            \/ slot' = slot /\ Inner(c, "undo")
<1> USE Types
<1>1. pc[c].op = kind /\ pc[c].at = "claim"
  BY AtFacts, Zenon DEF CasState
<1>2. Goto(c, "fill") => Moves(c, pc[c].op, "fill")
  BY GotoMoves, Zenon DEF Labels
<1>3. Goto(c, "undo") => Moves(c, pc[c].op, "undo")
  BY GotoMoves, Zenon DEF Labels
<1>4. slot' = [slot EXCEPT ![loc[c].slot].state = "CLAIMING"]
        => SetsState(loc[c].slot, "CLAIMING")
  BY StateUpdate, Zenon DEF States
<1> QED
  BY <1>1, <1>2, <1>3, <1>4, Zenon DEF CasState, Inner

LEMMA PublishEffect ==
  ASSUME TypeOK, NEW c \in Components, loc[c].slot \in Slots, NEW kind,
         NEW at, NEW state \in States, NEW then \in Labels,
         Publish(c, kind, at, state, then)
  PROVE  /\ pc[c].op = kind /\ pc[c].at = at
         /\ SetsState(loc[c].slot, state)
         /\ Inner(c, then)
<1> USE Types
<1>1. pc[c].op = kind /\ pc[c].at = at
  BY AtFacts, Zenon DEF Publish
<1>2. Moves(c, pc[c].op, then)
  BY GotoMoves, Zenon DEF Publish
<1>3. SetsState(loc[c].slot, state)
  BY StateUpdate, Zenon DEF Publish
<1> QED
  BY <1>1, <1>2, <1>3, Zenon DEF Publish, Inner

LEMMA ClearEffect ==
  ASSUME TypeOK, NEW c \in Components, loc[c].slot \in Slots, NEW kind,
         Here(c).token = Token(kind, c, loc[c].epoch), ClearToken(c, kind)
  PROVE  SetsToken(loc[c].slot, NoToken)
<1>1. slot' = [slot EXCEPT ![loc[c].slot].token = NoToken]
  BY Zenon DEF ClearToken, Here
<1> QED
  BY <1>1, Types, TokenTypes, TokenUpdate, Zenon

LEMMA ClearAndGotoEffect ==
  ASSUME TypeOK, NEW c \in Components, ControlInv(c), TokenInv(c), NEW kind,
         NEW at \in {"undo", "clear"}, NEW then \in Labels,
         ClearAndGoto(c, kind, at, then)
  PROVE  /\ pc[c].op = kind /\ pc[c].at = at
         /\ loc[c].slot \in Slots
         /\ SetsToken(loc[c].slot, NoToken)
         /\ Inner(c, then)
<1> USE Types
<1>1. pc[c].op = kind /\ pc[c].at = at
  BY AtFacts, Zenon DEF ClearAndGoto
<1>2. Moves(c, pc[c].op, then)
  BY GotoMoves, Zenon DEF ClearAndGoto
<1>3. loc[c].slot \in Slots /\ Here(c).token = Token(kind, c, loc[c].epoch)
  BY <1>1, Zenon DEF ControlInv, TokenInv, HoldsToken
<1>4. SetsToken(loc[c].slot, NoToken)
  BY <1>3, ClearEffect, Zenon DEF ClearAndGoto
<1> QED
  BY <1>1, <1>2, <1>3, <1>4, Zenon DEF ClearAndGoto, Inner

LEMMA ClearAndReturnEffect ==
  ASSUME TypeOK, NEW c \in Components, ControlInv(c), TokenInv(c), NEW kind,
         NEW at \in {"undo", "clear"}, ClearAndReturn(c, kind, at)
  PROVE  /\ pc[c].op = kind /\ pc[c].at = at
         /\ loc[c].slot \in Slots
         /\ SetsToken(loc[c].slot, NoToken)
         /\ Moves(c, "NONE", "idle")
         /\ LocType' /\ loc'[c] = NoCall
         /\ \A d \in Components \ {c} : loc'[d] = loc[d]
         /\ ring' = ring /\ life' = life
<1> USE Types
<1>1. pc[c].op = kind /\ pc[c].at = at
  BY AtFacts, Zenon DEF ClearAndReturn
<1>3. loc[c].slot \in Slots /\ Here(c).token = Token(kind, c, loc[c].epoch)
  BY <1>1, Zenon DEF ControlInv, TokenInv, HoldsToken
<1>4. SetsToken(loc[c].slot, NoToken)
  BY <1>3, ClearEffect, Zenon DEF ClearAndReturn
<1> QED
  BY <1>1, <1>3, <1>4, Returns, Zenon DEF ClearAndReturn

LEMMA SameEpoch ==
  ASSUME NEW c \in Components, life' = life
  PROVE  RegisteredEpoch(c)' = RegisteredEpoch(c)
BY Zenon DEF RegisteredEpoch

\* A step that writes at most the journal fields of one slot.
Journals(s) ==
  /\ OnlySlot(s)
  /\ SameFields(s)
  /\ slot'[s].state = slot[s].state
  /\ slot'[s].token = slot[s].token

LEMMA JournalLeaves ==
  ASSUME NEW s \in Slots, Journals(s)
  PROVE  \A r \in Slots : /\ slot'[r].token = slot[r].token
                          /\ slot'[r].state = slot[r].state
                          /\ SameFields(r)
BY Zenon DEF Journals, OnlySlot, SameFields

LEMMA SequenceJournal ==
  ASSUME SlotType, NEW s \in Slots, NEW n \in Nat,
         slot' = [slot EXCEPT ![s].prevSequence = n]
  PROVE  Journals(s)
BY DEF SlotType, SlotControl, Journals, OnlySlot, SameFields

(***************************************************************************)
(* What a runtime in a call relies on, and why no other step disturbs it.  *)
(***************************************************************************)
LEMMA HasSlot ==
  ASSUME NEW c \in Components, CallInv(c), pc[c].at \notin {"idle", "scan"}
  PROVE  loc[c].slot \in Slots
BY Zenon DEF CallInv, ControlInv

LEMMA HasToken ==
  ASSUME NEW c \in Components, CallInv(c), HoldsToken(c)
  PROVE  /\ Here(c).token = Token(pc[c].op, c, loc[c].epoch)
         /\ Here(c).token.comp = c
         /\ Here(c).token.kind = pc[c].op
         /\ InClaim(c) => Here(c).state = "CLAIMING"
BY TokenFields DEF CallInv, TokenInv

\* The parts of RecvInv that say which descriptor is received.
Receives(c) ==
  /\ <<loc[c].peer, c>> \in Links
  /\ ring[<<loc[c].peer, c>>] # <<>>
  /\ ring[<<loc[c].peer, c>>][1].slot = loc[c].slot
  /\ ring[<<loc[c].peer, c>>][1].generation = loc[c].generation
  /\ ring[<<loc[c].peer, c>>][1].sequence = loc[c].sequence

\* What a live descriptor says of the slot it names.
Awaits(c) ==
  /\ Here(c).generation = loc[c].generation
  /\ Here(c).owner = loc[c].peer
  /\ Here(c).next = c
  /\ Here(c).sequence = loc[c].sequence
  /\ ~Sending(loc[c].peer, loc[c].slot)

LEMMA ReceiveFacts ==
  ASSUME NEW c \in Components, CallInv(c), pc[c].op = "RECEIVE"
  PROVE  /\ Receives(c)
         /\ loc[c].peer \in Components
         /\ pc[c].at # "check" => loc[c].epoch = RegisteredEpoch(c)
         /\ pc[c].at \in {"check", "token", "claim", "fill"} => Awaits(c)
         /\ pc[c].at \in {"check", "token", "claim"} => Here(c).state = "TRANSFER"
         /\ pc[c].at \in {"publish", "clear", "commit"} => Mine(c)
         /\ pc[c].at \in {"clear", "commit"} => Here(c).state = "OWNED"
<1>1. Receives(c)
  BY Zenon DEF CallInv, RecvInv, Receives
<1>2. loc[c].peer \in Components
  BY <1>1, ProtocolAssumption, Zenon DEF Receives
<1>3. PICK l \in Links : l = <<loc[c].peer, c>> /\ l[1] = loc[c].peer /\ l[2] = c
  BY <1>1, Zenon DEF Receives
<1>4. pc[c].at \in {"check", "token", "claim", "fill"} => Awaits(c)
  BY <1>1, <1>3, Zenon DEF CallInv, RecvInv, Live, Awaits, Receives, Here
<1> QED
  BY <1>1, <1>2, <1>4, Zenon DEF CallInv, RecvInv

Kept(s) == SameFields(s) /\ slot'[s].state = slot[s].state

\* A slot that carries the token of c is c's alone.
LEMMA TokenKept ==
  ASSUME TypeOK, NEW x \in Components, TokenStep(x), FieldStep(x),
         NEW c \in Components, c # x, NEW s \in Slots, slot[s].token.comp = c
  PROVE  slot'[s].token = slot[s].token /\ Kept(s)
<1>1. slot[s].token # NoToken
  BY TokenFields, ProtocolAssumption DEF NoToken
<1> QED
  BY <1>1, Zenon DEF TokenStep, FieldStep, Kept

\* A buffer is taken from its owner by nobody else.
LEMMA OwnedKept ==
  ASSUME NEW x \in Components, FieldStep(x),
         NEW c \in Components, c # x, NEW s \in Slots,
         slot[s].state = "OWNED", slot[s].owner = c
  PROVE  Kept(s)
BY Zenon DEF FieldStep, Kept

\* The claim of a receiver shows that the sender has finished.
LEMMA SentKept ==
  ASSUME NEW x \in Components, Good(x),
         NEW c \in Components, c # x, NEW s \in Slots,
         slot[s].state = "TRANSFER", slot[s].owner = c, Sending(c, s)
  PROVE  Kept(s)
<1> SUFFICES ASSUME /\ SameFields(s)
                    /\ Claiming(<<slot[s].owner, x>>, s)'
             PROVE  FALSE
  BY Zenon DEF Good, FieldStep, Kept
<1>1. slot'[s].owner = c
  BY Zenon DEF SameFields
<1>2. pc'[x].op = "RECEIVE" /\ pc'[x].at = "fill" /\ loc'[x].slot = s /\ loc'[x].peer = c
  BY <1>1 DEF Claiming, At
<1>3. PICK l \in Links : l = <<c, x>> /\ l[1] = c /\ Live(l, ring[l][1])' /\ ring'[l][1].slot = s
  BY <1>2, Zenon DEF Good, CallInv, RecvInv
<1>4. ~Sending(c, s)'
  BY <1>3, Zenon DEF Live
<1> QED
  BY <1>4, Zenon DEF Sending, Good, Frame

\* Where the slot of a call stands firm: the caller's token is on it, or the
\* caller owns it, or is sending it.
LEMMA HereKept ==
  ASSUME TypeOK, NEW x \in Components, Good(x), NEW c \in Components, c # x,
         CallInv(c), loc[c].slot \in Slots,
         \/ HoldsToken(c)
         \/ Mine(c) /\ Here(c).state = "OWNED"
         \/ Mine(c) /\ Here(c).state = "TRANSFER" /\ Sending(c, loc[c].slot)
  PROVE  Kept(loc[c].slot)
<1>1. CASE HoldsToken(c)
  BY <1>1, HasToken, TokenKept, Zenon DEF Good, Here
<1>2. CASE Mine(c) /\ Here(c).state = "OWNED"
  BY <1>2, OwnedKept, Zenon DEF Good, Mine, Here
<1>3. CASE Mine(c) /\ Here(c).state = "TRANSFER" /\ Sending(c, loc[c].slot)
  BY <1>3, SentKept, Zenon DEF Mine, Here
<1> QED
  BY <1>1, <1>2, <1>3, Zenon
=============================================================================
