----------------------------- MODULE SlotProofs -----------------------------
(***************************************************************************)
(* The ownership protocol is safe for every set of components, slots and   *)
(* links.  The guarantee that every step gives (SlotCalls) is shown to be  *)
(* enough for the invariants of the other runtimes and of the rings, and   *)
(* the invariant to imply the properties that the runs check; with what a  *)
(* step does to the journeys the protocol implements Ownership.            *)
(***************************************************************************)
EXTENDS SlotCalls

(***************************************************************************)
(* The five ways in which a step of runtime x concerns the standing of a   *)
(* slot.                                                                   *)
(***************************************************************************)
\* The fields on which the standing and the journey of slot s depend.
SameRest(s) ==
  /\ slot'[s].owner = slot[s].owner
  /\ slot'[s].next = slot[s].next
  /\ slot'[s].source = slot[s].source
  /\ slot'[s].hops = slot[s].hops
  /\ slot'[s].sourceHops = slot[s].sourceHops

Stays(s) == SameRest(s) /\ slot'[s].state = slot[s].state

\* x is outside of a claim and changes at most its token.
Rests(x) ==
  /\ \A s \in Slots : Stays(s)
  /\ \A s \in Slots : \/ slot'[s].token = slot[s].token
                      \/ slot[s].token = NoToken
                      \/ HoldsToken(x) /\ loc[x].slot = s
  /\ ~InClaim(x) /\ ~InClaim(x)'
  /\ pc'[x].op = "ALLOCATE" => pc[x].op = "ALLOCATE" \/ x \in Allocators
  /\ HoldsToken(x)' => \/ HoldsToken(x) /\ loc'[x].slot = loc[x].slot
                       \/ slot[loc'[x].slot].token = NoToken

\* x holds its token and writes nothing but the slot it is on.
Works(x) ==
  /\ HoldsToken(x)
  /\ loc[x].slot \in Slots
  /\ loc'[x].slot = loc[x].slot
  /\ pc'[x].op = pc[x].op
  /\ slot'[loc[x].slot].token = slot[loc[x].slot].token
  /\ \A r \in Slots \ {loc[x].slot} : slot'[r] = slot[r]

Claims(x) ==
  /\ Works(x)
  /\ pc[x].at = "claim" /\ pc'[x].at = "fill"
  /\ SameRest(loc[x].slot)
  /\ slot'[loc[x].slot].state = "CLAIMING"
  /\ \/ pc[x].op = "ALLOCATE" /\ Here(x).state = "FREE"
     \/ /\ pc[x].op \in {"SEND", "RELEASE"}
        /\ Here(x).state = "OWNED" /\ Here(x).owner = x
     \/ /\ pc[x].op = "ROLLBACK"
        /\ Here(x).state = "TRANSFER" /\ Here(x).owner = x
     \/ pc[x].op = "RECEIVE" /\ Here(x).state = "TRANSFER"

Fills(x) ==
  LET s == loc[x].slot
  IN /\ Works(x)
     /\ pc[x].at = "fill"
     /\ slot'[s].state = "CLAIMING"
     /\ \/ /\ pc[x].op = "ALLOCATE" /\ pc'[x].at \in {"publish", "free"}
           /\ slot'[s].hops = 1
        \/ /\ pc[x].op = "SEND" /\ pc'[x].at = "publish"
           /\ slot'[s].hops = slot[s].hops
           /\ Prepared(s)'
        \/ /\ pc[x].op = "ROLLBACK" /\ pc'[x].at \in {"publish", "lost"}
           /\ slot'[s].hops = slot[s].hops
        \/ /\ pc[x].op = "RELEASE" /\ pc'[x].at = "publish"
           /\ slot'[s].hops = slot[s].hops
        \/ /\ pc[x].op = "RECEIVE" /\ pc'[x].at \in {"publish", "free"}
           /\ slot[s].next = x
           /\ slot'[s].next = NoComponent
           /\ slot'[s].source = slot[s].source
           /\ slot'[s].hops = slot[s].sourceHops + 1

Aborts(x) ==
  /\ Works(x)
  /\ pc[x].at = "fill" /\ pc'[x].at = "undo"
  /\ SameRest(loc[x].slot)
  /\ \/ /\ pc[x].op \in {"SEND", "RELEASE"}
        /\ Here(x).owner = x /\ slot'[loc[x].slot].state = "OWNED"
     \/ pc[x].op = "RECEIVE" /\ slot'[loc[x].slot].state = "TRANSFER"

Ends(x) ==
  LET state == slot'[loc[x].slot].state
  IN /\ Works(x)
     /\ SameRest(loc[x].slot)
     /\ pc'[x].at \in {"clear", "undo"}
     /\ \/ /\ pc[x].at = "free" /\ state = "FREE"
           /\ pc[x].op \in {"ALLOCATE", "RECEIVE"}
        \/ /\ pc[x].at = "publish" /\ state = "OWNED" /\ Here(x).owner = x
           /\ pc[x].op \in {"ALLOCATE", "ROLLBACK", "RECEIVE"}
        \/ /\ pc[x].at = "publish" /\ state = "TRANSFER" /\ Here(x).owner = x
           /\ pc[x].op = "SEND"
        \/ pc[x].at = "publish" /\ state = "FREE" /\ pc[x].op = "RELEASE"

Travels(x) == Rests(x) \/ Claims(x) \/ Fills(x) \/ Aborts(x) \/ Ends(x)

(***************************************************************************)
(* Every step is one of them.                                              *)
(***************************************************************************)
LEMMA TokenKeeps ==
  ASSUME SlotType, NEW s \in Slots, NEW t,
         slot' = [slot EXCEPT ![s].token = t]
  PROVE  /\ \A r \in Slots : Stays(r)
         /\ \A r \in Slots \ {s} : slot'[r] = slot[r]
BY DEF SlotType, SlotControl, Stays, SameRest

LEMMA StateKeeps ==
  ASSUME SlotType, NEW s \in Slots, NEW state,
         slot' = [slot EXCEPT ![s].state = state]
  PROVE  /\ SameRest(s)
         /\ slot'[s].state = state
         /\ slot'[s].token = slot[s].token
         /\ \A r \in Slots \ {s} : slot'[r] = slot[r]
BY DEF SlotType, SlotControl, SameRest

\* A step that leaves the slots alone.
LEMMA QuietRests ==
  ASSUME NEW c \in Components, slot' = slot,
         pc[c].at \notin {"fill", "free", "publish"},
         pc'[c].at \notin {"fill", "free", "publish"},
         pc'[c].op = "ALLOCATE" => pc[c].op = "ALLOCATE" \/ c \in Allocators,
         HoldsToken(c)' => HoldsToken(c) /\ loc'[c].slot = loc[c].slot
  PROVE  Rests(c)
BY Zenon DEF Rests, Stays, SameRest, InClaim

\* A successful compare-and-swap of the token from zero.
LEMMA TokenRests ==
  ASSUME TypeOK, NEW c \in Components, CallInv(c), NEW kind, NEW t,
         At(c, kind, "token"), Here(c).token = NoToken,
         slot' = [slot EXCEPT ![loc[c].slot].token = t],
         Goto(c, "claim"), UNCHANGED loc
  PROVE  Rests(c)
<1>1. pc[c].op = kind /\ pc[c].at = "token"
  BY AtFacts, Zenon
<1>2. loc[c].slot \in Slots
  BY <1>1, HasSlot, Zenon
<1>3. pc'[c].op = kind /\ pc'[c].at = "claim"
  BY <1>1, Types, GotoMoves, Zenon DEF Labels, Moves
<1>4. /\ \A r \in Slots : Stays(r)
      /\ \A r \in Slots \ {loc[c].slot} : slot'[r] = slot[r]
  BY <1>2, Types, TokenKeeps, Zenon
<1> QED
  BY <1>1, <1>2, <1>3, <1>4, Zenon DEF Rests, InClaim, Here

\* The removal of the token.
LEMMA ClearRests ==
  ASSUME TypeOK, NEW c \in Components, CallInv(c), NEW kind,
         pc[c].at \in {"undo", "clear"}, ClearToken(c, kind),
         pc'[c].at \notin {"claim", "undo", "fill", "free", "publish", "clear"},
         pc'[c].op = "ALLOCATE" => pc[c].op = "ALLOCATE"
  PROVE  Rests(c)
<1>1. loc[c].slot \in Slots
  BY HasSlot, Zenon
<1>2. PICK t : slot' = [slot EXCEPT ![loc[c].slot].token = t]
  BY Zenon DEF ClearToken
<1>3. /\ \A r \in Slots : Stays(r)
      /\ \A r \in Slots \ {loc[c].slot} : slot'[r] = slot[r]
  BY <1>1, <1>2, Types, TokenKeeps, Zenon
<1> QED
  BY <1>1, <1>3, Zenon DEF Rests, InClaim, HoldsToken

LEMMA ClearGotoRests ==
  ASSUME TypeOK, NEW c \in Components, CallInv(c), NEW kind,
         NEW at \in {"undo", "clear"}, NEW then \in Labels,
         then \notin {"claim", "undo", "fill", "free", "publish", "clear"},
         ClearAndGoto(c, kind, at, then)
  PROVE  Rests(c)
<1>1. pc[c].op = kind /\ pc[c].at = at
  BY AtFacts, Zenon DEF ClearAndGoto
<1>2. pc'[c].op = pc[c].op /\ pc'[c].at = then
  BY Types, GotoMoves, Zenon DEF ClearAndGoto, Moves
<1> QED
  BY <1>1, <1>2, ClearRests DEF ClearAndGoto

LEMMA ClearReturnRests ==
  ASSUME TypeOK, NEW c \in Components, CallInv(c), NEW kind,
         NEW at \in {"undo", "clear"}, ClearAndReturn(c, kind, at)
  PROVE  Rests(c)
<1>1. pc[c].op = kind /\ pc[c].at = at
  BY AtFacts, Zenon DEF ClearAndReturn
<1>2. pc'[c].op = "NONE" /\ pc'[c].at = "idle"
  BY Types, Returns, Zenon DEF ClearAndReturn, Moves
<1> QED
  BY <1>1, <1>2, ClearRests DEF ClearAndReturn

\* A return that leaves the slots alone.
LEMMA ReturnRests ==
  ASSUME TypeOK, NEW c \in Components, slot' = slot, Return(c),
         pc[c].at \notin {"fill", "free", "publish"}
  PROVE  Rests(c)
<1>1. pc'[c].op = "NONE" /\ pc'[c].at = "idle"
  BY Types, Returns, Zenon DEF Moves
<1> QED
  BY <1>1, QuietRests, Zenon DEF HoldsToken

\* The compare-and-swap of the state.
LEMMA ClaimTravels ==
  ASSUME TypeOK, NEW c \in Components, CallInv(c), NEW kind, NEW from,
         CasState(c, kind, from),
         Here(c).state = from =>
           \/ kind = "ALLOCATE" /\ from = "FREE"
           \/ kind \in {"SEND", "RELEASE"} /\ from = "OWNED" /\ Here(c).owner = c
           \/ kind = "ROLLBACK" /\ from = "TRANSFER" /\ Here(c).owner = c
           \/ kind = "RECEIVE" /\ from = "TRANSFER"
  PROVE  Travels(c)
<1>1. pc[c].op = kind /\ pc[c].at = "claim" /\ UNCHANGED loc
  BY AtFacts, Zenon DEF CasState
<1>2. loc[c].slot \in Slots /\ HoldsToken(c)
  BY <1>1, HasSlot, Zenon DEF HoldsToken
<1>3. CASE Here(c).state = from
  <2>1. pc'[c].op = kind /\ pc'[c].at = "fill"
    BY <1>1, <1>3, Types, GotoMoves, Zenon DEF CasState, Labels, Moves
  <2>2. slot' = [slot EXCEPT ![loc[c].slot].state = "CLAIMING"]
    BY <1>3, Zenon DEF CasState
  <2>3. Works(c) /\ SameRest(loc[c].slot) /\ slot'[loc[c].slot].state = "CLAIMING"
    BY <1>1, <1>2, <2>1, <2>2, Types, StateKeeps, Zenon DEF Works
  <2> QED
    BY <1>1, <1>3, <2>1, <2>3, Zenon DEF Travels, Claims
<1>4. CASE Here(c).state # from
  <2>1. slot' = slot /\ pc'[c].op = kind /\ pc'[c].at = "undo"
    BY <1>1, <1>4, Types, GotoMoves, Zenon DEF CasState, Labels, Moves
  <2> QED
    BY <1>1, <1>2, <2>1, QuietRests, Zenon DEF Travels
<1> QED
  BY <1>3, <1>4, Zenon

\* The store that ends a claim, and the record written within it.
LEMMA PublishWorks ==
  ASSUME TypeOK, NEW c \in Components, CallInv(c), NEW kind \in Kinds,
         NEW at \in {"free", "publish"}, NEW state \in States, NEW then \in {"clear", "undo"},
         Publish(c, kind, at, state, then)
  PROVE  /\ pc[c].op = kind /\ pc[c].at = at
         /\ pc'[c].at = then
         /\ Works(c) /\ SameRest(loc[c].slot)
         /\ slot'[loc[c].slot].state = state
<1>1. pc[c].op = kind /\ pc[c].at = at /\ UNCHANGED loc
  BY AtFacts, Zenon DEF Publish
<1>2. loc[c].slot \in Slots /\ HoldsToken(c)
  BY <1>1, HasSlot, Zenon DEF HoldsToken
<1>3. pc'[c].op = kind /\ pc'[c].at = then
  BY <1>1, Types, GotoMoves, Zenon DEF Publish, Labels, Moves
<1> QED
  BY <1>1, <1>2, <1>3, Types, StateKeeps, Zenon DEF Works, Publish

LEMMA FillWorks ==
  ASSUME TypeOK, NEW c \in Components, CallInv(c), NEW kind \in Kinds,
         NEW label \in Labels, At(c, kind, "fill"), Goto(c, label),
         slot'[loc[c].slot].token = slot[loc[c].slot].token,
         \A r \in Slots \ {loc[c].slot} : slot'[r] = slot[r],
         loc'[c].slot = loc[c].slot
  PROVE  /\ pc[c].op = kind /\ pc[c].at = "fill"
         /\ pc'[c].at = label
         /\ Works(c)
<1>1. pc[c].op = kind /\ pc[c].at = "fill"
  BY AtFacts, Zenon
<1>2. loc[c].slot \in Slots /\ HoldsToken(c)
  BY <1>1, HasSlot, Zenon DEF HoldsToken
<1>3. pc'[c].op = kind /\ pc'[c].at = label
  BY <1>1, Types, GotoMoves, Zenon DEF Moves
<1> QED
  BY <1>1, <1>2, <1>3, Zenon DEF Works

\* A claim that is undone: the store of the former state.
LEMMA AbortWorks ==
  ASSUME TypeOK, NEW c \in Components, CallInv(c), NEW kind \in Kinds, NEW state \in States,
         At(c, kind, "fill"), Goto(c, "undo"), UNCHANGED loc,
         slot' = [slot EXCEPT ![loc[c].slot].state = state]
  PROVE  /\ pc[c].op = kind /\ pc[c].at = "fill"
         /\ pc'[c].at = "undo"
         /\ Works(c) /\ SameRest(loc[c].slot)
         /\ slot'[loc[c].slot].state = state
<1>1. pc[c].op = kind /\ pc[c].at = "fill"
  BY AtFacts, Zenon
<1>2. loc[c].slot \in Slots /\ HoldsToken(c)
  BY <1>1, HasSlot, Zenon DEF HoldsToken
<1>3. pc'[c].op = kind /\ pc'[c].at = "undo"
  BY <1>1, Types, GotoMoves, Zenon DEF Labels, Moves
<1> QED
  BY <1>1, <1>2, <1>3, Types, StateKeeps, Zenon DEF Works

LEMMA AllocTravels ==
  ASSUME TypeOK, NEW c \in Components, CallInv(c), AllocCall(c) \/ AllocStep(c)
  PROVE  Travels(c)
<1> USE Types
<1>1. CASE AllocCall(c)
  <2>1. pc[c].at = "idle" /\ pc'[c].at = "scan" /\ c \in Allocators /\ slot' = slot
    BY <1>1, AtFacts, EnterMoves DEF AllocCall, Idle, Kinds, Labels, Moves
  <2> QED
    BY <2>1, QuietRests, Zenon DEF Travels, HoldsToken
<1>2. CASE AllocProbe(c)
  <2>1. pc[c].op = "ALLOCATE" /\ pc[c].at = "scan" /\ slot' = slot
    BY <1>2, AtFacts, Zenon DEF AllocProbe
  <2>2. pc'[c].at \in {"scan", "token"}
    <3>1. Goto(c, "token") \/ UNCHANGED pc
      BY <1>2, Zenon DEF AllocProbe
    <3> QED
      BY <2>1, <3>1, GotoMoves, Zenon DEF Labels, Moves
  <2> QED
    BY <2>1, <2>2, QuietRests, Zenon DEF Travels, HoldsToken
<1>3. CASE AllocNone(c)
  BY <1>3, AtFacts, ReturnRests DEF AllocNone, Travels
<1>4. CASE AllocToken(c)
  <2>1. pc[c].op = "ALLOCATE" /\ pc[c].at = "token"
    BY <1>4, AtFacts, Zenon DEF AllocToken, CasToken
  <2>2. CASE Here(c).token = NoToken
    BY <1>4, <2>2, TokenRests, Zenon DEF AllocToken, CasToken, Travels
  <2>3. CASE Here(c).token # NoToken
    <3>1. slot' = slot /\ pc'[c].at = "scan"
      BY <1>4, <2>3, GotoMoves, Zenon DEF AllocToken, CasToken, Labels, Moves
    <3> QED
      BY <2>1, <3>1, QuietRests, Zenon DEF Travels, HoldsToken
  <2> QED
    BY <2>2, <2>3, Zenon
<1>5. CASE AllocClaim(c)
  BY <1>5, ClaimTravels, Zenon DEF AllocClaim
<1>6. CASE AllocUndo(c)
  BY <1>6, ClearGotoRests, Zenon DEF AllocUndo, Labels, Travels
<1>7. CASE AllocFill(c)
  <2> DEFINE allocated ==
        [InitialSlot EXCEPT !.state = "CLAIMING", !.token = Here(c).token,
           !.generation = Here(c).generation + 1, !.owner = c,
           !.epoch = loc[c].epoch, !.hops = 1, !.region = "SET"]
  <2> DEFINE freed ==
        [allocated EXCEPT !.owner = NoComponent, !.region = "EMPTY"]
  <2>1. /\ allocated.token = Here(c).token /\ freed.token = Here(c).token
        /\ allocated.state = "CLAIMING" /\ freed.state = "CLAIMING"
        /\ allocated.hops = 1 /\ freed.hops = 1
    BY Zenon DEF InitialSlot
  <2>2. /\ At(c, "ALLOCATE", "fill")
        /\ \/ slot' = [slot EXCEPT ![loc[c].slot] = allocated] /\ Goto(c, "publish")
           \/ slot' = [slot EXCEPT ![loc[c].slot] = freed] /\ Goto(c, "free")
    BY <1>7, Zenon DEF AllocFill
  <2>3. loc'[c].slot = loc[c].slot
    BY <1>7 DEF AllocFill, LocType, Locals
  <2> HIDE DEF allocated, freed
  <2>4. loc[c].slot \in Slots
    BY <2>2, AtFacts, HasSlot
  <2>5. CASE slot' = [slot EXCEPT ![loc[c].slot] = allocated] /\ Goto(c, "publish")
    <3>1. /\ slot'[loc[c].slot] = allocated
          /\ \A r \in Slots \ {loc[c].slot} : slot'[r] = slot[r]
      BY <2>4, <2>5, Zenon DEF SlotType
    <3>2. pc[c].op = "ALLOCATE" /\ pc[c].at = "fill" /\ pc'[c].at = "publish" /\ Works(c)
      BY <2>1, <2>2, <2>3, <2>5, <3>1, FillWorks DEF Labels, Kinds, Here
    <3> QED
      BY <2>1, <3>1, <3>2, Zenon DEF Fills, Travels
  <2>6. CASE slot' = [slot EXCEPT ![loc[c].slot] = freed] /\ Goto(c, "free")
    <3>1. /\ slot'[loc[c].slot] = freed
          /\ \A r \in Slots \ {loc[c].slot} : slot'[r] = slot[r]
      BY <2>4, <2>6, Zenon DEF SlotType
    <3>2. pc[c].op = "ALLOCATE" /\ pc[c].at = "fill" /\ pc'[c].at = "free" /\ Works(c)
      BY <2>1, <2>2, <2>3, <2>6, <3>1, FillWorks DEF Labels, Kinds, Here
    <3> QED
      BY <2>1, <3>1, <3>2, Zenon DEF Fills, Travels
  <2> QED
    BY <2>2, <2>5, <2>6, Zenon
<1>8. CASE AllocFree(c)
  <2>1. /\ pc[c].op = "ALLOCATE" /\ pc[c].at = "free" /\ pc'[c].at = "undo"
        /\ Works(c) /\ SameRest(loc[c].slot) /\ slot'[loc[c].slot].state = "FREE"
    BY <1>8, PublishWorks DEF Kinds, States, AllocFree
  <2> QED
    BY <2>1, Zenon DEF Ends, Travels
<1>9. CASE AllocPublish(c)
  <2>1. /\ pc[c].op = "ALLOCATE" /\ pc[c].at = "publish" /\ pc'[c].at = "clear"
        /\ Works(c) /\ SameRest(loc[c].slot) /\ slot'[loc[c].slot].state = "OWNED"
    BY <1>9, PublishWorks, Zenon DEF Kinds, States, AllocPublish
  <2>2. Here(c).owner = c
    BY <2>1, Zenon DEF CallInv, AllocInv, Mine
  <2> QED
    BY <2>1, <2>2, Zenon DEF Ends, Travels
<1>10. CASE AllocClear(c)
  BY <1>10, ClearReturnRests, Zenon DEF AllocClear, Travels
<1> QED
  BY <1>1, <1>2, <1>3, <1>4, <1>5, <1>6, <1>7, <1>8, <1>9, <1>10, Zenon DEF AllocStep

\* The journal entries of a send, a rollback and a release.
LEMMA JournalRests ==
  ASSUME TypeOK, NEW c \in Components, NEW s \in Slots,
         \/ \E n : slot' = [slot EXCEPT ![s].prevSequence = n]
         \/ slot' = [slot EXCEPT ![s] =
                       [@ EXCEPT !.prevRegion = slot[s].region,
                                 !.prevOwner = slot[s].owner,
                                 !.prevEpoch = slot[s].epoch]],
         pc[c].at \in {"idle", "check"}, pc'[c].at = "token",
         pc'[c].op # "ALLOCATE"
  PROVE  Rests(c)
<1>1. \A r \in Slots : Stays(r) /\ slot'[r].token = slot[r].token
  <2>1. CASE \E n : slot' = [slot EXCEPT ![s].prevSequence = n]
    BY <2>1, Types DEF SlotType, SlotControl, Stays, SameRest
  <2>2. CASE slot' = [slot EXCEPT ![s] =
                       [@ EXCEPT !.prevRegion = slot[s].region,
                                 !.prevOwner = slot[s].owner,
                                 !.prevEpoch = slot[s].epoch]]
    BY <2>2, Types DEF SlotType, SlotControl, Stays, SameRest
  <2> QED
    BY <2>1, <2>2, Zenon
<1> QED
  BY <1>1, Zenon DEF Rests, InClaim, HoldsToken

LEMMA SendTravels ==
  ASSUME TypeOK, NEW c \in Components, CallInv(c), SendCall(c) \/ SendStep(c)
  PROVE  Travels(c)
<1> USE Types
<1>1. CASE SendCall(c)
  <2>1. /\ pc[c].at = "idle"
        /\ pc'[c].op = "SEND" /\ pc'[c].at = "token"
    <3>1. Idle(c) /\ Enter(c, "SEND", "token")
      BY <1>1, Zenon DEF SendCall
    <3> QED
      BY <3>1, AtFacts, EnterMoves DEF Idle, Kinds, Labels, Moves
  <2>2. PICK v \in views[c] : \E n : slot' = [slot EXCEPT ![v.slot].prevSequence = n]
    BY <1>1, Zenon DEF SendCall
  <2>3. v.slot \in Slots
    BY DEF ViewType, View
  <2> QED
    BY <2>1, <2>2, <2>3, JournalRests, Zenon DEF Travels
<1>2. CASE SendToken(c)
  <2>1. pc[c].op = "SEND" /\ pc[c].at = "token"
    BY <1>2, AtFacts, Zenon DEF SendToken, CasToken
  <2>2. CASE Here(c).token = NoToken
    BY <1>2, <2>2, TokenRests, Zenon DEF SendToken, CasToken, Travels
  <2>3. CASE Here(c).token # NoToken
    BY <1>2, <2>1, <2>3, ReturnRests, Zenon DEF SendToken, CasToken, Travels
  <2> QED
    BY <2>2, <2>3, Zenon
<1>3. CASE SendClaim(c)
  <2>1. Here(c).owner = c
    BY <1>3, AtFacts, Zenon DEF SendClaim, CasState, CallInv, SendInv, Mine
  <2> QED
    BY <1>3, <2>1, ClaimTravels, Zenon DEF SendClaim
<1>4. CASE SendUndo(c)
  BY <1>4, ClearReturnRests, Zenon DEF SendUndo, Travels
<1>5. CASE SendFill(c)
  <2>1. /\ pc[c].op = "SEND" /\ pc[c].at = "fill" /\ loc[c].slot \in Slots
        /\ Here(c).owner = c /\ <<c, loc[c].peer>> \in Links
        /\ Here(c).state = "CLAIMING"
    BY <1>5, AtFacts, HasSlot
       DEF SendFill, CallInv, SendInv, Mine, TokenInv, InClaim
  <2> DEFINE sent == [Here(c) EXCEPT !.next = loc[c].peer, !.source = c,
                        !.sourceEpoch = Here(c).epoch,
                        !.sourceHops = Here(c).hops,
                        !.sequence = Here(c).sequence + 1]
  <2>2. CASE /\ SendAccepts(c)
             /\ slot' = [slot EXCEPT ![loc[c].slot] =
                      [@ EXCEPT !.next = loc[c].peer, !.source = c,
                                !.sourceEpoch = Here(c).epoch,
                                !.sourceHops = Here(c).hops,
                                !.sequence = Here(c).sequence + 1]]
             /\ loc' = [loc EXCEPT ![c].sequence = Here(c).sequence + 1]
             /\ Goto(c, "publish")
    <3>1. slot' = [slot EXCEPT ![loc[c].slot] = sent]
      BY <2>1, <2>2, Zenon DEF Here, SlotType
    <3>2. Here(c) \in SlotControl
      BY <2>1, Zenon DEF Here, SlotType
    <3>3. /\ sent.token = Here(c).token /\ sent.state = "CLAIMING"
          /\ sent.hops = Here(c).hops /\ sent.sourceHops = Here(c).hops
          /\ sent.owner = c /\ sent.next = loc[c].peer /\ sent.source = c
      BY <2>1, <3>2, Zenon DEF SlotControl
    <3>4. loc'[c].slot = loc[c].slot
      BY <2>2, Zenon DEF LocType, Locals
    <3>5. Here(c).hops < HopLimit
      BY <2>2, Zenon DEF SendAccepts, WithinHops
    <3> HIDE DEF sent
    <3>6. pc'[c].at = "publish" /\ Works(c) /\ slot'[loc[c].slot] = sent
      <4>1. /\ slot'[loc[c].slot] = sent
            /\ \A r \in Slots \ {loc[c].slot} : slot'[r] = slot[r]
        BY <2>1, <3>1, Zenon DEF SlotType
      <4> QED
        BY <1>5, <2>2, <3>3, <3>4, <4>1, FillWorks, Zenon DEF Labels, Kinds, SendFill, Here
    <3>7. Prepared(loc[c].slot)'
      BY <2>1, <3>3, <3>4, <3>5, <3>6, Zenon DEF Prepared
    <3> QED
      BY <2>1, <3>3, <3>4, <3>6, <3>7, Zenon DEF Fills, Travels, Here, Prepared
  <2>3. CASE /\ slot' = [slot EXCEPT ![loc[c].slot].state = "OWNED"]
             /\ Goto(c, "undo")
             /\ UNCHANGED loc
    BY <1>5, <2>1, <2>3, AbortWorks, Zenon DEF Kinds, States, SendFill, Aborts, Travels
  <2> QED
    BY <1>5, <2>2, <2>3, Zenon DEF SendFill
<1>6. CASE SendPublish(c)
  <2>1. /\ pc[c].op = "SEND" /\ pc[c].at = "publish" /\ pc'[c].at = "clear"
        /\ Works(c) /\ SameRest(loc[c].slot) /\ slot'[loc[c].slot].state = "TRANSFER"
    BY <1>6, PublishWorks, Zenon DEF Kinds, States, SendPublish
  <2>2. Here(c).owner = c
    BY <2>1, Zenon DEF CallInv, SendInv, Mine
  <2> QED
    BY <2>1, <2>2, Zenon DEF Ends, Travels
<1>7. CASE SendClear(c)
  BY <1>7, ClearGotoRests, Zenon DEF SendClear, Labels, Travels
<1>8. CASE SendPush(c)
  <2>1. pc[c].op = "SEND" /\ pc[c].at = "push" /\ slot' = slot
    BY <1>8, AtFacts, Zenon DEF SendPush
  <2>2. CASE Return(c)
    BY <2>1, <2>2, ReturnRests, Zenon DEF Travels
  <2>3. CASE Enter(c, "ROLLBACK", "check")
    <3>1. pc'[c].op = "ROLLBACK" /\ pc'[c].at = "check"
      BY <2>3, EnterMoves, Zenon DEF Kinds, Labels, Moves
    <3> QED
      BY <2>1, <3>1, QuietRests, Zenon DEF Travels, HoldsToken
  <2> QED
    BY <1>8, <2>2, <2>3, Zenon DEF SendPush
<1> QED
  BY <1>1, <1>2, <1>3, <1>4, <1>5, <1>6, <1>7, <1>8, Zenon DEF SendStep

LEMMA RollbackTravels ==
  ASSUME TypeOK, NEW c \in Components, CallInv(c), RollbackStep(c)
  PROVE  Travels(c)
<1> USE Types
<1>0. pc[c].op = "ROLLBACK" => loc[c].slot \in Slots
  BY Zenon DEF CallInv, ControlInv, Steps
<1>1. CASE RollbackCheck(c)
  <2>1. pc[c].op = "ROLLBACK" /\ pc[c].at = "check" /\ Here(c).state = "TRANSFER"
    BY <1>1, AtFacts, Zenon DEF RollbackCheck, CallInv, RollbackInv
  <2>2. pc'[c].op = "ROLLBACK" /\ pc'[c].at = "token"
    BY <1>1, <2>1, GotoMoves, Zenon DEF RollbackCheck, Labels, Moves
  <2>3. \E n : slot' = [slot EXCEPT ![loc[c].slot].prevSequence = n]
    BY <1>1, <2>1, Zenon DEF RollbackCheck
  <2> QED
    BY <1>0, <2>1, <2>2, <2>3, JournalRests, Zenon DEF Travels
<1>2. CASE RollbackToken(c)
  <2>1. pc[c].op = "ROLLBACK" /\ pc[c].at = "token"
    BY <1>2, AtFacts, Zenon DEF RollbackToken, CasToken
  <2>2. CASE Here(c).token = NoToken
    BY <1>2, <2>2, TokenRests, Zenon DEF RollbackToken, CasToken, Travels
  <2>3. CASE Here(c).token # NoToken
    <3>1. slot' = slot /\ pc'[c].op = "ROLLBACK" /\ pc'[c].at = "lost"
      BY <1>2, <2>1, <2>3, GotoMoves, Zenon DEF RollbackToken, CasToken, Labels, Moves
    <3> QED
      BY <2>1, <3>1, QuietRests, Zenon DEF Travels, HoldsToken
  <2> QED
    BY <2>2, <2>3, Zenon
<1>3. CASE RollbackClaim(c)
  <2>1. Here(c).owner = c
    BY <1>3, AtFacts DEF RollbackClaim, CasState, CallInv, RollbackInv, Mine
  <2> QED
    BY <1>3, <2>1, ClaimTravels, Zenon DEF RollbackClaim
<1>4. CASE RollbackUndo(c)
  BY <1>4, ClearGotoRests, Zenon DEF RollbackUndo, Labels, Travels
<1>5. CASE RollbackFill(c)
  <2>1. /\ pc[c].op = "ROLLBACK" /\ pc[c].at = "fill" /\ loc[c].slot \in Slots
        /\ Here(c).state = "CLAIMING" /\ RollbackAccepts(c)
    BY <1>0, <1>5, AtFacts, Zenon
       DEF RollbackFill, CallInv, RollbackInv, Mine, Transferring, TokenInv,
           InClaim, RollbackAccepts
  <2> DEFINE back == [Here(c) EXCEPT !.next = NoComponent,
                                     !.sequence = loc[c].sequence - 1]
  <2>2. slot' = [slot EXCEPT ![loc[c].slot] = back]
    BY <1>5, <2>1, Zenon DEF RollbackFill, Here, SlotType
  <2>3. Here(c) \in SlotControl
    BY <2>1, Zenon DEF Here, SlotType
  <2>4. /\ back.token = Here(c).token /\ back.state = "CLAIMING"
        /\ back.hops = Here(c).hops
    BY <2>1, <2>3, Zenon DEF SlotControl
  <2> HIDE DEF back
  <2>5. /\ slot'[loc[c].slot] = back
        /\ \A r \in Slots \ {loc[c].slot} : slot'[r] = slot[r]
    BY <2>1, <2>2, Zenon DEF SlotType
  <2>6. loc' = loc /\ (Goto(c, "publish") \/ Goto(c, "lost"))
    BY <1>5, <2>1, Zenon DEF RollbackFill
  <2>7. CASE Goto(c, "publish")
    <3>1. pc'[c].at = "publish" /\ Works(c)
      BY <1>5, <2>5, <2>4, <2>6, <2>7, FillWorks, Zenon DEF Labels, Kinds, RollbackFill, Here
    <3> QED
      BY <2>5, <2>1, <2>4, <3>1, Zenon DEF Fills, Travels, Here
  <2>8. CASE Goto(c, "lost")
    <3>1. pc'[c].at = "lost" /\ Works(c)
      BY <1>5, <2>5, <2>4, <2>6, <2>8, FillWorks, Zenon DEF Labels, Kinds, RollbackFill, Here
    <3> QED
      BY <2>5, <2>1, <2>4, <3>1, Zenon DEF Fills, Travels, Here
  <2> QED
    BY <2>6, <2>7, <2>8, Zenon
<1>6. CASE RollbackPublish(c)
  <2>1. /\ pc[c].op = "ROLLBACK" /\ pc[c].at = "publish" /\ pc'[c].at = "clear"
        /\ Works(c) /\ SameRest(loc[c].slot) /\ slot'[loc[c].slot].state = "OWNED"
    BY <1>6, PublishWorks, Zenon DEF Kinds, States, RollbackPublish
  <2>2. Here(c).owner = c
    BY <2>1, Zenon DEF CallInv, RollbackInv, Mine
  <2> QED
    BY <2>1, <2>2, Zenon DEF Ends, Travels
<1>7. CASE RollbackClear(c)
  BY <1>7, ClearReturnRests, Zenon DEF RollbackClear, Travels
<1>8. CASE RollbackLost(c)
  BY <1>8, AtFacts, ReturnRests DEF RollbackLost, Travels
<1> QED
  BY <1>1, <1>2, <1>3, <1>4, <1>5, <1>6, <1>7, <1>8, Zenon DEF RollbackStep

LEMMA ReceiveTravels ==
  ASSUME TypeOK, NEW c \in Components, CallInv(c), RecvCall(c) \/ RecvStep(c)
  PROVE  Travels(c)
<1> USE Types
<1>1. CASE RecvCall(c)
  <2>1. Idle(c) /\ Enter(c, "RECEIVE", "check") /\ slot' = slot
    BY <1>1, Zenon DEF RecvCall
  <2>2. pc[c].at = "idle" /\ pc'[c].op = "RECEIVE" /\ pc'[c].at = "check"
    BY <2>1, AtFacts, EnterMoves DEF Idle, Kinds, Labels, Moves
  <2> QED
    BY <2>1, <2>2, QuietRests, Zenon DEF Travels, HoldsToken
<1>2. CASE RecvCheck(c)
  <2>1. pc[c].op = "RECEIVE" /\ pc[c].at = "check" /\ slot' = slot
    BY <1>2, AtFacts, Zenon DEF RecvCheck
  <2>2. pc'[c].op = "RECEIVE" /\ pc'[c].at \in {"token", "drop"}
    <3>1. Goto(c, "token") \/ Goto(c, "drop")
      BY <1>2, Zenon DEF RecvCheck
    <3> QED
      BY <2>1, <3>1, GotoMoves, Zenon DEF Labels, Moves
  <2> QED
    BY <2>1, <2>2, QuietRests, Zenon DEF Travels, HoldsToken
<1>3. CASE RecvToken(c)
  <2>1. pc[c].op = "RECEIVE" /\ pc[c].at = "token"
    BY <1>3, AtFacts, Zenon DEF RecvToken, CasToken
  <2>2. CASE Here(c).token = NoToken
    BY <1>3, <2>2, TokenRests, Zenon DEF RecvToken, CasToken, Travels
  <2>3. CASE Here(c).token # NoToken
    <3>1. slot' = slot /\ (Goto(c, "steal") \/ Goto(c, "drop"))
      BY <1>3, <2>3, Zenon DEF RecvToken, CasToken
    <3>2. pc'[c].op = "RECEIVE" /\ pc'[c].at \in {"steal", "drop"}
      BY <2>1, <3>1, GotoMoves, Zenon DEF Labels, Moves
    <3> QED
      BY <2>1, <3>1, <3>2, QuietRests, Zenon DEF Travels, HoldsToken
  <2> QED
    BY <2>2, <2>3, Zenon
<1>4. CASE RecvSteal(c) \/ RecvSwap(c)
  BY <1>4, AtFacts DEF RecvSteal, RecvSwap, CallInv, ControlInv, Steps
<1>5. CASE RecvClaim(c)
  BY <1>5, ClaimTravels, Zenon DEF RecvClaim
<1>6. CASE RecvUndo(c)
  BY <1>6, ClearGotoRests, Zenon DEF RecvUndo, Labels, Travels
<1>7. CASE RecvFill(c)
  <2>1. /\ pc[c].op = "RECEIVE" /\ pc[c].at = "fill" /\ loc[c].slot \in Slots
        /\ Here(c).state = "CLAIMING" /\ Here(c) \in SlotControl
    BY <1>7, AtFacts, HasSlot DEF RecvFill, CallInv, TokenInv, InClaim, Here, SlotType
  <2> DEFINE received == [Here(c) EXCEPT !.owner = c, !.next = NoComponent,
                            !.epoch = loc[c].epoch, !.hops = Here(c).sourceHops + 1]
  <2> DEFINE freed == [received EXCEPT !.owner = NoComponent, !.region = "EMPTY"]
  <2>2. /\ received.token = Here(c).token /\ freed.token = Here(c).token
        /\ received.state = "CLAIMING" /\ freed.state = "CLAIMING"
        /\ received.next = NoComponent /\ freed.next = NoComponent
        /\ received.source = Here(c).source /\ freed.source = Here(c).source
        /\ received.hops = Here(c).sourceHops + 1
        /\ freed.hops = Here(c).sourceHops + 1
    BY <2>1, Zenon DEF SlotControl
  <2>3. /\ At(c, "RECEIVE", "fill") /\ UNCHANGED loc
        /\ \/ /\ RecvAccepts(c)
              /\ slot' = [slot EXCEPT ![loc[c].slot] = received] /\ Goto(c, "publish")
           \/ /\ RecvAccepts(c)
              /\ slot' = [slot EXCEPT ![loc[c].slot] = freed] /\ Goto(c, "free")
           \/ /\ slot' = [slot EXCEPT ![loc[c].slot].state = "TRANSFER"]
              /\ Goto(c, "undo")
    BY <1>7, Zenon DEF RecvFill
  <2> HIDE DEF received, freed
  <2>4. CASE /\ RecvAccepts(c)
             /\ slot' = [slot EXCEPT ![loc[c].slot] = received] /\ Goto(c, "publish")
    <3>1. /\ slot'[loc[c].slot] = received
          /\ \A r \in Slots \ {loc[c].slot} : slot'[r] = slot[r]
      BY <2>1, <2>4, Zenon DEF SlotType
    <3>2. pc'[c].at = "publish" /\ Works(c)
      BY <2>2, <2>3, <2>4, <3>1, FillWorks, Zenon DEF Labels, Kinds, Here
    <3> QED
      BY <2>1, <2>2, <2>4, <3>1, <3>2, Zenon DEF Fills, Travels, RecvAccepts, Here
  <2>5. CASE /\ RecvAccepts(c)
             /\ slot' = [slot EXCEPT ![loc[c].slot] = freed] /\ Goto(c, "free")
    <3>1. /\ slot'[loc[c].slot] = freed
          /\ \A r \in Slots \ {loc[c].slot} : slot'[r] = slot[r]
      BY <2>1, <2>5, Zenon DEF SlotType
    <3>2. pc'[c].at = "free" /\ Works(c)
      BY <2>2, <2>3, <2>5, <3>1, FillWorks DEF Labels, Kinds, Here
    <3> QED
      BY <2>1, <2>2, <2>5, <3>1, <3>2, Zenon DEF Fills, Travels, RecvAccepts, Here
  <2>6. CASE /\ slot' = [slot EXCEPT ![loc[c].slot].state = "TRANSFER"]
             /\ Goto(c, "undo")
    BY <2>3, <2>6, AbortWorks, Zenon DEF Kinds, States, Aborts, Travels
  <2> QED
    BY <2>3, <2>4, <2>5, <2>6, Zenon
<1>8. CASE RecvFree(c)
  <2>1. /\ pc[c].op = "RECEIVE" /\ pc[c].at = "free" /\ pc'[c].at = "undo"
        /\ Works(c) /\ SameRest(loc[c].slot) /\ slot'[loc[c].slot].state = "FREE"
    BY <1>8, PublishWorks, Zenon DEF Kinds, States, RecvFree
  <2> QED
    BY <2>1, Zenon DEF Ends, Travels
<1>9. CASE RecvPublish(c)
  <2>1. /\ pc[c].op = "RECEIVE" /\ pc[c].at = "publish" /\ pc'[c].at = "clear"
        /\ Works(c) /\ SameRest(loc[c].slot) /\ slot'[loc[c].slot].state = "OWNED"
    BY <1>9, PublishWorks, Zenon DEF Kinds, States, RecvPublish
  <2>2. Here(c).owner = c
    BY <2>1, Zenon DEF CallInv, RecvInv, Mine
  <2> QED
    BY <2>1, <2>2, Zenon DEF Ends, Travels
<1>10. CASE RecvClear(c)
  BY <1>10, ClearGotoRests, Zenon DEF RecvClear, Labels, Travels
<1>11. CASE RecvCommit(c)
  BY <1>11, AtFacts, ReturnRests DEF RecvCommit, Travels
<1>12. CASE RecvDrop(c)
  BY <1>12, AtFacts, ReturnRests DEF RecvDrop, Travels
<1> QED
  BY <1>1, <1>2, <1>3, <1>4, <1>5, <1>6, <1>7, <1>8, <1>9, <1>10, <1>11, <1>12, Zenon
     DEF RecvStep

LEMMA ReleaseTravels ==
  ASSUME TypeOK, NEW c \in Components, CallInv(c), ReleaseCall(c) \/ ReleaseStep(c)
  PROVE  Travels(c)
<1> USE Types
<1>1. CASE ReleaseCall(c)
  <2>1. Idle(c) /\ Enter(c, "RELEASE", "token")
    BY <1>1, Zenon DEF ReleaseCall
  <2>2. pc[c].at = "idle" /\ pc'[c].op = "RELEASE" /\ pc'[c].at = "token"
    BY <2>1, AtFacts, EnterMoves DEF Idle, Kinds, Labels, Moves
  <2>3. PICK v \in views[c] :
          slot' = [slot EXCEPT ![v.slot] =
                     [@ EXCEPT !.prevRegion = slot[v.slot].region,
                               !.prevOwner = slot[v.slot].owner,
                               !.prevEpoch = slot[v.slot].epoch]]
    BY <1>1, Zenon DEF ReleaseCall
  <2>4. v.slot \in Slots
    BY DEF ViewType, View
  <2> QED
    BY <2>2, <2>3, <2>4, JournalRests, Zenon DEF Travels
<1>2. CASE ReleaseToken(c)
  <2>1. pc[c].op = "RELEASE" /\ pc[c].at = "token"
    BY <1>2, AtFacts, Zenon DEF ReleaseToken, CasToken
  <2>2. CASE Here(c).token = NoToken
    BY <1>2, <2>2, TokenRests, Zenon DEF ReleaseToken, CasToken, Travels
  <2>3. CASE Here(c).token # NoToken
    BY <1>2, <2>1, <2>3, ReturnRests, Zenon DEF ReleaseToken, CasToken, Travels
  <2> QED
    BY <2>2, <2>3, Zenon
<1>3. CASE ReleaseClaim(c)
  <2>1. Here(c).owner = c
    BY <1>3, AtFacts, Zenon DEF ReleaseClaim, CasState, CallInv, ReleaseInv, Mine
  <2> QED
    BY <1>3, <2>1, ClaimTravels, Zenon DEF ReleaseClaim
<1>4. CASE ReleaseUndo(c)
  BY <1>4, ClearReturnRests, Zenon DEF ReleaseUndo, Travels
<1>5. CASE ReleaseFill(c)
  <2>1. /\ pc[c].op = "RELEASE" /\ pc[c].at = "fill" /\ loc[c].slot \in Slots
        /\ Here(c).owner = c
        /\ Here(c).state = "CLAIMING" /\ Here(c) \in SlotControl
    <3>1. pc[c].op = "RELEASE" /\ pc[c].at = "fill" /\ loc[c].slot \in Slots
      BY <1>5, AtFacts, HasSlot DEF ReleaseFill
    <3>2. Here(c).owner = c /\ Here(c).state = "CLAIMING"
      BY <3>1, Zenon DEF CallInv, ReleaseInv, Mine, TokenInv, InClaim
    <3> QED
      BY <3>1, <3>2, Zenon DEF Here, SlotType
  <2> DEFINE released == [Here(c) EXCEPT !.owner = NoComponent,
                                         !.next = NoComponent, !.region = "EMPTY"]
  <2>2. /\ released.token = Here(c).token /\ released.state = "CLAIMING"
        /\ released.hops = Here(c).hops
    BY <2>1, Zenon DEF SlotControl
  <2>3. /\ At(c, "RELEASE", "fill") /\ UNCHANGED loc
        /\ \/ slot' = [slot EXCEPT ![loc[c].slot] = released] /\ Goto(c, "publish")
           \/ /\ slot' = [slot EXCEPT ![loc[c].slot].state = "OWNED"]
              /\ Goto(c, "undo")
    BY <1>5, <2>1, Zenon DEF ReleaseFill, Here, SlotType
  <2> HIDE DEF released
  <2>4. CASE slot' = [slot EXCEPT ![loc[c].slot] = released] /\ Goto(c, "publish")
    <3>1. /\ slot'[loc[c].slot] = released
          /\ \A r \in Slots \ {loc[c].slot} : slot'[r] = slot[r]
      BY <2>1, <2>4, Zenon DEF SlotType
    <3>2. pc'[c].at = "publish" /\ Works(c)
      BY <2>2, <2>3, <2>4, <3>1, FillWorks, Zenon DEF Labels, Kinds, Here
    <3> QED
      BY <2>1, <2>2, <3>1, <3>2, Zenon DEF Fills, Travels, Here
  <2>5. CASE /\ slot' = [slot EXCEPT ![loc[c].slot].state = "OWNED"]
             /\ Goto(c, "undo")
    BY <2>1, <2>3, <2>5, AbortWorks, Zenon DEF Kinds, States, Aborts, Travels
  <2> QED
    BY <2>3, <2>4, <2>5, Zenon
<1>6. CASE ReleasePublish(c)
  <2>1. /\ pc[c].op = "RELEASE" /\ pc[c].at = "publish" /\ pc'[c].at = "clear"
        /\ Works(c) /\ SameRest(loc[c].slot) /\ slot'[loc[c].slot].state = "FREE"
    BY <1>6, PublishWorks, Zenon DEF Kinds, States, ReleasePublish
  <2> QED
    BY <2>1, Zenon DEF Ends, Travels
<1>7. CASE ReleaseClear(c)
  BY <1>7, ClearReturnRests, Zenon DEF ReleaseClear, Travels
<1> QED
  BY <1>1, <1>2, <1>3, <1>4, <1>5, <1>6, <1>7, Zenon DEF ReleaseStep

LEMMA StepTravels ==
  ASSUME TypeOK, NEW c \in Components, CallInv(c), Call(c) \/ Step(c)
  PROVE  Travels(c)
BY AllocTravels, SendTravels, RollbackTravels, ReceiveTravels, ReleaseTravels, Zenon
   DEF Call, Step

(***************************************************************************)
(* What the five ways do to the journeys.                                  *)
(***************************************************************************)
\* A claimed slot has the token of a runtime that is in a claim on it, or the
\* token of an abandoned rollback.
LEMMA Claimed ==
  ASSUME Inductive, NEW s \in Slots, slot[s].state = "CLAIMING"
  PROVE  /\ slot[s].token # NoToken
         /\ slot[s].token.comp \in Components
         /\ \/ InClaim(slot[s].token.comp) /\ loc[slot[s].token.comp].slot = s
            \/ slot[s].token.kind = "ROLLBACK"
<1>1. JourneyInv(s) /\ NoLeakedToken /\ SlotType
  BY Types, Zenon DEF Inductive, Coherent, Journeys
<1>2. slot[s].token # NoToken /\ slot[s].token \in Tokens
  BY <1>1, FieldTypes, Zenon DEF JourneyInv
<1>3. slot[s].token.comp \in Components
  BY <1>2, Zenon DEF Tokens
<1> QED
  BY <1>1, <1>2, <1>3, Zenon DEF JourneyInv, NoLeakedToken

\* The slot of a claim is claimed by nobody else.
LEMMA Alone ==
  ASSUME Coherent, NEW c \in Components, NEW d \in Components,
         HoldsToken(c), HoldsToken(d), loc[c].slot = loc[d].slot
  PROVE  c = d
<1>1. Here(c).token.comp = c /\ Here(d).token.comp = d
  BY HasToken, Zenon DEF Coherent
<1> QED
  BY <1>1, Zenon DEF Here

LEMMA RestKeepsJourneys ==
  ASSUME Inductive, Coherent', NEW x \in Components, Good(x), Rests(x)
  PROVE  Journeys'
<1> USE DEF Inductive
<1>1. Frame(x)
  BY Zenon DEF Good
<1>2. ASSUME NEW s \in Slots PROVE JourneyInv(s)' /\ (Prepared(s) <=> Prepared(s)')
  <2>1. Stays(s) /\ JourneyInv(s)
    BY Zenon DEF Rests, Journeys
  <2>2. Prepared(s) <=> Prepared(s)'
    BY <2>1, Zenon DEF Stays, SameRest, Prepared
  <2>3. ASSUME slot'[s].state = "CLAIMING"
        PROVE  /\ slot'[s].token # NoToken
               /\ \A c \in Components :
                    slot'[s].token.comp = c /\ HoldsToken(c)' /\ loc'[c].slot = s
                      => InClaim(c)'
    <3>1. slot[s].state = "CLAIMING" /\ slot[s].token # NoToken
      BY <2>1, <2>3, Zenon DEF Stays, JourneyInv
    <3>2. HoldsToken(x) /\ loc[x].slot = s => FALSE
      <4>1. HoldsToken(x) /\ loc[x].slot = s => slot[s].token.comp = x
        BY HasToken, Zenon DEF Coherent, Here
      <4> QED
        BY <2>1, <3>1, <4>1, Zenon DEF Rests, JourneyInv
    <3>3. slot'[s].token = slot[s].token
      BY <3>1, <3>2, Zenon DEF Rests
    <3>4. ASSUME NEW c \in Components, slot'[s].token.comp = c, HoldsToken(c)',
                 loc'[c].slot = s
          PROVE  InClaim(c)'
      <4>1. CASE c = x
        BY <3>1, <3>2, <3>4, <4>1, Zenon DEF Rests
      <4>2. CASE c # x
        BY <1>1, <2>1, <3>1, <3>3, <3>4, <4>2, Zenon
           DEF Frame, HoldsToken, InClaim, JourneyInv
      <4> QED
        BY <4>1, <4>2, Zenon
    <3> QED
      BY <3>1, <3>3, <3>4, Zenon
  <2> QED
    BY <2>1, <2>2, <2>3, Zenon DEF JourneyInv, Stays, SameRest
<1>3. ASSUME NEW c \in Components PROVE TravelInv(c)'
  <2>1. TravelInv(c)
    BY Zenon DEF Journeys
  <2>2. CASE c = x
    BY <2>1, <2>2, Zenon DEF Rests, TravelInv, InClaim
  <2>3. CASE c # x
    <3>1. pc'[c] = pc[c] /\ loc'[c] = loc[c]
      BY <1>1, <2>3, Zenon DEF Frame
    <3>2. CASE pc[c].at \in {"idle", "scan"}
      BY <2>1, <3>1, <3>2, Zenon DEF TravelInv
    <3>3. ASSUME NEW s \in Slots, s = loc[c].slot PROVE TravelInv(c)'
      BY <1>2, <2>1, <3>1, <3>3 DEF TravelInv, Rests, Stays, SameRest, Here
    <3> QED
      BY <3>2, <3>3, HasSlot, Zenon DEF Coherent
  <2> QED
    BY <2>2, <2>3, Zenon
<1> QED
  BY <1>2, <1>3, Zenon DEF Journeys

\* A runtime that works on its claim leaves the other slots and runtimes alone.
LEMMA WorkKeepsOthers ==
  ASSUME Inductive, NEW x \in Components, Good(x), Works(x)
  PROVE  /\ \A s \in Slots \ {loc[x].slot} : JourneyInv(s)'
         /\ \A c \in Components \ {x} : TravelInv(c)'
<1> USE DEF Inductive
<1>1. Frame(x)
  BY Zenon DEF Good
<1>2. ASSUME NEW s \in Slots \ {loc[x].slot} PROVE JourneyInv(s)'
  <2>1. slot'[s] = slot[s] /\ JourneyInv(s)
    BY Zenon DEF Works, Journeys
  <2>2. ASSUME NEW c \in Components, slot[s].state = "CLAIMING", slot[s].token.comp = c,
               HoldsToken(c)', loc'[c].slot = s
        PROVE  InClaim(c)'
    <3>1. c # x
      BY <2>2, Zenon DEF Works
    <3> QED
      BY <1>1, <2>1, <2>2, <3>1, Zenon DEF Frame, HoldsToken, InClaim, JourneyInv
  <2> QED
    BY <2>1, <2>2, Zenon DEF JourneyInv, Prepared
<1>3. ASSUME NEW c \in Components \ {x} PROVE TravelInv(c)'
  <2>1. TravelInv(c) /\ pc'[c] = pc[c] /\ loc'[c] = loc[c]
    BY <1>1, Zenon DEF Journeys, Frame
  <2>2. CASE InClaim(c)
    <3>1. loc[c].slot \in Slots
      BY <2>2, HasSlot, Zenon DEF Coherent, InClaim
    <3>2. loc[c].slot # loc[x].slot
      BY <2>2, Alone, Zenon DEF Works, InClaim, HoldsToken
    <3>3. slot'[loc[c].slot] = slot[loc[c].slot]
      BY <3>1, <3>2, Zenon DEF Works
    <3> QED
      BY <2>1, <3>3, Zenon DEF TravelInv, Prepared, Here
  <2>3. CASE ~InClaim(c)
    BY <2>1, <2>3, Zenon DEF TravelInv, InClaim
  <2> QED
    BY <2>2, <2>3, Zenon
<1> QED
  BY <1>2, <1>3, Zenon

LEMMA OwnToken ==
  ASSUME Inductive, NEW x \in Components, HoldsToken(x)
  PROVE  /\ Here(x).token # NoToken
         /\ Here(x).token.comp = x
         /\ Here(x).token.kind = pc[x].op
         /\ InClaim(x) => Here(x).state = "CLAIMING"
<1>1. /\ Here(x).token = Token(pc[x].op, x, loc[x].epoch)
      /\ InClaim(x) => Here(x).state = "CLAIMING"
  BY HasToken, Zenon DEF Inductive, Coherent
<1> QED
  BY <1>1, TokenFields, ProtocolAssumption DEF NoToken

LEMMA WorkKeepsJourneys ==
  ASSUME Inductive, NEW x \in Components, Good(x),
         Claims(x) \/ Fills(x) \/ Aborts(x) \/ Ends(x)
  PROVE  Journeys'
<1>1. Works(x)
  BY Zenon DEF Claims, Fills, Aborts, Ends
<1>2. PICK s \in Slots : s = loc[x].slot /\ s = loc'[x].slot
  BY <1>1, Zenon DEF Works
<1>3. JourneyInv(s) /\ TravelInv(x)
  BY Zenon DEF Inductive, Journeys
<1>4. /\ slot'[s].token = slot[s].token
      /\ slot[s].token # NoToken /\ slot[s].token.comp = x
      /\ pc'[x].op = pc[x].op
  BY <1>1, <1>2, OwnToken, Zenon DEF Works, Here
<1>5. slot[s].hops \in Nat /\ slot[s].sourceHops \in Nat
  BY Types, FieldTypes, Zenon DEF Inductive, Coherent
<1>6. slot[s].state = "TRANSFER" => Prepared(s)
  BY <1>3, Zenon DEF JourneyInv
<1>7. SameRest(s) => (Prepared(s) <=> Prepared(s)')
  BY Zenon DEF SameRest, Prepared
<1>8. ASSUME slot'[s].state # "ERROR", slot'[s].hops <= HopLimit,
             slot'[s].state = "TRANSFER" => Prepared(s)',
             slot'[s].state = "CLAIMING" => InClaim(x)' \/ ~HoldsToken(x)'
      PROVE  JourneyInv(s)'
  BY <1>4, <1>8, Zenon DEF JourneyInv
<1>9. CASE Claims(x)
  <2>1. JourneyInv(s)'
    BY <1>2, <1>3, <1>8, <1>9, Zenon DEF Claims, SameRest, JourneyInv, InClaim
  <2>2. TravelInv(x)'
    BY <1>2, <1>3, <1>4, <1>6, <1>7, <1>9, Zenon DEF Claims, TravelInv, Here
  <2> QED
    BY <1>1, <1>2, <2>1, <2>2, WorkKeepsOthers, Zenon DEF Journeys
<1>10. CASE Fills(x)
  <2>1. pc[x].op = "RECEIVE" => Prepared(s)
    BY <1>2, <1>3, <1>10, Zenon DEF Fills, TravelInv
  <2>2. slot'[s].hops <= HopLimit
    <3>1. CASE pc[x].op = "RECEIVE"
      BY <1>2, <1>5, <1>10, <2>1, <3>1, ProtocolAssumption DEF Fills, Prepared
    <3>2. CASE pc[x].op # "RECEIVE"
      <4>1. slot'[s].hops = 1 \/ slot'[s].hops = slot[s].hops
        BY <1>2, <1>10, <3>2, Zenon DEF Fills
      <4> QED
        BY <1>3, <4>1, ProtocolAssumption DEF JourneyInv
    <3> QED
      BY <3>1, <3>2, Zenon
  <2>3. JourneyInv(s)'
    BY <1>2, <1>8, <1>10, <2>2, Zenon DEF Fills, InClaim, HoldsToken
  <2>4. TravelInv(x)'
    <3>1. CASE pc[x].op = "RECEIVE"
      <4>1. slot[s].source \in Components
        BY <2>1, <3>1, ProtocolAssumption, Zenon DEF Prepared
      <4> QED
        BY <1>2, <1>4, <1>10, <3>1, <4>1 DEF Fills, TravelInv, Here
    <3>2. CASE pc[x].op # "RECEIVE"
      BY <1>2, <1>3, <1>4, <1>10, <3>2, Zenon DEF Fills, TravelInv
    <3> QED
      BY <3>1, <3>2, Zenon
  <2> QED
    BY <1>1, <1>2, <2>3, <2>4, WorkKeepsOthers, Zenon DEF Journeys
<1>11. CASE Aborts(x)
  <2>1. pc[x].op = "RECEIVE" => Prepared(s)
    BY <1>2, <1>3, <1>11, Zenon DEF Aborts, TravelInv
  <2>2. JourneyInv(s)'
    BY <1>2, <1>3, <1>7, <1>8, <1>11, <2>1, Zenon DEF Aborts, SameRest, JourneyInv
  <2>3. TravelInv(x)'
    BY <1>3, <1>4, <1>11, Zenon DEF Aborts, TravelInv
  <2> QED
    BY <1>1, <1>2, <2>2, <2>3, WorkKeepsOthers, Zenon DEF Journeys
<1>12. CASE Ends(x)
  <2>1. pc[x].op = "SEND" /\ pc[x].at = "publish" => Prepared(s)
    BY <1>2, <1>3, Zenon DEF TravelInv
  <2>2. JourneyInv(s)'
    BY <1>2, <1>3, <1>7, <1>8, <1>12, <2>1, Zenon DEF Ends, SameRest, JourneyInv
  <2>3. TravelInv(x)'
    BY <1>3, <1>4, <1>12, Zenon DEF Ends, TravelInv
  <2> QED
    BY <1>1, <1>2, <2>2, <2>3, WorkKeepsOthers, Zenon DEF Journeys
<1> QED
  BY <1>9, <1>10, <1>11, <1>12, Zenon

(***************************************************************************)
(* The refinement.                                                         *)
(***************************************************************************)
LEMMA PlaceCases ==
  ASSUME NEW r
  PROVE  /\ r.state = "FREE" => PlaceOf(r) = Abstract!Free
         /\ r.state = "OWNED" => PlaceOf(r) = Abstract!OwnedBy(r.owner)
         /\ r.state = "TRANSFER" => PlaceOf(r) = Abstract!Moving(r.owner, r.next)
         /\ r.state = "CLAIMING" =>
              /\ r.token.kind = "ALLOCATE" => PlaceOf(r) = Abstract!Free
              /\ r.token.kind \in {"SEND", "ROLLBACK", "RELEASE"} =>
                   PlaceOf(r) = Abstract!OwnedBy(r.token.comp)
              /\ r.token.kind = "RECEIVE" /\ r.next # NoComponent =>
                   PlaceOf(r) = Abstract!Moving(r.owner, r.next)
              /\ r.token.kind = "RECEIVE" /\ r.next = NoComponent =>
                   PlaceOf(r) = Abstract!Moving(r.source, r.token.comp)
BY Zenon DEF PlaceOf, Standing, Abstract!Free, Abstract!OwnedBy, Abstract!Moving

\* A step outside of a claim moves nothing.
LEMMA RestMovesNothing ==
  ASSUME Inductive, NEW x \in Components, Rests(x), NEW s \in Slots
  PROVE  PlaceOf(slot'[s]) = PlaceOf(slot[s])
<1>1. Stays(s) /\ JourneyInv(s) /\ slot[s].state \in States
  BY Types, FieldTypes, Zenon DEF Rests, Inductive, Coherent, Journeys
<1>2. CASE slot[s].state = "CLAIMING"
  <2>1. HoldsToken(x) /\ loc[x].slot = s => slot[s].token.comp = x
    BY OwnToken, Zenon DEF Here
  <2>2. slot'[s].token = slot[s].token
    BY <1>1, <1>2, <2>1, Zenon DEF Rests, JourneyInv
  <2> QED
    BY <1>1, <2>2, Zenon DEF PlaceOf, Stays, SameRest
<1>3. CASE slot[s].state \in {"FREE", "OWNED", "TRANSFER"}
  BY <1>1, <1>3, Zenon DEF PlaceOf, Stays, SameRest
<1> QED
  BY <1>1, <1>2, <1>3, Zenon DEF States, JourneyInv

\* What the slot of a claim stands for after a step of the claim.
MovedBy(x, from, to) ==
  \/ to = from
  \/ x \in Allocators /\ from = Abstract!Free /\ to = Abstract!OwnedBy(x)
  \/ from = Abstract!OwnedBy(x) /\ to = Abstract!Free
  \/ \E d \in Components :
       \/ <<x, d>> \in Links /\ from = Abstract!OwnedBy(x) /\ to = Abstract!Moving(x, d)
       \/ from = Abstract!Moving(x, d) /\ to = Abstract!OwnedBy(x)
       \/ from = Abstract!Moving(d, x) /\ to = Abstract!OwnedBy(x)
       \/ from = Abstract!Moving(d, x) /\ to = Abstract!Free

LEMMA WorkMoves ==
  ASSUME Inductive, NEW x \in Components,
         Claims(x) \/ Fills(x) \/ Aborts(x) \/ Ends(x)
  PROVE  MovedBy(x, PlaceOf(slot[loc[x].slot]), PlaceOf(slot'[loc[x].slot]))
<1>1. Works(x)
  BY Zenon DEF Claims, Fills, Aborts, Ends
<1>2. PICK s \in Slots : s = loc[x].slot
  BY <1>1, Zenon DEF Works
<1>3. JourneyInv(s) /\ TravelInv(x)
  BY Zenon DEF Inductive, Journeys
<1>4. /\ slot'[s].token = slot[s].token
      /\ slot[s].token.comp = x /\ slot[s].token.kind = pc[x].op
      /\ InClaim(x) => slot[s].state = "CLAIMING"
  BY <1>1, <1>2, OwnToken, Zenon DEF Works, Here
<1>5. pc[x].op \in Kinds
  BY <1>1, Zenon DEF Inductive, Coherent, CallInv, ControlInv, Steps, Works, HoldsToken,
     TypeOK, PCs
<1>6. Prepared(s) => /\ slot[s].owner \in Components /\ slot[s].next \in Components
                     /\ slot[s].next # NoComponent /\ slot[s].source = slot[s].owner
  BY ProtocolAssumption, Zenon DEF Prepared
<1> DEFINE from == PlaceOf(slot[s])
           to == PlaceOf(slot'[s])
<1> SUFFICES MovedBy(x, from, to)
  BY <1>2, Zenon
<1>7. CASE Claims(x)
  <2>1. slot'[s].state = "CLAIMING" /\ SameRest(s)
    BY <1>2, <1>7, Zenon DEF Claims
  <2>2. CASE pc[x].op = "ALLOCATE"
    <3>1. from = Abstract!Free /\ to = Abstract!Free
      BY <1>2, <1>4, <1>7, <2>1, <2>2, PlaceCases, Zenon DEF Claims, Here
    <3> QED
      BY <3>1, Zenon DEF MovedBy
  <2>3. CASE pc[x].op \in {"SEND", "RELEASE"}
    <3>1. from = Abstract!OwnedBy(x) /\ to = Abstract!OwnedBy(x)
      BY <1>2, <1>4, <1>7, <2>1, <2>3, PlaceCases DEF Claims, Here
    <3> QED
      BY <3>1, Zenon DEF MovedBy
  <2>4. CASE pc[x].op = "ROLLBACK"
    <3>1. Prepared(s)
      BY <1>2, <1>3, <1>7, <2>4, Zenon DEF Claims, JourneyInv, Here
    <3>2. from = Abstract!Moving(x, slot[s].next) /\ to = Abstract!OwnedBy(x)
      BY <1>2, <1>4, <1>7, <2>1, <2>4, PlaceCases DEF Claims, Here
    <3> QED
      BY <1>6, <3>1, <3>2, Zenon DEF MovedBy
  <2>5. CASE pc[x].op = "RECEIVE"
    <3>1. slot[s].state = "TRANSFER" /\ Prepared(s)
      BY <1>2, <1>3, <1>7, <2>5, Zenon DEF Claims, JourneyInv, Here
    <3>2. from = Abstract!Moving(slot[s].owner, slot[s].next)
      BY <3>1, PlaceCases, Zenon
    <3>3. to = Abstract!Moving(slot[s].owner, slot[s].next)
      BY <1>4, <1>6, <2>1, <2>5, <3>1, PlaceCases, Zenon DEF SameRest
    <3> QED
      BY <3>2, <3>3, Zenon DEF MovedBy
  <2> QED
    BY <1>5, <2>2, <2>3, <2>4, <2>5, Zenon DEF Kinds
<1>8. CASE Fills(x)
  <2>1. slot'[s].state = "CLAIMING" /\ slot[s].state = "CLAIMING"
    BY <1>2, <1>4, <1>8, Zenon DEF Fills, InClaim
  <2>2. CASE pc[x].op = "ALLOCATE"
    <3>1. from = Abstract!Free /\ to = Abstract!Free
      BY <1>4, <2>1, <2>2, PlaceCases, Zenon
    <3> QED
      BY <3>1, Zenon DEF MovedBy
  <2>3. CASE pc[x].op \in {"SEND", "ROLLBACK", "RELEASE"}
    <3>1. from = Abstract!OwnedBy(x) /\ to = Abstract!OwnedBy(x)
      BY <1>4, <2>1, <2>3, PlaceCases, Zenon
    <3> QED
      BY <3>1, Zenon DEF MovedBy
  <2>4. CASE pc[x].op = "RECEIVE"
    <3>1. Prepared(s)
      BY <1>2, <1>3, <1>8, <2>4, Zenon DEF Fills, TravelInv
    <3>2. /\ slot[s].next = x /\ slot'[s].next = NoComponent
          /\ slot'[s].source = slot[s].source
      BY <1>2, <1>8, <2>4, Zenon DEF Fills
    <3>3. from = Abstract!Moving(slot[s].owner, x)
      BY <1>4, <1>6, <2>1, <2>4, <3>1, <3>2, PlaceCases, Zenon
    <3>4. to = Abstract!Moving(slot[s].owner, x)
      BY <1>4, <1>6, <2>1, <2>4, <3>1, <3>2, PlaceCases, Zenon
    <3> QED
      BY <3>3, <3>4, Zenon DEF MovedBy
  <2> QED
    BY <1>5, <2>2, <2>3, <2>4, Zenon DEF Kinds
<1>9. CASE Aborts(x)
  <2>1. slot[s].state = "CLAIMING" /\ SameRest(s)
    BY <1>2, <1>4, <1>9, Zenon DEF Aborts, InClaim
  <2>2. CASE pc[x].op \in {"SEND", "RELEASE"}
    <3>1. slot'[s].owner = x /\ slot'[s].state = "OWNED"
      BY <1>2, <1>9, <2>1, <2>2, Zenon DEF Aborts, SameRest, Here
    <3>2. from = Abstract!OwnedBy(x) /\ to = Abstract!OwnedBy(x)
      BY <1>4, <2>1, <2>2, <3>1, PlaceCases, Zenon
    <3> QED
      BY <3>2, Zenon DEF MovedBy
  <2>3. CASE pc[x].op = "RECEIVE"
    <3>1. Prepared(s) /\ slot'[s].state = "TRANSFER"
      BY <1>2, <1>3, <1>9, <2>3, Zenon DEF Aborts, TravelInv
    <3>2. from = Abstract!Moving(slot[s].owner, slot[s].next)
      BY <1>4, <1>6, <2>1, <2>3, <3>1, PlaceCases, Zenon
    <3>3. to = Abstract!Moving(slot[s].owner, slot[s].next)
      BY <2>1, <3>1, PlaceCases, Zenon DEF SameRest
    <3> QED
      BY <3>2, <3>3, Zenon DEF MovedBy
  <2> QED
    BY <1>9, <2>2, <2>3, Zenon DEF Aborts
<1>10. CASE Ends(x)
  <2>1. slot[s].state = "CLAIMING" /\ SameRest(s)
    BY <1>2, <1>4, <1>10, Zenon DEF Ends, InClaim
  <2>2. CASE pc[x].op = "ALLOCATE"
    <3>1. from = Abstract!Free /\ x \in Allocators
      BY <1>3, <1>4, <2>1, <2>2, PlaceCases, Zenon DEF TravelInv
    <3>2. to = Abstract!Free \/ to = Abstract!OwnedBy(x)
      BY <1>2, <1>10, <2>1, <2>2, PlaceCases DEF Ends, SameRest, Here
    <3> QED
      BY <3>1, <3>2, Zenon DEF MovedBy
  <2>3. CASE pc[x].op = "SEND"
    <3>1. Prepared(s) /\ slot'[s].state = "TRANSFER" /\ slot'[s].owner = x
      BY <1>2, <1>3, <1>10, <2>1, <2>3, Zenon DEF Ends, TravelInv, SameRest, Here
    <3>2. from = Abstract!OwnedBy(x)
      BY <1>4, <2>1, <2>3, PlaceCases, Zenon
    <3>3. to = Abstract!Moving(x, slot[s].next) /\ <<x, slot[s].next>> \in Links
      BY <2>1, <3>1, PlaceCases, Zenon DEF SameRest, Prepared
    <3> QED
      BY <1>6, <3>1, <3>2, <3>3, Zenon DEF MovedBy
  <2>4. CASE pc[x].op = "ROLLBACK"
    <3>1. from = Abstract!OwnedBy(x)
      BY <1>4, <2>1, <2>4, PlaceCases, Zenon
    <3>2. to = Abstract!OwnedBy(x)
      BY <1>2, <1>10, <2>1, <2>4, PlaceCases, Zenon DEF Ends, SameRest, Here
    <3> QED
      BY <3>1, <3>2, Zenon DEF MovedBy
  <2>5. CASE pc[x].op = "RECEIVE"
    <3>1. slot[s].next = NoComponent /\ slot[s].source \in Components
      BY <1>2, <1>3, <1>10, <2>5, Zenon DEF Ends, TravelInv, Here
    <3>2. from = Abstract!Moving(slot[s].source, x)
      BY <1>4, <2>1, <2>5, <3>1, PlaceCases, Zenon
    <3>3. to = Abstract!Free \/ to = Abstract!OwnedBy(x)
      BY <1>2, <1>10, <2>1, <2>5, PlaceCases DEF Ends, SameRest, Here
    <3> QED
      BY <3>1, <3>2, <3>3, Zenon DEF MovedBy
  <2>6. CASE pc[x].op = "RELEASE"
    <3>1. from = Abstract!OwnedBy(x)
      BY <1>4, <2>1, <2>6, PlaceCases, Zenon
    <3>2. to = Abstract!Free
      BY <1>2, <1>10, <2>1, <2>6, PlaceCases, Zenon DEF Ends
    <3> QED
      BY <3>1, <3>2, Zenon DEF MovedBy
  <2> QED
    BY <1>5, <2>2, <2>3, <2>4, <2>5, <2>6, Zenon DEF Kinds
<1> QED
  BY <1>7, <1>8, <1>9, <1>10, Zenon

(***************************************************************************)
(* What a step of runtime x guarantees for the transfers, where one        *)
(* component allocates and no deadline passes: no claim of a receiver      *)
(* fails, and no rollback finds its slot taken.                            *)
(***************************************************************************)
\* The descriptor of the transfer of slot s is in its ring.
Posted(s) ==
  \E i \in DOMAIN ring[<<slot[s].owner, slot[s].next>>] :
    LET m == ring[<<slot[s].owner, slot[s].next>>][i]
    IN /\ m.slot = s
       /\ m.generation = slot[s].generation
       /\ m.sequence = slot[s].sequence

SameGenerations == \A s \in Slots : slot'[s].generation = slot[s].generation
SameSequences == \A s \in Slots : slot'[s].sequence = slot[s].sequence

Renews(x) == pc[x].op = "ALLOCATE" /\ pc[x].at = "fill"

Serves(x) ==
  /\ ServedInv(x)'
  /\ ~Renews(x) => SameGenerations
  /\ ~InClaim(x) => SameSequences
  /\ Renews(x) =>
       /\ slot'[loc[x].slot].generation = slot[loc[x].slot].generation + 1
       /\ \A r \in Slots \ {loc[x].slot} : slot'[r] = slot[r]
  /\ pc[x].op = "RECEIVE" /\ pc[x].at = "fill" => pc'[x].at # "undo"
  /\ \A s \in Slots :
       Sending(x, s) /\ slot[s].state = "TRANSFER" => Sending(x, s)' \/ Posted(s)'

LEMMA ServesOf ==
  ASSUME NEW c \in Components, ServedInv(c)', ~Renews(c), SameGenerations,
         InClaim(c) \/ SameSequences,
         pc[c].op = "RECEIVE" => pc[c].at # "fill" \/ pc'[c].at # "undo",
         \/ pc[c].op \notin {"SEND", "ROLLBACK"}
         \/ pc'[c].op \in {"SEND", "ROLLBACK"} /\ loc'[c].slot = loc[c].slot
         \/ Here(c).state # "TRANSFER"
  PROVE  Serves(c)
BY Zenon DEF Serves, Sending, Here

LEMMA SetGenerations ==
  ASSUME NEW s, SameFields(s), \A r \in Slots \ {s} : slot'[r] = slot[r]
  PROVE  SameGenerations /\ SameSequences
BY Zenon DEF SameGenerations, SameSequences, SameFields

LEMMA JournalGenerations ==
  ASSUME SlotType, NEW s \in Slots,
         \/ \E n : slot' = [slot EXCEPT ![s].prevSequence = n]
         \/ slot' = [slot EXCEPT ![s] =
                       [@ EXCEPT !.prevRegion = slot[s].region,
                                 !.prevOwner = slot[s].owner,
                                 !.prevEpoch = slot[s].epoch]]
  PROVE  SameGenerations /\ SameSequences
<1>1. CASE \E n : slot' = [slot EXCEPT ![s].prevSequence = n]
  BY <1>1 DEF SameGenerations, SameSequences, SlotType, SlotControl
<1>2. CASE slot' = [slot EXCEPT ![s] =
                      [@ EXCEPT !.prevRegion = slot[s].region,
                                !.prevOwner = slot[s].owner,
                                !.prevEpoch = slot[s].epoch]]
  BY <1>2 DEF SameGenerations, SameSequences, SlotType, SlotControl
<1> QED
  BY <1>1, <1>2, Zenon

\* The token that is found on a slot in transfer is that of its owner, who has
\* not finished the send, or of its receiver's claim.
LEMMA TransferToken ==
  ASSUME Inductive, Served, NEW s \in Slots, slot[s].state = "TRANSFER",
         slot[s].token # NoToken
  PROVE  \E e \in Components :
           /\ HoldsToken(e)
           /\ loc[e].slot = s
           /\ \/ slot[s].owner = e /\ Sending(e, s)
              \/ /\ pc[e].op = "RECEIVE" /\ slot[s].next = e
                 /\ slot[s].owner \in Components /\ ~Sending(slot[s].owner, s)
<1>1. SlotType /\ NoLeakedToken
  BY Types, Zenon DEF Inductive, Coherent
<1>2. PICK e \in Components : e = slot[s].token.comp
  <2>1. slot[s].token \in Tokens
    BY <1>1, FieldTypes, Zenon
  <2> QED
    BY <2>1, Zenon DEF Tokens
<1>3. HoldsToken(e) /\ loc[e].slot = s
  BY <1>1, <1>2, Zenon DEF NoLeakedToken
<1>4. CallInv(e) /\ ServedInv(e) /\ ~InClaim(e)
  BY <1>3, OwnToken, Zenon DEF Inductive, Coherent, Served, Here
<1>5. pc[e].at \in {"claim", "undo", "clear"} /\ pc[e].at \in Steps(pc[e].op)
  BY <1>3, <1>4, Zenon DEF HoldsToken, InClaim, CallInv, ControlInv
<1>6. pc[e].op \in Kinds
  BY <1>5, Types, Zenon DEF Inductive, Coherent, PcType, PCs, Steps
<1>7. CASE pc[e].op = "ALLOCATE"
  BY <1>3, <1>4, <1>5, <1>7, Zenon DEF CallInv, AllocInv, ServedInv, Here
<1>8. CASE pc[e].op = "SEND"
  BY <1>3, <1>4, <1>8, Zenon DEF CallInv, SendInv, Mine, Sending, Here
<1>9. CASE pc[e].op = "ROLLBACK"
  BY <1>3, <1>4, <1>5, <1>9, Zenon DEF CallInv, RollbackInv, ServedInv, Mine, Sending, Here
<1>10. CASE pc[e].op = "RECEIVE"
  <2>1. pc[e].at = "claim"
    BY <1>3, <1>4, <1>5, <1>10, Zenon DEF CallInv, RecvInv, ServedInv, Here
  <2>2. PICK l \in Links : l = <<loc[e].peer, e>> /\ Live(l, ring[l][1])
                           /\ ring[l][1].slot = s
    BY <1>3, <1>4, <1>10, <2>1, Zenon DEF CallInv, RecvInv
  <2>3. /\ slot[s].owner = l[1] /\ slot[s].next = l[2]
        /\ ~Sending(l[1], s)
    BY <2>2, Zenon DEF Live
  <2> QED
    BY <1>3, <1>10, <2>2, <2>3, LinkPair, Zenon
<1>11. CASE pc[e].op = "RELEASE"
  BY <1>3, <1>4, <1>5, <1>11, Zenon DEF CallInv, ReleaseInv, ServedInv, Here
<1> QED
  BY <1>6, <1>7, <1>8, <1>9, <1>10, <1>11, Zenon DEF Kinds

(***************************************************************************)
(* Every step of every call serves.                                        *)
(***************************************************************************)
LEMMA AllocServes ==
  ASSUME Inductive, Served, NEW c \in Components, AllocCall(c) \/ AllocStep(c)
  PROVE  Serves(c)
<1>0. TypeOK /\ CallInv(c) /\ ServedInv(c) /\ ControlInv(c) /\ TokenInv(c)
  BY Zenon DEF Inductive, Coherent, Served, CallInv
<1> USE <1>0, Types DEF Labels
<1>1. CASE AllocCall(c)
  <2>1. pc[c].op = "NONE" /\ pc'[c].op = "ALLOCATE" /\ pc'[c].at = "scan" /\ slot' = slot
    BY <1>1, AtFacts, EnterMoves DEF AllocCall, Idle, Kinds, Moves
  <2> QED
    BY <2>1, ServesOf, Zenon DEF ServedInv, SameGenerations, SameSequences, Renews
<1>2. CASE AllocProbe(c)
  <2>1. pc[c].op = "ALLOCATE" /\ pc[c].at = "scan" /\ slot' = slot
    BY <1>2, AtFacts, Zenon DEF AllocProbe
  <2>2. PICK s \in loc[c].todo :
          IF slot[s].state = "FREE"
          THEN /\ loc' = [loc EXCEPT ![c].slot = s, ![c].todo = @ \ {s}]
               /\ Goto(c, "token")
          ELSE UNCHANGED pc
    BY <1>2, Zenon DEF AllocProbe
  <2>3. CASE slot[s].state = "FREE"
    <3>1. pc'[c].op = "ALLOCATE" /\ pc'[c].at = "token" /\ loc'[c].slot = s
      BY <2>1, <2>2, <2>3, GotoMoves DEF Moves, LocType, Locals
    <3> QED
      BY <2>1, <2>3, <3>1, ServesOf, Zenon DEF ServedInv, SameGenerations, SameSequences, Renews, Here
  <2>4. CASE slot[s].state # "FREE"
    BY <2>1, <2>2, <2>4, ServesOf, Zenon DEF ServedInv, SameGenerations, SameSequences, Renews
  <2> QED
    BY <2>3, <2>4, Zenon
<1>3. CASE AllocNone(c)
  <2>1. pc[c].op = "ALLOCATE" /\ pc[c].at = "scan" /\ slot' = slot /\ pc'[c].op = "NONE"
    BY <1>3, AtFacts, Returns DEF AllocNone, Moves
  <2> QED
    BY <2>1, ServesOf, Zenon DEF ServedInv, SameGenerations, SameSequences, Renews
<1>4. CASE AllocToken(c)
  <2>1. pc[c].op = "ALLOCATE" /\ pc[c].at = "token" /\ UNCHANGED loc
    BY <1>4, AtFacts, Zenon DEF AllocToken, CasToken
  <2>2. loc[c].slot \in Slots /\ Here(c).state = "FREE"
    BY <2>1, HasSlot, Zenon DEF ServedInv
  <2>3. CASE Here(c).token = NoToken
    <3>1. pc'[c].op = "ALLOCATE" /\ pc'[c].at = "claim"
      BY <1>4, <2>1, <2>3, GotoMoves, Zenon DEF AllocToken, CasToken, Moves
    <3>2. SetsToken(loc[c].slot, Token("ALLOCATE", c, loc[c].epoch))
      BY <1>4, <2>2, <2>3, TokenUpdate, TokenTypes, LocalTypes, Zenon
         DEF AllocToken, CasToken, Kinds
    <3> QED
      BY <2>1, <2>2, <3>1, <3>2, SetGenerations, ServesOf, Zenon
         DEF SetsToken, OnlySlot, ServedInv, Renews, Here
  <2>4. CASE Here(c).token # NoToken
    <3>1. pc'[c].op = "ALLOCATE" /\ pc'[c].at = "scan" /\ slot' = slot
      BY <1>4, <2>1, <2>4, GotoMoves, Zenon DEF AllocToken, CasToken, Moves
    <3> QED
      BY <2>1, <3>1, ServesOf, Zenon DEF ServedInv, SameGenerations, SameSequences, Renews
  <2> QED
    BY <2>3, <2>4, Zenon
<1>5. CASE AllocClaim(c)
  <2>1. pc[c].op = "ALLOCATE" /\ pc[c].at = "claim"
    BY <1>5, AtFacts, Zenon DEF AllocClaim, CasState
  <2>2. Here(c).state = "FREE" /\ loc[c].slot \in Slots
    BY <2>1, HasSlot, Zenon DEF ServedInv
  <2>3. SetsState(loc[c].slot, "CLAIMING") /\ pc'[c].op = "ALLOCATE" /\ pc'[c].at = "fill"
    BY <1>5, <2>1, <2>2, StateUpdate, GotoMoves, Zenon DEF AllocClaim, CasState, Moves, States
  <2> QED
    BY <2>1, <2>3, SetGenerations, ServesOf, Zenon
       DEF SetsState, OnlySlot, ServedInv, Renews
<1>6. CASE AllocUndo(c)
  <2>1. /\ pc[c].op = "ALLOCATE" /\ pc[c].at = "undo"
        /\ SetsToken(loc[c].slot, NoToken) /\ Inner(c, "scan")
    BY <1>6, ClearAndGotoEffect, Zenon DEF AllocUndo
  <2> QED
    BY <2>1, SetGenerations, ServesOf, Zenon
       DEF SetsToken, OnlySlot, ServedInv, Renews, Inner, Moves
<1>7. CASE AllocFill(c)
  <2> DEFINE allocated ==
        [InitialSlot EXCEPT !.state = "CLAIMING", !.token = Here(c).token,
           !.generation = Here(c).generation + 1, !.owner = c,
           !.epoch = loc[c].epoch, !.hops = 1, !.region = "SET"]
  <2> DEFINE freed ==
        [allocated EXCEPT !.owner = NoComponent, !.region = "EMPTY"]
  <2>1. /\ allocated.generation = Here(c).generation + 1
        /\ freed.generation = Here(c).generation + 1
    BY Zenon DEF InitialSlot
  <2>2. /\ At(c, "ALLOCATE", "fill")
        /\ \/ slot' = [slot EXCEPT ![loc[c].slot] = allocated] /\ Goto(c, "publish")
           \/ slot' = [slot EXCEPT ![loc[c].slot] = freed] /\ Goto(c, "free")
    BY <1>7, Zenon DEF AllocFill
  <2> HIDE DEF allocated, freed
  <2>3. pc[c].op = "ALLOCATE" /\ pc[c].at = "fill" /\ loc[c].slot \in Slots
    BY <2>2, AtFacts, HasSlot
  <2>4. pc'[c].op = "ALLOCATE" /\ pc'[c].at \in {"publish", "free"}
    BY <2>2, <2>3, GotoMoves, Zenon DEF Moves
  <2>5. /\ slot'[loc[c].slot].generation = Here(c).generation + 1
        /\ \A r \in Slots \ {loc[c].slot} : slot'[r] = slot[r]
    BY <2>1, <2>2, <2>3, Zenon DEF SlotType
  <2> QED
    BY <2>3, <2>4, <2>5, Zenon DEF Serves, ServedInv, Renews, InClaim, Sending, Here
<1>8. CASE AllocFree(c)
  <2>1. /\ pc[c].op = "ALLOCATE" /\ pc[c].at = "free"
    BY <1>8, AtFacts, Zenon DEF AllocFree, Publish
  <2>2. SetsState(loc[c].slot, "FREE") /\ Inner(c, "undo")
    BY <1>8, <2>1, HasSlot, PublishEffect, Zenon DEF AllocFree, States
  <2> QED
    BY <2>1, <2>2, SetGenerations, ServesOf, Zenon
       DEF SetsState, OnlySlot, ServedInv, Renews, Inner, Moves, Here
<1>9. CASE AllocPublish(c)
  <2>1. /\ pc[c].op = "ALLOCATE" /\ pc[c].at = "publish"
    BY <1>9, AtFacts, Zenon DEF AllocPublish, Publish
  <2>2. SetsState(loc[c].slot, "OWNED") /\ Inner(c, "clear")
    BY <1>9, <2>1, HasSlot, PublishEffect, Zenon DEF AllocPublish, States
  <2> QED
    BY <2>1, <2>2, SetGenerations, ServesOf, Zenon
       DEF SetsState, OnlySlot, ServedInv, Renews, Inner, Moves
<1>10. CASE AllocClear(c)
  <2>1. /\ pc[c].op = "ALLOCATE" /\ pc[c].at = "clear"
        /\ SetsToken(loc[c].slot, NoToken) /\ pc'[c].op = "NONE"
    BY <1>10, ClearAndReturnEffect, Zenon DEF AllocClear, Moves
  <2> QED
    BY <2>1, SetGenerations, ServesOf, Zenon DEF SetsToken, OnlySlot, ServedInv, Renews
<1> QED
  BY <1>1, <1>2, <1>3, <1>4, <1>5, <1>6, <1>7, <1>8, <1>9, <1>10, Zenon DEF AllocStep

LEMMA PushServes ==
  ASSUME Inductive, NEW c \in Components, SendPush(c)
  PROVE  Serves(c)
<1>0. TypeOK /\ CallInv(c)
  BY Zenon DEF Inductive, Coherent
<1> USE <1>0, Types
<1>1. pc[c].op = "SEND" /\ pc[c].at = "push" /\ slot' = slot
  BY AtFacts, Zenon DEF SendPush
<1>2. /\ Transferring(c) /\ Mine(c) /\ <<c, loc[c].peer>> \in Links
      /\ loc[c].slot \in Slots
  BY <1>1, HasSlot, Zenon DEF CallInv, SendInv
<1>3. CASE Enter(c, "ROLLBACK", "check") /\ UNCHANGED loc
  <2>1. pc'[c].op = "ROLLBACK" /\ pc'[c].at = "check"
    BY <1>3, EnterMoves, Zenon DEF Kinds, Labels, Moves
  <2> QED
    BY <1>1, <1>3, <2>1, ServesOf, Zenon DEF ServedInv, SameGenerations, SameSequences, Renews
<1>4. CASE /\ ring' = [ring EXCEPT ![<<c, loc[c].peer>>] = Pushed(@, Descriptor(c))]
           /\ Return(c)
  <2>1. pc'[c].op = "NONE"
    BY <1>4, Returns, Zenon DEF Moves
  <2> DEFINE l == <<c, loc[c].peer>>
             q == ring[l]
             m == Descriptor(c)
  <2>2. q \in Seq(Message) /\ ring'[l] = Pushed(q, m)
    BY <1>2, <1>4, Zenon DEF RingType
  <2>m. m \in Message
    BY <1>2, LocalTypes, ProtocolAssumption, Zenon DEF Descriptor, Message
  <2>3. \E i \in DOMAIN ring'[l] : ring'[l][i] = m
    <3> HIDE DEF q, m
    <3>1. CASE \E i \in DOMAIN q : q[i] = m
      BY <2>2, <3>1, Zenon DEF Pushed
    <3>2. CASE ~ \E i \in DOMAIN q : q[i] = m
      <4>1. ring'[l] = Append(q, m)
        BY <2>2, <3>2, Zenon DEF Pushed
      <4>2. Len(q) + 1 \in DOMAIN Append(q, m) /\ Append(q, m)[Len(q) + 1] = m
        BY <2>2, <2>m
      <4> QED
        BY <4>1, <4>2, Zenon
    <3> QED
      BY <3>1, <3>2, Zenon
  <2>4. /\ m.slot = loc[c].slot /\ m.generation = loc[c].generation
        /\ m.sequence = loc[c].sequence
    BY Zenon DEF Descriptor
  <2>5. /\ slot[loc[c].slot].owner = c /\ slot[loc[c].slot].next = loc[c].peer
        /\ slot[loc[c].slot].generation = loc[c].generation
        /\ slot[loc[c].slot].sequence = loc[c].sequence
    BY <1>2, Zenon DEF Transferring, Mine, Here
  <2> HIDE DEF m
  <2>6. Posted(loc[c].slot) \in BOOLEAN /\ \A s \in Slots : s = loc[c].slot => Posted(s)'
    BY <1>1, <2>3, <2>4, <2>5 DEF Posted
  <2>7. ServedInv(c)' /\ SameGenerations /\ SameSequences
    BY <1>1, <2>1, Zenon DEF ServedInv, SameGenerations, SameSequences
  <2> QED
    BY <1>1, <2>6, <2>7, Zenon DEF Serves, Renews, Sending
<1> QED
  BY <1>3, <1>4, Zenon DEF SendPush

LEMMA SendServes ==
  ASSUME Inductive, Served, NEW c \in Components, SendCall(c) \/ SendStep(c)
  PROVE  Serves(c)
<1>0. TypeOK /\ CallInv(c) /\ ServedInv(c) /\ ControlInv(c) /\ TokenInv(c) /\ SendInv(c)
  BY Zenon DEF Inductive, Coherent, Served, CallInv
<1> USE <1>0, Types DEF Labels
<1>1. CASE SendCall(c)
  <2>1. Idle(c) /\ Enter(c, "SEND", "token")
    BY <1>1, Zenon DEF SendCall
  <2>2. /\ pc[c].op = "NONE" /\ pc[c].at = "idle"
        /\ pc'[c].op = "SEND" /\ pc'[c].at = "token"
    BY <2>1, AtFacts, EnterMoves DEF Idle, Kinds, Moves
  <2>3. PICK v \in views[c] : \E n : slot' = [slot EXCEPT ![v.slot].prevSequence = n]
    BY <1>1, Zenon DEF SendCall
  <2>4. v.slot \in Slots
    BY DEF ViewType, View
  <2>5. SameGenerations /\ SameSequences
    BY <2>3, <2>4, JournalGenerations, Zenon
  <2> QED
    BY <2>2, <2>5, ServesOf, Zenon DEF ServedInv, Renews
<1>2. CASE SendToken(c)
  <2>1. pc[c].op = "SEND" /\ pc[c].at = "token"
    BY <1>2, AtFacts, Zenon DEF SendToken, CasToken
  <2>2. loc[c].slot \in Slots /\ Here(c).state = "OWNED"
    BY <2>1, HasSlot, Zenon DEF SendInv
  <2>3. CASE Here(c).token = NoToken
    <3>1. pc'[c].op = "SEND"
      BY <1>2, <2>1, <2>3, GotoMoves, Zenon DEF SendToken, CasToken, Moves
    <3>2. SetsToken(loc[c].slot, Token("SEND", c, loc[c].epoch))
      BY <1>2, <2>2, <2>3, TokenUpdate, TokenTypes, LocalTypes, Zenon
         DEF SendToken, CasToken, Kinds
    <3> QED
      BY <2>1, <2>2, <3>1, <3>2, SetGenerations, ServesOf, Zenon
         DEF SetsToken, OnlySlot, ServedInv, Renews
  <2>4. CASE Here(c).token # NoToken
    <3>1. pc'[c].op = "NONE" /\ slot' = slot
      BY <1>2, <2>1, <2>4, Returns, Zenon DEF SendToken, CasToken, Moves
    <3> QED
      BY <2>1, <2>2, <3>1, ServesOf, Zenon DEF ServedInv, SameGenerations, SameSequences, Renews
  <2> QED
    BY <2>3, <2>4, Zenon
<1>3. CASE SendClaim(c)
  <2>1. pc[c].op = "SEND" /\ pc[c].at = "claim" /\ loc[c].slot \in Slots
    BY <1>3, AtFacts, HasSlot DEF SendClaim, CasState
  <2>2. /\ SameGenerations /\ SameSequences /\ pc'[c].op = "SEND" /\ loc' = loc
    BY <1>3, <2>1, CasStateEffect, SetGenerations, Zenon
       DEF SendClaim, SetsState, OnlySlot, SameGenerations, SameSequences,
           Inner, Moves
  <2> QED
    BY <2>1, <2>2, ServesOf, Zenon DEF ServedInv, Renews
<1>4. CASE SendUndo(c)
  <2>1. /\ pc[c].op = "SEND" /\ pc[c].at = "undo"
        /\ SetsToken(loc[c].slot, NoToken) /\ pc'[c].op = "NONE"
    BY <1>4, ClearAndReturnEffect, Zenon DEF SendUndo, Moves
  <2>2. Here(c).state = "OWNED"
    BY <2>1, Zenon DEF SendInv
  <2> QED
    BY <2>1, <2>2, SetGenerations, ServesOf, Zenon DEF SetsToken, OnlySlot, ServedInv, Renews
<1>5. CASE SendFill(c)
  <2>1. /\ pc[c].op = "SEND" /\ pc[c].at = "fill" /\ loc[c].slot \in Slots
        /\ Goto(c, "publish") \/ Goto(c, "undo")
    BY <1>5, AtFacts, HasSlot DEF SendFill
  <2>2. pc'[c].op = "SEND" /\ loc'[c].slot = loc[c].slot
    BY <1>5, <2>1, GotoMoves DEF SendFill, Moves, LocType, Locals
  <2>3. SameGenerations
    <3>1. CASE slot' = [slot EXCEPT ![loc[c].slot].state = "OWNED"]
      BY <2>1, <3>1 DEF SameGenerations, SlotType, SlotControl
    <3>2. CASE slot' = [slot EXCEPT ![loc[c].slot] =
                      [@ EXCEPT !.next = loc[c].peer, !.source = c,
                                !.sourceEpoch = Here(c).epoch,
                                !.sourceHops = Here(c).hops,
                                !.sequence = Here(c).sequence + 1]]
      BY <2>1, <3>2 DEF SameGenerations, SlotType, SlotControl
    <3> QED
      BY <1>5, <3>1, <3>2, Zenon DEF SendFill
  <2> QED
    BY <2>1, <2>2, <2>3, ServesOf, Zenon DEF ServedInv, Renews, InClaim
<1>6. CASE SendPublish(c)
  <2>1. pc[c].op = "SEND" /\ pc[c].at = "publish"
    BY <1>6, AtFacts, Zenon DEF SendPublish, Publish
  <2>2. SetsState(loc[c].slot, "TRANSFER") /\ Inner(c, "clear")
    BY <1>6, <2>1, HasSlot, PublishEffect, Zenon DEF SendPublish, States
  <2> QED
    BY <2>1, <2>2, SetGenerations, ServesOf, Zenon
       DEF SetsState, OnlySlot, ServedInv, Renews, Inner, Moves
<1>7. CASE SendClear(c)
  <2>1. /\ pc[c].op = "SEND" /\ pc[c].at = "clear"
        /\ SetsToken(loc[c].slot, NoToken) /\ Inner(c, "push")
    BY <1>7, ClearAndGotoEffect, Zenon DEF SendClear
  <2> QED
    BY <2>1, SetGenerations, ServesOf, Zenon
       DEF SetsToken, OnlySlot, ServedInv, Renews, Inner, Moves
<1>8. CASE SendPush(c)
  BY <1>8, PushServes, Zenon
<1> QED
  BY <1>1, <1>2, <1>3, <1>4, <1>5, <1>6, <1>7, <1>8, Zenon DEF SendStep

LEMMA RollbackServes ==
  ASSUME Inductive, Served, NEW c \in Components, RollbackStep(c)
  PROVE  Serves(c)
<1>0. /\ TypeOK /\ CallInv(c) /\ ServedInv(c) /\ ControlInv(c) /\ TokenInv(c)
      /\ RollbackInv(c)
  BY Zenon DEF Inductive, Coherent, Served, CallInv
<1> USE <1>0, Types DEF Labels
<1>s. pc[c].op = "ROLLBACK" => loc[c].slot \in Slots
  BY Zenon DEF ControlInv, Steps
<1>1. CASE RollbackCheck(c)
  <2>1. pc[c].op = "ROLLBACK" /\ pc[c].at = "check" /\ Here(c).state = "TRANSFER"
    BY <1>1, AtFacts, Zenon DEF RollbackCheck, RollbackInv
  <2>2. pc'[c].op = "ROLLBACK" /\ pc'[c].at = "token" /\ loc' = loc
    BY <1>1, <2>1, GotoMoves, Zenon DEF RollbackCheck, Moves
  <2>3. \E n : slot' = [slot EXCEPT ![loc[c].slot].prevSequence = n]
    BY <1>1, <2>1, Zenon DEF RollbackCheck
  <2>4. SameGenerations /\ SameSequences
    BY <1>s, <2>1, <2>3, JournalGenerations, Zenon
  <2> QED
    BY <2>1, <2>2, <2>4, ServesOf, Zenon DEF ServedInv, Renews
<1>2. CASE RollbackToken(c)
  <2>1. pc[c].op = "ROLLBACK" /\ pc[c].at = "token" /\ loc' = loc
    BY <1>2, AtFacts, Zenon DEF RollbackToken, CasToken
  <2>2. Here(c).state = "TRANSFER" /\ Here(c).owner = c /\ loc[c].slot \in Slots
    BY <1>s, <2>1, Zenon DEF RollbackInv, Mine
  <2>3. Here(c).token = NoToken
    <3> SUFFICES ASSUME Here(c).token # NoToken PROVE FALSE
      BY Zenon
    <3>1. PICK e \in Components :
            /\ HoldsToken(e)
            /\ loc[e].slot = loc[c].slot
            /\ \/ Here(c).owner = e
               \/ ~Sending(Here(c).owner, loc[c].slot)
      BY <2>2, TransferToken, Zenon DEF Here
    <3>2. Sending(c, loc[c].slot) /\ ~HoldsToken(c)
      BY <2>1, Zenon DEF Sending, HoldsToken
    <3> QED
      BY <2>2, <3>1, <3>2, Zenon
  <2>4. pc'[c].op = "ROLLBACK" /\ pc'[c].at = "claim"
    BY <1>2, <2>1, <2>3, GotoMoves, Zenon DEF RollbackToken, CasToken, Moves
  <2>5. SetsToken(loc[c].slot, Token("ROLLBACK", c, loc[c].epoch))
    BY <1>2, <2>2, <2>3, TokenUpdate, TokenTypes, LocalTypes, Zenon
       DEF RollbackToken, CasToken, Kinds
  <2> QED
    BY <2>1, <2>4, <2>5, SetGenerations, ServesOf, Zenon
       DEF SetsToken, OnlySlot, ServedInv, Renews
<1>3. CASE RollbackClaim(c)
  <2>1. pc[c].op = "ROLLBACK" /\ pc[c].at = "claim"
    BY <1>3, AtFacts, Zenon DEF RollbackClaim, CasState
  <2>2. Here(c).state = "TRANSFER" /\ loc[c].slot \in Slots
    BY <1>s, <2>1, Zenon DEF RollbackInv
  <2>3. /\ SetsState(loc[c].slot, "CLAIMING") /\ loc' = loc
        /\ pc'[c].op = "ROLLBACK" /\ pc'[c].at = "fill"
    BY <1>3, <2>1, <2>2, StateUpdate, GotoMoves, Zenon
       DEF RollbackClaim, CasState, Moves, States
  <2> QED
    BY <2>1, <2>3, SetGenerations, ServesOf, Zenon
       DEF SetsState, OnlySlot, ServedInv, Renews
<1>4. CASE RollbackUndo(c)
  BY <1>4, AtFacts, Zenon DEF RollbackUndo, ClearAndGoto, ServedInv
<1>5. CASE RollbackFill(c)
  <2>1. /\ pc[c].op = "ROLLBACK" /\ pc[c].at = "fill" /\ loc[c].slot \in Slots
        /\ loc' = loc
    BY <1>s, <1>5, AtFacts, Zenon DEF RollbackFill
  <2>2. RollbackAccepts(c)
    BY <2>1, Zenon DEF RollbackInv, Mine, Transferring, RollbackAccepts
  <2>3. Here(c).state = "CLAIMING" /\ Here(c).token.comp = c
    BY <2>1, HasToken, Zenon DEF HoldsToken, InClaim
  <2>4. /\ slot' = [slot EXCEPT ![loc[c].slot] =
                        [@ EXCEPT !.next = NoComponent,
                                  !.sequence = loc[c].sequence - 1]]
        /\ Goto(c, "publish") \/ Goto(c, "lost")
    BY <1>5, <2>2, Zenon DEF RollbackFill
  <2>5. /\ SameGenerations
        /\ slot'[loc[c].slot].state = slot[loc[c].slot].state
        /\ slot'[loc[c].slot].token = slot[loc[c].slot].token
    BY <2>1, <2>4 DEF SameGenerations, SlotType, SlotControl
  <2>6. pc'[c].op = "ROLLBACK" /\ pc'[c].at \in {"publish", "lost"}
    BY <2>1, <2>4, GotoMoves, Zenon DEF Moves
  <2>7. ServedInv(c)'
    BY <2>1, <2>3, <2>5, <2>6, Zenon DEF ServedInv, Here
  <2> QED
    BY <2>1, <2>5, <2>6, <2>7, ServesOf, Zenon DEF Renews, InClaim
<1>6. CASE RollbackPublish(c)
  <2>1. pc[c].op = "ROLLBACK" /\ pc[c].at = "publish"
    BY <1>6, AtFacts, Zenon DEF RollbackPublish, Publish
  <2>2. SetsState(loc[c].slot, "OWNED") /\ Inner(c, "clear")
    BY <1>6, <2>1, HasSlot, PublishEffect, Zenon DEF RollbackPublish, States
  <2> QED
    BY <2>1, <2>2, SetGenerations, ServesOf, Zenon
       DEF SetsState, OnlySlot, ServedInv, Renews, Inner, Moves
<1>7. CASE RollbackClear(c)
  <2>1. /\ pc[c].op = "ROLLBACK" /\ pc[c].at = "clear"
        /\ SetsToken(loc[c].slot, NoToken) /\ pc'[c].op = "NONE"
    BY <1>7, ClearAndReturnEffect, Zenon DEF RollbackClear, Moves
  <2>2. Here(c).state = "OWNED"
    BY <2>1, Zenon DEF RollbackInv
  <2> QED
    BY <2>1, <2>2, SetGenerations, ServesOf, Zenon DEF SetsToken, OnlySlot, ServedInv, Renews
<1>8. CASE RollbackLost(c)
  <2>1. /\ pc[c].op = "ROLLBACK" /\ pc[c].at = "lost" /\ slot' = slot
        /\ pc'[c].op = "NONE"
    BY <1>8, AtFacts, Returns DEF RollbackLost, Moves
  <2>2. Here(c).state = "CLAIMING"
    BY <2>1, Zenon DEF ServedInv
  <2> QED
    BY <2>1, <2>2, ServesOf, Zenon DEF ServedInv, SameGenerations, SameSequences, Renews
<1> QED
  BY <1>1, <1>2, <1>3, <1>4, <1>5, <1>6, <1>7, <1>8, Zenon DEF RollbackStep

LEMMA ReceiveServes ==
  ASSUME Inductive, Served, ~Deadlines, NEW c \in Components, RecvCall(c) \/ RecvStep(c)
  PROVE  Serves(c)
<1>0. /\ TypeOK /\ CallInv(c) /\ ServedInv(c) /\ ControlInv(c) /\ TokenInv(c)
      /\ RecvInv(c) /\ TravelInv(c)
  BY Zenon DEF Inductive, Coherent, Journeys, Served, CallInv
<1> USE <1>0, Types DEF Labels
<1>s. pc[c].op = "RECEIVE" => loc[c].slot \in Slots
  BY Zenon DEF ControlInv, Steps
<1>l. ASSUME pc[c].op = "RECEIVE", pc[c].at \in {"check", "token", "claim", "fill"}
      PROVE  \E l \in Links :
               /\ l = <<loc[c].peer, c>> /\ Live(l, ring[l][1])
               /\ ring[l][1].slot = loc[c].slot
               /\ ring[l][1].generation = loc[c].generation
               /\ ring[l][1].sequence = loc[c].sequence
  BY <1>l, Zenon DEF RecvInv
<1>1. CASE RecvCall(c)
  <2>1. Idle(c) /\ Enter(c, "RECEIVE", "check") /\ slot' = slot
    BY <1>1, Zenon DEF RecvCall
  <2>2. pc[c].op = "NONE" /\ pc'[c].op = "RECEIVE" /\ pc'[c].at = "check"
    BY <2>1, AtFacts, EnterMoves DEF Idle, Kinds, Moves
  <2> QED
    BY <2>1, <2>2, ServesOf, Zenon DEF ServedInv, SameGenerations, SameSequences, Renews
<1>2. CASE RecvCheck(c)
  <2>1. pc[c].op = "RECEIVE" /\ pc[c].at = "check" /\ slot' = slot
    BY <1>2, AtFacts, Zenon DEF RecvCheck
  <2>2. Here(c).state = "TRANSFER"
    BY <2>1, Zenon DEF RecvInv
  <2>3. pc'[c].op = "RECEIVE" /\ pc'[c].at = "token"
    BY <1>2, <2>1, <2>2, GotoMoves, Zenon DEF RecvCheck, Moves
  <2> QED
    BY <2>1, <2>3, ServesOf, Zenon DEF ServedInv, SameGenerations, SameSequences, Renews
<1>3. CASE RecvToken(c)
  <2>1. pc[c].op = "RECEIVE" /\ pc[c].at = "token"
    BY <1>3, AtFacts, Zenon DEF RecvToken, CasToken
  <2>2. Here(c).state = "TRANSFER" /\ loc[c].slot \in Slots
    BY <1>s, <2>1, Zenon DEF RecvInv
  <2>3. Here(c).next = c /\ ~Sending(Here(c).owner, loc[c].slot)
    BY <1>l, <2>1 DEF Live, Here
  <2>4. Here(c).token = NoToken
    <3> SUFFICES ASSUME Here(c).token # NoToken PROVE FALSE
      BY Zenon
    <3>1. PICK e \in Components :
            /\ HoldsToken(e)
            /\ \/ Here(c).owner = e /\ Sending(e, loc[c].slot)
               \/ Here(c).next = e
      BY <2>2, TransferToken DEF Here
    <3>2. ~HoldsToken(c)
      BY <2>1, Zenon DEF HoldsToken
    <3> QED
      BY <2>3, <3>1, <3>2, Zenon
  <2>5. pc'[c].op = "RECEIVE" /\ pc'[c].at = "claim"
    BY <1>3, <2>1, <2>4, GotoMoves, Zenon DEF RecvToken, CasToken, Moves
  <2>6. SetsToken(loc[c].slot, Token("RECEIVE", c, loc[c].epoch))
    BY <1>3, <2>2, <2>4, TokenUpdate, TokenTypes, LocalTypes, Zenon
       DEF RecvToken, CasToken, Kinds
  <2> QED
    BY <2>1, <2>5, <2>6, SetGenerations, ServesOf, Zenon
       DEF SetsToken, OnlySlot, ServedInv, Renews
<1>4. CASE RecvSteal(c) \/ RecvSwap(c)
  BY <1>4, AtFacts DEF RecvSteal, RecvSwap, ControlInv, Steps
<1>5. CASE RecvClaim(c)
  <2>1. pc[c].op = "RECEIVE" /\ pc[c].at = "claim"
    BY <1>5, AtFacts, Zenon DEF RecvClaim, CasState
  <2>2. Here(c).state = "TRANSFER" /\ loc[c].slot \in Slots
    BY <1>s, <2>1, Zenon DEF RecvInv
  <2>3. /\ SetsState(loc[c].slot, "CLAIMING")
        /\ pc'[c].op = "RECEIVE" /\ pc'[c].at = "fill"
    BY <1>5, <2>1, <2>2, StateUpdate, GotoMoves, Zenon DEF RecvClaim, CasState, Moves, States
  <2> QED
    BY <2>1, <2>3, SetGenerations, ServesOf, Zenon DEF SetsState, OnlySlot, ServedInv, Renews
<1>6. CASE RecvUndo(c)
  <2>1. /\ pc[c].op = "RECEIVE" /\ pc[c].at = "undo" /\ loc[c].slot \in Slots
        /\ SetsToken(loc[c].slot, NoToken) /\ Inner(c, "drop")
    BY <1>6, ClearAndGotoEffect, Zenon DEF RecvUndo
  <2>2. Here(c).state = "FREE" /\ Here(c).generation = loc[c].generation
    BY <2>1, Zenon DEF ServedInv
  <2>3. pc'[c].op = "RECEIVE" /\ pc'[c].at = "drop" /\ loc' = loc
    BY <2>1, Zenon DEF Inner, Moves
  <2>4. GivenUp(c)'
    BY <2>1, <2>2, <2>3, Zenon DEF GivenUp, SetsToken, SameFields, Here
  <2> QED
    BY <2>1, <2>3, <2>4, SetGenerations, ServesOf, Zenon
       DEF SetsToken, OnlySlot, ServedInv, Renews
<1>7. CASE RecvFill(c)
  <2>1. pc[c].op = "RECEIVE" /\ pc[c].at = "fill" /\ loc[c].slot \in Slots /\ loc' = loc
    BY <1>s, <1>7, AtFacts, Zenon DEF RecvFill
  <2>2. /\ Here(c).generation = loc[c].generation /\ Here(c).owner = loc[c].peer
        /\ Here(c).next = c /\ Here(c).sequence = loc[c].sequence
    BY <1>l, <2>1 DEF Live, Here
  <2>3. RecvAccepts(c)
    BY <2>1, <2>2, Zenon DEF RecvAccepts, WithinHops, TravelInv, Prepared, Here
  <2> DEFINE received == [Here(c) EXCEPT !.owner = c, !.next = NoComponent,
                            !.epoch = loc[c].epoch, !.hops = Here(c).sourceHops + 1]
  <2> DEFINE freed == [received EXCEPT !.owner = NoComponent, !.region = "EMPTY"]
  <2>4. \/ slot' = [slot EXCEPT ![loc[c].slot] = received] /\ Goto(c, "publish")
        \/ slot' = [slot EXCEPT ![loc[c].slot] = freed] /\ Goto(c, "free")
    BY <1>7, <2>3, Zenon DEF RecvFill
  <2>5. /\ received.generation = Here(c).generation
        /\ freed.generation = Here(c).generation
    <3>1. Here(c) \in SlotControl
      BY <2>1, Zenon DEF SlotType, Here
    <3> QED
      BY <3>1, Zenon DEF SlotControl
  <2> HIDE DEF received, freed
  <2>6. /\ slot'[loc[c].slot].generation = Here(c).generation
        /\ SameGenerations
    BY <2>1, <2>4, <2>5, Zenon DEF SlotType, SameGenerations, Here
  <2>7. pc'[c].op = "RECEIVE" /\ pc'[c].at \in {"publish", "free"}
    BY <2>1, <2>4, GotoMoves, Zenon DEF Moves
  <2>8. ServedInv(c)'
    BY <2>1, <2>2, <2>6, <2>7, Zenon DEF ServedInv, Here
  <2> QED
    BY <2>1, <2>6, <2>7, <2>8, ServesOf, Zenon DEF Renews, InClaim
<1>8. CASE RecvFree(c)
  <2>1. pc[c].op = "RECEIVE" /\ pc[c].at = "free"
    BY <1>8, AtFacts, Zenon DEF RecvFree, Publish
  <2>2. SetsState(loc[c].slot, "FREE") /\ Inner(c, "undo")
    BY <1>s, <1>8, <2>1, PublishEffect, Zenon DEF RecvFree, States
  <2>3. Here(c).generation = loc[c].generation
    BY <2>1, Zenon DEF ServedInv
  <2>4. ServedInv(c)'
    BY <2>1, <2>2, <2>3, Zenon DEF ServedInv, SetsState, SameFields, Inner, Moves, Here
  <2> QED
    BY <2>1, <2>2, <2>4, SetGenerations, ServesOf, Zenon
       DEF SetsState, OnlySlot, Renews, Inner, Moves
<1>9. CASE RecvPublish(c)
  <2>1. pc[c].op = "RECEIVE" /\ pc[c].at = "publish"
    BY <1>9, AtFacts, Zenon DEF RecvPublish, Publish
  <2>2. SetsState(loc[c].slot, "OWNED") /\ Inner(c, "clear")
    BY <1>s, <1>9, <2>1, PublishEffect, Zenon DEF RecvPublish, States
  <2> QED
    BY <2>1, <2>2, SetGenerations, ServesOf, Zenon
       DEF SetsState, OnlySlot, ServedInv, Renews, Inner, Moves
<1>10. CASE RecvClear(c)
  <2>1. /\ pc[c].op = "RECEIVE" /\ pc[c].at = "clear"
        /\ SetsToken(loc[c].slot, NoToken) /\ Inner(c, "commit")
    BY <1>10, ClearAndGotoEffect, Zenon DEF RecvClear
  <2> QED
    BY <2>1, SetGenerations, ServesOf, Zenon
       DEF SetsToken, OnlySlot, ServedInv, Renews, Inner, Moves
<1>11. CASE RecvCommit(c)
  <2>1. /\ pc[c].op = "RECEIVE" /\ pc[c].at = "commit" /\ slot' = slot
        /\ pc'[c].op = "NONE"
    BY <1>11, AtFacts, Returns DEF RecvCommit, Moves
  <2> QED
    BY <2>1, ServesOf, Zenon DEF ServedInv, SameGenerations, SameSequences, Renews
<1>12. CASE RecvDrop(c)
  <2>1. /\ pc[c].op = "RECEIVE" /\ pc[c].at = "drop" /\ slot' = slot
        /\ pc'[c].op = "NONE"
    BY <1>12, AtFacts, Returns DEF RecvDrop, Moves
  <2> QED
    BY <2>1, ServesOf, Zenon DEF ServedInv, SameGenerations, SameSequences, Renews
<1> QED
  BY <1>1, <1>2, <1>3, <1>4, <1>5, <1>6, <1>7, <1>8, <1>9, <1>10, <1>11, <1>12, Zenon
     DEF RecvStep

LEMMA ReleaseServes ==
  ASSUME Inductive, Served, NEW c \in Components, ReleaseCall(c) \/ ReleaseStep(c)
  PROVE  Serves(c)
<1>0. TypeOK /\ CallInv(c) /\ ServedInv(c) /\ ControlInv(c) /\ TokenInv(c)
  BY Zenon DEF Inductive, Coherent, Served, CallInv
<1> USE <1>0, Types DEF Labels
<1>1. CASE ReleaseCall(c)
  <2>1. Idle(c) /\ Enter(c, "RELEASE", "token")
    BY <1>1, Zenon DEF ReleaseCall
  <2>2. pc[c].op = "NONE" /\ pc'[c].op = "RELEASE" /\ pc'[c].at = "token"
    BY <2>1, AtFacts, EnterMoves, Zenon DEF Idle, Kinds, Moves
  <2>3. PICK v \in views[c] :
          slot' = [slot EXCEPT ![v.slot] =
                     [@ EXCEPT !.prevRegion = slot[v.slot].region,
                               !.prevOwner = slot[v.slot].owner,
                               !.prevEpoch = slot[v.slot].epoch]]
    BY <1>1, Zenon DEF ReleaseCall
  <2>4. v.slot \in Slots
    BY DEF ViewType, View
  <2>5. SameGenerations /\ SameSequences
    BY <2>3, <2>4, JournalGenerations, Zenon
  <2> QED
    BY <2>2, <2>5, ServesOf, Zenon DEF ServedInv, Renews
<1>2. CASE ReleaseToken(c)
  <2>1. pc[c].op = "RELEASE" /\ pc[c].at = "token" /\ loc[c].slot \in Slots
    BY <1>2, AtFacts, HasSlot DEF ReleaseToken, CasToken
  <2>2. CASE Here(c).token = NoToken
    <3>1. pc'[c].op = "RELEASE" /\ pc'[c].at = "claim"
      BY <1>2, <2>1, <2>2, GotoMoves, Zenon DEF ReleaseToken, CasToken, Moves
    <3>2. SetsToken(loc[c].slot, Token("RELEASE", c, loc[c].epoch))
      BY <1>2, <2>1, <2>2, TokenUpdate, TokenTypes, LocalTypes, Zenon
         DEF ReleaseToken, CasToken, Kinds
    <3> QED
      BY <2>1, <3>1, <3>2, SetGenerations, ServesOf, Zenon
         DEF SetsToken, OnlySlot, ServedInv, Renews
  <2>3. CASE Here(c).token # NoToken
    <3>1. pc'[c].op = "NONE" /\ slot' = slot
      BY <1>2, <2>1, <2>3, Returns, Zenon DEF ReleaseToken, CasToken, Moves
    <3> QED
      BY <2>1, <3>1, ServesOf, Zenon DEF ServedInv, SameGenerations, SameSequences, Renews
  <2> QED
    BY <2>2, <2>3, Zenon
<1>3. CASE ReleaseClaim(c)
  <2>1. pc[c].op = "RELEASE" /\ pc[c].at = "claim" /\ loc[c].slot \in Slots
    BY <1>3, AtFacts, HasSlot DEF ReleaseClaim, CasState
  <2>2. SameGenerations /\ SameSequences /\ pc'[c].op = "RELEASE" /\ pc'[c].at \in {"fill", "undo"}
    BY <1>3, <2>1, CasStateEffect, SetGenerations, Zenon
       DEF ReleaseClaim, SetsState, OnlySlot, SameGenerations, SameSequences,
           Inner, Moves
  <2> QED
    BY <2>1, <2>2, ServesOf, Zenon DEF ServedInv, Renews
<1>4. CASE ReleaseUndo(c)
  <2>1. /\ pc[c].op = "RELEASE" /\ pc[c].at = "undo"
        /\ SetsToken(loc[c].slot, NoToken) /\ pc'[c].op = "NONE"
    BY <1>4, ClearAndReturnEffect, Zenon DEF ReleaseUndo, Moves
  <2> QED
    BY <2>1, SetGenerations, ServesOf, Zenon DEF SetsToken, OnlySlot, ServedInv, Renews
<1>5. CASE ReleaseFill(c)
  <2>1. /\ pc[c].op = "RELEASE" /\ pc[c].at = "fill" /\ loc[c].slot \in Slots
        /\ Goto(c, "publish") \/ Goto(c, "undo")
    BY <1>5, AtFacts, HasSlot DEF ReleaseFill
  <2>2. pc'[c].op = "RELEASE" /\ pc'[c].at \in {"publish", "undo"}
    BY <2>1, GotoMoves, Zenon DEF Moves
  <2>3. SameGenerations
    <3>1. CASE slot' = [slot EXCEPT ![loc[c].slot].state = "OWNED"]
      BY <2>1, <3>1 DEF SameGenerations, SlotType, SlotControl
    <3>2. CASE slot' = [slot EXCEPT ![loc[c].slot] =
                         [@ EXCEPT !.owner = NoComponent, !.next = NoComponent,
                                   !.region = "EMPTY"]]
      BY <2>1, <3>2 DEF SameGenerations, SlotType, SlotControl
    <3> QED
      BY <1>5, <3>1, <3>2, Zenon DEF ReleaseFill
  <2> QED
    BY <2>1, <2>2, <2>3, ServesOf, Zenon DEF ServedInv, Renews, InClaim
<1>6. CASE ReleasePublish(c)
  <2>1. pc[c].op = "RELEASE" /\ pc[c].at = "publish"
    BY <1>6, AtFacts, Zenon DEF ReleasePublish, Publish
  <2>2. SetsState(loc[c].slot, "FREE") /\ Inner(c, "clear")
    BY <1>6, <2>1, HasSlot, PublishEffect, Zenon DEF ReleasePublish, States
  <2> QED
    BY <2>1, <2>2, SetGenerations, ServesOf, Zenon
       DEF SetsState, OnlySlot, ServedInv, Renews, Inner, Moves, Here
<1>7. CASE ReleaseClear(c)
  <2>1. /\ pc[c].op = "RELEASE" /\ pc[c].at = "clear"
        /\ SetsToken(loc[c].slot, NoToken) /\ pc'[c].op = "NONE"
    BY <1>7, ClearAndReturnEffect, Zenon DEF ReleaseClear, Moves
  <2> QED
    BY <2>1, SetGenerations, ServesOf, Zenon DEF SetsToken, OnlySlot, ServedInv, Renews
<1> QED
  BY <1>1, <1>2, <1>3, <1>4, <1>5, <1>6, <1>7, Zenon DEF ReleaseStep

LEMMA StepServes ==
  ASSUME Inductive, Served, ~Deadlines, NEW c \in Components, Call(c) \/ Step(c)
  PROVE  Serves(c)
BY AllocServes, SendServes, RollbackServes, ReceiveServes, ReleaseServes, Zenon DEF Call, Step

(***************************************************************************)
(* A step of x keeps what the others rely on.                              *)
(***************************************************************************)
\* Only the allocating component takes a free slot.
LEMMA FreeStep ==
  ASSUME Inductive, NEW x \in Components, Travels(x), NEW s \in Slots,
         slot[s].state = "FREE"
  PROVE  \/ slot'[s].state = "FREE"
         \/ /\ x \in Allocators
            /\ pc'[x].op = "ALLOCATE" /\ pc'[x].at = "fill"
            /\ loc'[x].slot = s
<1>1. CASE Rests(x)
  BY <1>1, Zenon DEF Rests, Stays
<1>2. CASE Works(x) /\ loc[x].slot # s
  BY <1>2, Zenon DEF Works
<1>3. CASE Claims(x) /\ loc[x].slot = s
  <2>1. TravelInv(x)
    BY Zenon DEF Inductive, Journeys
  <2> QED
    BY <1>3, <2>1, Zenon DEF Claims, Works, TravelInv, Here
<1>4. CASE (Fills(x) \/ Aborts(x) \/ Ends(x)) /\ loc[x].slot = s
  <2>1. InClaim(x) /\ HoldsToken(x)
    BY <1>4, Zenon DEF Fills, Aborts, Ends, InClaim, HoldsToken
  <2> QED
    BY <1>4, <2>1, OwnToken, Zenon DEF Here
<1> QED
  BY <1>1, <1>2, <1>3, <1>4, Zenon DEF Travels, Claims, Fills, Aborts, Ends

LEMMA OthersServed ==
  ASSUME Inductive, Served, OneAllocator, NEW x \in Components, Good(x), Travels(x),
         Serves(x), NEW c \in Components, c # x
  PROVE  ServedInv(c)'
<1>1. /\ TypeOK /\ CallInv(c) /\ ServedInv(c) /\ TravelInv(c)
      /\ pc'[c] = pc[c] /\ loc'[c] = loc[c]
  BY Zenon DEF Inductive, Coherent, Journeys, Served, Good, Frame
<1>2. CASE pc[c].at \in {"idle", "scan"}
  BY <1>1, <1>2, Zenon DEF ServedInv
<1>3. CASE pc[c].at \notin {"idle", "scan"}
  <2>1. PICK s \in Slots : s = loc[c].slot /\ s = loc'[c].slot
    BY <1>1, <1>3, HasSlot, Zenon
  <2>2. SameFields(s) /\ slot'[s].state = slot[s].state <=> Kept(s)
    BY Zenon DEF Kept
  <2>3. HoldsToken(c) => Kept(s)
    BY <1>1, <2>1, HereKept, Zenon
  <2>4. pc[c].op = "ALLOCATE" /\ pc[c].at \in {"token", "claim", "undo"} =>
          slot'[s].state = "FREE"
    BY <1>1, <2>1, FreeStep DEF ServedInv, TravelInv, OneAllocator, Here
  <2>5. pc[c].op = "RELEASE" /\ pc[c].at = "clear" => slot'[s].state = "FREE"
    BY <1>1, <2>1, <2>3, Zenon DEF ServedInv, HoldsToken, Kept, Here
  <2>6. pc[c].op = "ROLLBACK" /\ pc[c].at = "lost" =>
          slot'[s].state = "CLAIMING" /\ slot'[s].token.comp = c
    BY <1>1, <2>1, TokenKept DEF ServedInv, Good, Kept, Here
  <2>7. /\ pc[c].op = "RECEIVE" /\ pc[c].at \in {"free", "undo"} =>
             slot'[s].generation = loc[c].generation
        /\ pc[c].op = "RECEIVE" /\ pc[c].at = "undo" => slot'[s].state = "FREE"
    BY <1>1, <2>1, <2>3, Zenon DEF ServedInv, HoldsToken, Kept, SameFields, Here
  <2>8. ASSUME pc[c].op = "RECEIVE", pc[c].at = "drop" PROVE GivenUp(c)'
    <3>1. slot[s].generation \in Nat /\ loc[c].generation \in Nat
      BY <1>1, Types, FieldTypes, LocalTypes, Zenon
    <3>2. \/ slot'[s].generation = slot[s].generation
          \/ slot'[s].generation = slot[s].generation + 1
      BY Zenon DEF Serves, SameGenerations
    <3>3. GivenUp(c)
      BY <1>1, <2>8, Zenon DEF ServedInv
    <3>4. CASE slot'[s].generation > loc[c].generation
      BY <1>1, <2>1, <3>4, Zenon DEF GivenUp, Here
    <3>5. CASE slot'[s].generation = slot[s].generation /\ slot[s].generation = loc[c].generation
      <4>1. CASE slot[s].state = "FREE"
        BY <1>1, <2>1, <3>5, <4>1, FreeStep DEF GivenUp, Here
      <4>2. CASE slot[s].state # "FREE"
        <5>1. PICK e \in Components : /\ pc[e].op = "ALLOCATE" /\ pc[e].at = "fill"
                                      /\ loc[e].slot = s
          BY <2>1, <3>1, <3>3, <3>5, <4>2 DEF GivenUp, Here
        <5>2. e # x
          BY <3>1, <3>5, <5>1 DEF Serves, Renews
        <5>3. pc'[e] = pc[e] /\ loc'[e] = loc[e]
          BY <5>2, Zenon DEF Good, Frame
        <5> QED
          BY <1>1, <2>1, <3>5, <5>1, <5>3, Zenon DEF GivenUp, Here
      <4> QED
        BY <4>1, <4>2, Zenon
    <3> QED
      BY <2>1, <3>1, <3>2, <3>3, <3>4, <3>5 DEF GivenUp, Here
  <2> QED
    BY <1>1, <2>1, <2>4, <2>5, <2>6, <2>7, <2>8, Zenon DEF ServedInv, Here
<1> QED
  BY <1>2, <1>3, Zenon

(***************************************************************************)
(* The transfers.                                                          *)
(***************************************************************************)
SameTransfer(s) ==
  /\ slot'[s].owner = slot[s].owner
  /\ slot'[s].next = slot[s].next
  /\ slot'[s].generation = slot[s].generation
  /\ slot'[s].sequence = slot[s].sequence

\* A descriptor whose slot is in its transfer stays in the ring.
LEMMA PostStays ==
  ASSUME Inductive, Served, NEW x \in Components, Good(x), NEW s \in Slots,
         slot[s].state = "TRANSFER", slot'[s].state = "TRANSFER",
         SameTransfer(s), Posted(s)
  PROVE  Posted(s)'
<1>1. JourneyInv(s)
  BY Zenon DEF Inductive, Journeys
<1>2. PICK l \in Links : l = <<slot[s].owner, slot[s].next>>
  BY <1>1, Zenon DEF JourneyInv, Prepared
<1>3. PICK i \in DOMAIN ring[l] : /\ ring[l][i].slot = s
                                  /\ ring[l][i].generation = slot[s].generation
                                  /\ ring[l][i].sequence = slot[s].sequence
  BY <1>2, Zenon DEF Posted
<1>4. ring[l] \in Seq(Message)
  BY Types, Zenon DEF Inductive, Coherent, RingType
<1>5. l = <<slot'[s].owner, slot'[s].next>>
  BY <1>2, Zenon DEF SameTransfer
<1>6. ASSUME NEW j \in DOMAIN ring'[l], ring'[l][j] = ring[l][i]
      PROVE  Posted(s)'
  <2>1. /\ ring'[l][j].slot = s
        /\ ring'[l][j].generation = slot'[s].generation
        /\ ring'[l][j].sequence = slot'[s].sequence
    BY <1>3, <1>6, Zenon DEF SameTransfer
  <2> QED
    BY <1>5, <2>1, Zenon DEF Posted
<1>7. CASE ring'[l] = ring[l]
  BY <1>6, <1>7, Zenon
<1>8. CASE \E m \in Message : ring'[l] = Append(ring[l], m)
  <2>1. PICK m \in Message : ring'[l] = Append(ring[l], m)
    BY <1>8, Zenon
  <2>2. i \in DOMAIN ring'[l] /\ ring'[l][i] = ring[l][i]
    BY <1>4, <2>1
  <2> QED
    BY <1>6, <2>2, Zenon
<1>9. CASE l[2] = x /\ Done(l) /\ ring'[l] = Tail(ring[l])
  <2>1. CASE i = 1
    <3>1. CallInv(x) /\ ServedInv(x) /\ pc[x].op = "RECEIVE" /\ loc[x].peer = l[1]
      BY <1>9, Zenon DEF Inductive, Coherent, Served, Done
    <3>2. l = <<loc[x].peer, x>>
      BY <1>9, <3>1, LinkPair, Zenon
    <3>3. loc[x].slot = s /\ loc[x].generation = slot[s].generation
      BY <1>3, <2>1, <3>1, <3>2, ReceiveFacts, Zenon DEF Receives
    <3>4. pc[x].at \in {"publish", "free", "clear", "undo", "commit", "drop"}
      BY <1>9, Zenon DEF Done
    <3>5. CASE pc[x].at \in {"publish", "free"}
      BY <3>1, <3>3, <3>5, HasToken, Zenon DEF HoldsToken, InClaim, Here
    <3>6. CASE pc[x].at \in {"clear", "commit"}
      BY <3>1, <3>3, <3>6, ReceiveFacts, Zenon DEF Here
    <3>7. CASE pc[x].at = "undo"
      BY <3>1, <3>3, <3>7, Zenon DEF ServedInv, Here
    <3>8. CASE pc[x].at = "drop"
      <4>1. GivenUp(x) /\ slot[s].generation \in Nat
        BY <3>1, <3>8, Types, FieldTypes, Zenon DEF ServedInv, Inductive, Coherent
      <4>2. PICK e \in Components : /\ pc[e].op = "ALLOCATE" /\ pc[e].at = "fill"
                                    /\ loc[e].slot = s
        BY <3>3, <4>1 DEF GivenUp, Here
      <4> QED
        BY <4>2, OwnToken, Zenon DEF HoldsToken, InClaim, Here
    <3> QED
      BY <3>4, <3>5, <3>6, <3>7, <3>8, Zenon
  <2>2. CASE i # 1
    <3>1. i - 1 \in DOMAIN Tail(ring[l]) /\ Tail(ring[l])[i - 1] = ring[l][i]
      BY <1>4, <2>2
    <3> QED
      BY <1>6, <1>9, <3>1, Zenon
  <2> QED
    BY <2>1, <2>2, Zenon
<1> QED
  BY <1>7, <1>8, <1>9, Zenon DEF Good, RingStep

LEMMA TransfersStep ==
  ASSUME Inductive, Served, NoStrandedTransfer, NEW x \in Components, Good(x),
         Travels(x), Serves(x)
  PROVE  NoStrandedTransfer'
<1> SUFFICES ASSUME NEW s \in Slots, slot'[s].state = "TRANSFER"
             PROVE  Sending(slot[s].owner, s)' \/ Posted(s)'
  BY Zenon DEF NoStrandedTransfer, NotStranded, Sending, Posted
<1>1. CASE slot[s].state = "TRANSFER"
  <2>1. PICK c \in Components : c = slot[s].owner
    <3>1. JourneyInv(s)
      BY Zenon DEF Inductive, Journeys
    <3> QED
      BY <1>1, <3>1, ProtocolAssumption, Zenon DEF JourneyInv, Prepared
  <2>2. SameTransfer(s)
    <3>1. CASE Rests(x)
      BY <3>1, Zenon DEF Rests, Stays, SameRest, Serves, Renews, InClaim,
         SameGenerations, SameSequences, SameTransfer
    <3>2. CASE Works(x) /\ loc[x].slot # s
      BY <3>2, Zenon DEF Works, SameTransfer
    <3>3. CASE Works(x) /\ loc[x].slot = s
      <4>1. ~InClaim(x)
        BY <1>1, <3>3, OwnToken, Zenon DEF Works, Here
      <4>2. Rests(x)
        BY <3>3, <4>1, Zenon DEF Travels, Claims, Fills, Aborts, Ends, InClaim
      <4> QED
        BY <3>1, <4>2, Zenon
    <3> QED
      BY <3>1, <3>2, <3>3, Zenon DEF Travels, Claims, Fills, Aborts, Ends
  <2>3. Sending(c, s) \/ Posted(s)
    BY <1>1, <2>1, Zenon DEF NoStrandedTransfer, NotStranded, Sending, Posted
  <2>4. CASE Posted(s)
    BY <1>1, <2>2, <2>4, PostStays, Zenon
  <2>5. CASE Sending(c, s) /\ c # x
    <3>1. Sending(c, s)'
      BY <2>5, Zenon DEF Sending, Good, Frame
    <3> QED
      BY <2>1, <2>2, <3>1, Zenon DEF SameTransfer
  <2>6. CASE Sending(c, s) /\ c = x
    BY <1>1, <2>1, <2>2, <2>6, Zenon DEF Serves, SameTransfer
  <2> QED
    BY <2>3, <2>4, <2>5, <2>6, Zenon
<1>2. CASE slot[s].state # "TRANSFER"
  <2>1. ~Rests(x)
    BY <1>2, Zenon DEF Rests, Stays
  <2>2. Works(x) /\ loc[x].slot = s
    BY <1>2, <2>1, Zenon DEF Travels, Works, Claims, Fills, Aborts, Ends
  <2>3. ~Claims(x) /\ ~Fills(x)
    BY <2>2, Zenon DEF Claims, Fills
  <2>4. ~Aborts(x)
    BY <2>2, Zenon DEF Aborts, Serves
  <2>5. Ends(x)
    BY <2>1, <2>3, <2>4, Zenon DEF Travels
  <2>6. slot'[s].owner = x /\ pc[x].op = "SEND" /\ loc'[x].slot = s /\ pc'[x].op = "SEND"
    BY <2>2, <2>5, Zenon DEF Ends, SameRest, Works, Here
  <2> QED
    BY <2>6, Zenon DEF Sending
<1> QED
  BY <1>1, <1>2, Zenon

(***************************************************************************)
(* The guarantee is enough for the others.                                 *)
(***************************************************************************)
\* A live descriptor's slot waits for its receiver.
LEMMA LiveKept ==
  ASSUME TypeOK, NEW x \in Components, Good(x), NEW l \in Links, l[2] # x,
         CallInv(l[2]), NEW m \in Message, Live(l, m)
  PROVE  Kept(m.slot) /\ Live(l, m)'
<1> USE Types DEF Good
<1>1. m.slot \in Slots /\ l[1] \in Components /\ l[2] \in Components
  BY LinkPair, Zenon DEF Message
<1>2. ~Sending(l[1], m.slot)'
  <2>1. CASE l[1] = x
    BY <1>1, <2>1, Zenon DEF Live, RingStep
  <2>2. CASE l[1] # x
    BY <1>1, <2>2, Zenon DEF Live, Sending, Frame
  <2> QED
    BY <2>1, <2>2, Zenon
<1>3. CASE slot[m.slot].state = "TRANSFER"
  <2>1. Kept(m.slot)
    BY <1>1, <1>3, Zenon DEF Live, FieldStep, Kept
  <2> QED
    BY <1>2, <1>3, <2>1, Zenon DEF Live, Kept, SameFields
<1>4. CASE slot[m.slot].state = "CLAIMING" /\ Claiming(l, m.slot)
  <2>1. pc[l[2]].at = "fill" /\ loc[l[2]].slot = m.slot
    BY <1>4 DEF Claiming, At
  <2>2. slot[m.slot].token.comp = l[2]
    BY <1>1, <2>1, HasToken, Zenon DEF HoldsToken, Here
  <2>3. Kept(m.slot)
    BY <1>1, <2>2, TokenKept, Zenon
  <2>4. Claiming(l, m.slot)'
    BY <1>1, <1>4, Zenon DEF Claiming, At, Frame
  <2> QED
    BY <1>2, <1>4, <2>3, <2>4, Zenon DEF Live, Kept, SameFields
<1> QED
  BY <1>3, <1>4, Zenon DEF Live

LEMMA MineKept ==
  ASSUME NEW x \in Components, Frame(x), NEW c \in Components, c # x,
         Kept(loc[c].slot)
  PROVE  /\ Mine(c) => Mine(c)'
         /\ Transferring(c) => Transferring(c)'
         /\ Here(c)'.state = Here(c).state
<1>1. Mine(c) => Mine(c)'
  BY SameEpoch, Zenon DEF Mine, Here, Kept, SameFields, Frame
<1> QED
  BY <1>1, Zenon DEF Transferring, Here, Kept, SameFields, Frame

LEMMA ReceiverKept ==
  ASSUME TypeOK, NEW x \in Components, Good(x), NEW c \in Components, c # x,
         CallInv(c), pc[c].op = "RECEIVE"
  PROVE  RecvInv(c)'
<1> USE Types
<1>1. PICK l \in Links : /\ l = <<loc[c].peer, c>> /\ l[1] = loc[c].peer /\ l[2] = c
                         /\ ring[l] # <<>>
  BY ReceiveFacts, Zenon DEF Receives
<1>2. ring[l] \in Seq(Message)
  BY Zenon DEF RingType
<1>3. pc'[c] = pc[c] /\ loc'[c] = loc[c] /\ life' = life
  BY Zenon DEF Good, Frame
<1>4. loc[c].slot \in Slots
  BY HasSlot, Zenon DEF CallInv, ControlInv, Steps
<1>5. ring'[l] # <<>> /\ ring'[l][1] = ring[l][1]
  <2>1. ring'[l] = ring[l] \/ \E m \in Message : ring'[l] = Append(ring[l], m)
    BY <1>1, Zenon DEF Good, RingStep
  <2>2. ASSUME NEW m \in Message, NEW q \in Seq(Message), q # <<>>
        PROVE  Append(q, m) # <<>> /\ Append(q, m)[1] = q[1]
    BY <2>2
  <2> QED
    BY <1>1, <1>2, <2>1, <2>2, Zenon
<1>6. Receives(c)'
  BY <1>1, <1>3, <1>5, ReceiveFacts DEF Receives
<1>7. PICK m \in Message : m = ring[l][1]
  BY <1>1, <1>2
<1>8. m.slot = loc[c].slot
  BY <1>1, <1>7, ReceiveFacts, Zenon DEF Receives
<1>9. ASSUME pc[c].at \in {"check", "token", "claim", "fill"}
      PROVE  Kept(loc[c].slot) /\ Awaits(c)'
  <2>1. Live(l, m)
    BY <1>1, <1>7, <1>9, Zenon DEF CallInv, RecvInv
  <2>2. Kept(m.slot) /\ Live(l, m)'
    BY <1>1, <2>1, LiveKept, Zenon
  <2>3. ~Sending(loc[c].peer, loc[c].slot)'
    BY <1>1, <1>3, <1>8, <2>2, Zenon DEF Live, Sending
  <2>4. Kept(loc[c].slot)
    BY <1>8, <2>2, Zenon
  <2>5. Awaits(c)
    BY <1>9, ReceiveFacts, Zenon
  <2> QED
    BY <1>3, <2>3, <2>4, <2>5, Zenon DEF Awaits, Kept, SameFields, Here
<1>10. ASSUME pc[c].at \in {"publish", "clear", "commit"}
       PROVE  Kept(loc[c].slot)
  BY <1>4, <1>10, ReceiveFacts, HereKept, Zenon DEF HoldsToken
<1>11. pc[c].at = "fill" => At(c, "RECEIVE", "fill")' /\ Here(c).state = "CLAIMING"
  BY <1>3, HasToken, Zenon DEF At, HoldsToken, InClaim, PcType, PCs
<1>12. /\ pc'[c].at # "check" => loc'[c].epoch = RegisteredEpoch(c)'
       /\ pc'[c].at \in {"check", "token", "claim", "fill"} => Awaits(c)'
       /\ pc'[c].at \in {"check", "token", "claim"} => Here(c)'.state = "TRANSFER"
       /\ pc'[c].at = "fill" => Here(c)'.state = "CLAIMING"
       /\ pc'[c].at \in {"publish", "clear", "commit"} => Mine(c)'
       /\ pc'[c].at \in {"clear", "commit"} => Here(c)'.state = "OWNED"
  BY <1>3, <1>9, <1>10, <1>11, ReceiveFacts, MineKept, SameEpoch, Zenon DEF Good
<1> QED
  BY <1>3, <1>6, <1>11, <1>12, ReceiveInv, Zenon

LEMMA Stable ==
  ASSUME TypeOK, NEW x \in Components, Good(x), NEW c \in Components, c # x,
         CallInv(c)
  PROVE  CallInv(c)'
<1> USE Types
<1>1. /\ pc'[c] = pc[c] /\ loc'[c] = loc[c] /\ views'[c] = views[c] /\ life' = life
      /\ Frame(x)
  BY Zenon DEF Good, Frame
<1>2. ControlInv(c)'
  BY <1>1, Zenon DEF ControlInv, CallInv
<1>3. HoldsToken(c) => loc[c].slot \in Slots
  BY HasSlot, Zenon DEF HoldsToken
<1>4. TokenInv(c)'
  <2>1. ASSUME HoldsToken(c)
        PROVE  Here(c)'.token = Here(c).token /\ Here(c)'.state = Here(c).state
    BY <1>1, <1>3, <2>1, HasToken, TokenKept DEF Good, Here, Kept
  <2> QED
    BY <1>1, <2>1, Zenon DEF TokenInv, CallInv, HoldsToken, InClaim
<1>5. ViewInv(c)'
  <2> SUFFICES ASSUME NEW v \in views[c], v.slot # loc[c].slot
               PROVE  BufferOwned(c, v)'
    BY <1>1, Zenon DEF ViewInv, CallInv
  <2>1. v.slot \in Slots /\ BufferOwned(c, v)
    BY DEF ViewInv, CallInv, ViewType, View
  <2>2. Kept(v.slot)
    BY <2>1, OwnedKept, Zenon DEF BufferOwned, Good
  <2> QED
    BY <1>1, <2>1, <2>2, SameEpoch, Zenon DEF BufferOwned, Kept, SameFields
<1>6. CASE pc[c].op = "ALLOCATE"
  <2>1. pc[c].at \in {"publish", "clear"} => Kept(loc[c].slot)
    BY <1>3, HereKept, Zenon DEF HoldsToken
  <2>2. AllocInv(c)'
    BY <1>1, <1>6, <2>1, MineKept, SameEpoch, Zenon DEF AllocInv, CallInv
  <2> QED
    BY <1>1, <1>2, <1>4, <1>5, <1>6, <2>2, CallInvOf, Zenon
<1>7. CASE pc[c].op = "SEND"
  <2>1. loc[c].slot \in Slots /\ Mine(c) /\ pc[c].at \in Steps("SEND")
    BY <1>7, HasSlot, Zenon DEF CallInv, ControlInv, Steps, SendInv
  <2>2. Kept(loc[c].slot)
    BY <1>7, <2>1, HereKept, Zenon DEF HoldsToken, Steps, CallInv, SendInv, Sending
  <2>3. SendInv(c)'
    BY <1>1, <1>7, <2>1, <2>2, MineKept, Zenon DEF SendInv, CallInv
  <2> QED
    BY <1>1, <1>2, <1>4, <1>5, <1>7, <2>3, CallInvOf, Zenon
<1>8. CASE pc[c].op = "ROLLBACK"
  <2>1. loc[c].slot \in Slots /\ pc[c].at \in Steps("ROLLBACK")
    BY <1>8, HasSlot, Zenon DEF CallInv, ControlInv, Steps
  <2>2. pc[c].at \notin {"undo", "lost"} => Kept(loc[c].slot)
    BY <1>8, <2>1, HereKept, Zenon DEF HoldsToken, Steps, CallInv, RollbackInv, Sending
  <2>3. RollbackInv(c)'
    BY <1>1, <1>8, <2>1, <2>2, MineKept, Zenon DEF RollbackInv, CallInv
  <2> QED
    BY <1>1, <1>2, <1>4, <1>5, <1>8, <2>3, CallInvOf, Zenon
<1>9. CASE pc[c].op = "RECEIVE"
  BY <1>1, <1>2, <1>4, <1>5, <1>9, ReceiverKept, CallInvOf, Zenon
<1>10. CASE pc[c].op = "RELEASE"
  <2>1. loc[c].slot \in Slots /\ pc[c].at \in Steps("RELEASE")
    BY <1>10, HasSlot, Zenon DEF CallInv, ControlInv, Steps
  <2>2. Kept(loc[c].slot)
    BY <1>10, <2>1, HereKept, Zenon DEF HoldsToken, Steps, CallInv, ReleaseInv
  <2>3. ReleaseInv(c)'
    BY <1>1, <1>10, <2>1, <2>2, MineKept, Zenon DEF ReleaseInv, CallInv
  <2> QED
    BY <1>1, <1>2, <1>4, <1>5, <1>10, <2>3, CallInvOf, Zenon
<1>11. CASE pc[c].op = "NONE"
  BY <1>1, <1>2, <1>4, <1>5, <1>11, CallInvOf, Zenon
<1>12. pc[c].op \in {"ALLOCATE", "SEND", "ROLLBACK", "RECEIVE", "RELEASE", "NONE"}
  BY Zenon DEF PcType, PCs, Kinds
<1> QED
  BY <1>6, <1>7, <1>8, <1>9, <1>10, <1>11, <1>12, Zenon

LEMMA TokensStable ==
  ASSUME TypeOK, NoLeakedToken, NEW x \in Components, Good(x)
  PROVE  NoLeakedToken'
<1> SUFFICES ASSUME NEW s \in Slots, slot'[s].token # NoToken,
                    NEW d, d = slot'[s].token.comp
             PROVE  \/ HoldsToken(d)' /\ loc'[d].slot = s
                    \/ slot'[s].state = "CLAIMING" /\ slot'[s].token.kind = "ROLLBACK"
  BY Zenon DEF NoLeakedToken
<1>1. CASE d = x
  BY <1>1, Zenon DEF Good, TokenStep
<1>2. CASE d # x
  <2>1. slot'[s].token \in Tokens
    BY Types, Zenon DEF Good, TypeOK, SlotControl
  <2>2. d \in Components
    BY <2>1, Zenon DEF Tokens
  <2>3. slot'[s].token = slot[s].token
    BY <1>2, Zenon DEF Good, TokenStep
  <2>4. Kept(s)
    BY <1>2, <2>2, <2>3, TokenKept, Zenon DEF Good
  <2>5. \/ HoldsToken(d) /\ loc[d].slot = s
        \/ slot[s].state = "CLAIMING" /\ slot[s].token.kind = "ROLLBACK"
    BY <2>3, Zenon DEF NoLeakedToken
  <2> QED
    BY <1>2, <2>2, <2>3, <2>4, <2>5, Zenon DEF Good, Frame, HoldsToken, Kept
<1> QED
  BY <1>1, <1>2, Zenon

\* What it means that the receiver of a link is filling its claim on a slot.
LEMMA ClaimingFacts ==
  ASSUME NEW l, NEW s, Claiming(l, s)
  PROVE  /\ pc[l[2]].op = "RECEIVE" /\ pc[l[2]].at = "fill"
         /\ loc[l[2]].slot = s /\ loc[l[2]].peer = l[1]
<1>1. pc[l[2]] = [op |-> "RECEIVE", at |-> "fill"]
  BY Zenon DEF Claiming, At
<1> QED
  BY <1>1 DEF Claiming

\* A live descriptor stays live, or is the head that the receiver is done with.
LEMMA LiveStep ==
  ASSUME TypeOK, RingInv, \A c \in Components : CallInv(c),
         NEW x \in Components, Good(x), NEW l \in Links,
         NEW i \in 1..Len(ring[l]), NEW m \in Message, m = ring[l][i], Live(l, m)
  PROVE  Live(l, m)' \/ (i = 1 /\ Done(l)')
<1> USE Types
<1>1. m.slot \in Slots /\ l[1] \in Components /\ l[2] \in Components /\ l = <<l[1], l[2]>>
  BY LinkPair, Zenon DEF Message
<1>2. CASE l[2] # x
  BY <1>1, <1>2, LiveKept, Zenon
<1>3. CASE l[2] = x /\ slot[m.slot].state = "TRANSFER"
  <2>1. ~Sending(l[1], m.slot)'
    <3>1. CASE l[1] = x
      BY <1>1, <1>3, <3>1, Zenon DEF Good, Live, RingStep
    <3>2. CASE l[1] # x
      BY <1>1, <3>2, Zenon DEF Good, Live, Sending, Frame
    <3> QED
      BY <3>1, <3>2, Zenon
  <2>2. \/ Kept(m.slot)
        \/ /\ SameFields(m.slot)
           /\ slot'[m.slot].state = "CLAIMING"
           /\ Claiming(<<slot[m.slot].owner, x>>, m.slot)'
    BY <1>1, <1>3, Zenon DEF Good, Live, FieldStep, Kept
  <2>3. SameFields(m.slot) => slot'[m.slot].owner = l[1]
    BY Zenon DEF SameFields, Live
  <2> QED
    BY <1>1, <1>3, <2>1, <2>2, <2>3, Zenon DEF Live, Kept, SameFields, Claiming
<1>4. CASE l[2] = x /\ slot[m.slot].state = "CLAIMING" /\ Claiming(l, m.slot)
  <2>1. \/ Done(l)'
        \/ SameFields(m.slot) /\ slot'[m.slot].state = "CLAIMING" /\ Claiming(l, m.slot)'
    BY <1>1, <1>4, Zenon DEF Good, RingStep
  <2>2. Claiming(l, m.slot)' => ~Sending(l[1], m.slot)'
    <3>1. CASE l[1] = x
      BY <1>4, <3>1 DEF Claiming, Sending, At
    <3>2. CASE l[1] # x
      BY <1>1, <3>2, Zenon DEF Good, Live, Sending, Frame
    <3> QED
      BY <3>1, <3>2, Zenon
  <2>3. i = 1
    <3>1. pc[x].op = "RECEIVE" /\ pc[x].at = "fill" /\ loc[x].slot = m.slot
          /\ loc[x].peer = l[1]
      BY <1>4, ClaimingFacts, Zenon
    <3>2. Receives(x) /\ Awaits(x)
      BY <3>1, ReceiveFacts, Zenon
    <3>3. ring[l] \in Seq(Message) /\ ring[l] # <<>>
      BY <1>1, <1>4, <3>1, <3>2, Zenon DEF Receives, RingType
    <3>4. PICK h \in Message : h = ring[l][1] /\ 1 \in 1..Len(ring[l])
      BY <3>3
    <3>5. /\ h.slot = m.slot /\ h.generation = m.generation
          /\ h.sequence = m.sequence
      <4>1. slot[m.slot].generation = m.generation /\ slot[m.slot].sequence = m.sequence
        BY Zenon DEF Live
      <4>2. <<loc[x].peer, x>> = l
        BY <1>1, <1>4, <3>1, Zenon
      <4>3. Head(ring[l]) = h
        BY <3>3, <3>4
      <4>4. /\ Head(ring[l]).slot = loc[x].slot
            /\ Head(ring[l]).generation = Here(x).generation
            /\ Head(ring[l]).sequence = Here(x).sequence
        BY <3>2, <4>2 DEF Receives, Awaits
      <4> QED
        BY <3>1, <4>1, <4>3, <4>4, Zenon DEF Here
    <3>6. h.source = m.source /\ h.destination = m.destination
      <4>1. \A j \in 1..Len(ring[l]) :
               ring[l][j].source = l[1] /\ ring[l][j].destination = l[2]
        BY Zenon DEF RingInv
      <4> QED
        BY <3>4, <4>1, Zenon
    <3>7. h = m
      <4>1. ASSUME NEW a \in Message
            PROVE  a = [slot |-> a.slot, generation |-> a.generation,
                        source |-> a.source, destination |-> a.destination,
                        sequence |-> a.sequence]
        BY Zenon DEF Message
      <4> QED
        BY <3>5, <3>6, <4>1, Zenon
    <3>8. ring[l][i] = ring[l][1] => i = 1
      BY <3>4, Zenon DEF RingInv
    <3> QED
      BY <3>4, <3>7, <3>8, Zenon
  <2> QED
    BY <1>4, <2>1, <2>2, <2>3, Zenon DEF Live, SameFields
<1> QED
  BY <1>2, <1>3, <1>4, Zenon DEF Live

LEMMA RingStable ==
  ASSUME TypeOK, RingInv, \A c \in Components : CallInv(c),
         NEW x \in Components, Good(x)
  PROVE  RingInv'
<1> USE Types
<1> SUFFICES ASSUME NEW l \in Links
             PROVE  \A i \in 1..Len(ring'[l]) :
                      /\ ring'[l][i].source = l[1]
                      /\ ring'[l][i].destination = l[2]
                      /\ Live(l, ring[l][i])' \/ (i = 1 /\ Done(l)')
                      /\ \A j \in 1..Len(ring'[l]) : ring'[l][i] = ring'[l][j] => i = j
  BY Zenon DEF RingInv
<1>1. ring[l] \in Seq(Message) /\ l[1] \in Components /\ l[2] \in Components
  BY LinkPair, Zenon DEF RingType
<1>2. ASSUME NEW i \in 1..Len(ring[l]), NEW m \in Message, m = ring[l][i]
      PROVE  \/ Live(l, m)'
             \/ i = 1 /\ Done(l)'
             \/ i = 1 /\ Done(l)
  <2>1. Live(l, m) \/ (i = 1 /\ Done(l))
    BY <1>2, Zenon DEF RingInv
  <2> QED
    BY <1>2, <2>1, LiveStep, Zenon
<1>3. l[2] # x => (Done(l) => Done(l)')
  BY <1>1, Zenon DEF Done, Good, Frame
<1>4. CASE ring'[l] = ring[l] /\ (l[2] = x /\ Done(l) => Done(l)')
  <2> SUFFICES ASSUME NEW i \in 1..Len(ring[l])
               PROVE  Live(l, ring[l][i])' \/ (i = 1 /\ Done(l)')
    BY <1>4 DEF RingInv
  <2>1. PICK m \in Message : m = ring[l][i]
    BY <1>1
  <2>2. Live(l, m)' \/ (i = 1 /\ Done(l)')
    BY <1>2, <1>3, <1>4, <2>1, Zenon
  <2> QED
    BY <1>4, <2>1, <2>2, Zenon
<1>5. CASE /\ l[2] = x /\ Done(l) /\ pc'[x].op = "NONE"
           /\ ring[l] # <<>> /\ ring'[l] = Tail(ring[l])
  <2>1. /\ Len(ring'[l]) = Len(ring[l]) - 1
        /\ \A i \in 1..Len(ring'[l]) : /\ ring'[l][i] = ring[l][i + 1]
                                       /\ i + 1 \in 1..Len(ring[l])
                                       /\ i + 1 # 1
    BY <1>1, <1>5
  <2>a. \A i \in 1..Len(ring[l]) :
          /\ ring[l][i].source = l[1] /\ ring[l][i].destination = l[2]
          /\ \A j \in 1..Len(ring[l]) : ring[l][i] = ring[l][j] => i = j
    BY Zenon DEF RingInv
  <2>b. ASSUME NEW i \in 1..Len(ring'[l])
        PROVE  /\ ring'[l][i].source = l[1] /\ ring'[l][i].destination = l[2]
               /\ \A j \in 1..Len(ring'[l]) : ring'[l][i] = ring'[l][j] => i = j
    <3>1. ring'[l][i].source = l[1] /\ ring'[l][i].destination = l[2]
      BY <2>1, <2>a
    <3>2. ASSUME NEW j \in 1..Len(ring'[l]), ring'[l][i] = ring'[l][j]
          PROVE  i = j
      <4>1. i + 1 = j + 1
        BY <2>1, <2>a, <3>2
      <4> QED
        BY <4>1
    <3> QED
      BY <3>1, <3>2, Zenon
  <2> SUFFICES ASSUME NEW i \in 1..Len(ring'[l])
               PROVE  Live(l, ring[l][i])'
    BY <2>b, Zenon
  <2>2. PICK m \in Message : m = ring[l][i + 1]
    BY <1>1, <2>1
  <2>3. Live(l, m)'
    <3>1. i + 1 \in 1..Len(ring[l]) /\ i + 1 # 1
      BY <2>1, Zenon
    <3> QED
      BY <1>2, <2>2, <3>1, Zenon
  <2> QED
    BY <2>1, <2>2, <2>3, Zenon
<1>6. CASE /\ l[1] = x /\ pc[x].op = "SEND"
           /\ \E m \in Message :
                /\ m.source = l[1] /\ m.destination = l[2]
                /\ Live(l, m)'
                /\ \A i \in 1..Len(ring[l]) : ring[l][i] # m
                /\ ring'[l] = Append(ring[l], m)
  <2>1. PICK n \in Message :
          /\ n.source = l[1] /\ n.destination = l[2]
          /\ Live(l, n)'
          /\ \A i \in 1..Len(ring[l]) : ring[l][i] # n
          /\ ring'[l] = Append(ring[l], n)
    BY <1>6, Zenon
  <2>2. /\ Len(ring'[l]) = Len(ring[l]) + 1
        /\ \A i \in 1..Len(ring[l]) : ring'[l][i] = ring[l][i]
        /\ ring'[l][Len(ring[l]) + 1] = n
    BY <1>1, <2>1
  <2>3. Done(l) => Done(l)'
    BY <1>1, <1>3, <1>6, Zenon DEF Done
  <2>4. ASSUME NEW i \in 1..Len(ring[l])
        PROVE  Live(l, ring[l][i])' \/ (i = 1 /\ Done(l)')
    <3>1. PICK m \in Message : m = ring[l][i]
      BY <1>1
    <3>2. Live(l, m)' \/ (i = 1 /\ Done(l)')
      BY <1>2, <2>3, <3>1, Zenon
    <3> QED
      BY <2>2, <3>1, <3>2, Zenon
  <2>5. Len(ring[l]) \in Nat
    BY <1>1
  <2>6. \A i \in 1..Len(ring'[l]) :
          Live(l, ring[l][i])' \/ (i = 1 /\ Done(l)')
    <3> SUFFICES ASSUME NEW i \in 1..Len(ring'[l])
                 PROVE  Live(l, ring[l][i])' \/ (i = 1 /\ Done(l)')
      BY Zenon
    <3>1. CASE i \in 1..Len(ring[l])
      BY <2>4, <3>1, Zenon
    <3>2. CASE i = Len(ring[l]) + 1
      BY <2>1, <2>2, <3>2, Zenon
    <3> QED
      BY <2>2, <2>5, <3>1, <3>2
  <2>7. \A i \in 1..Len(ring[l]) :
          /\ ring[l][i].source = l[1] /\ ring[l][i].destination = l[2]
          /\ \A j \in 1..Len(ring[l]) : ring[l][i] = ring[l][j] => i = j
    BY Zenon DEF RingInv
  <2>8. \A i \in 1..Len(ring'[l]) : i \in 1..Len(ring[l]) \/ i = Len(ring[l]) + 1
    BY <2>2, <2>5
  <2>9. ASSUME NEW i \in 1..Len(ring'[l])
        PROVE  ring'[l][i].source = l[1] /\ ring'[l][i].destination = l[2]
    BY <2>1, <2>2, <2>7, <2>8, Zenon
  <2>10. ASSUME NEW i \in 1..Len(ring'[l]), NEW j \in 1..Len(ring'[l]),
                ring'[l][i] = ring'[l][j]
         PROVE  i = j
    <3>1. CASE i \in 1..Len(ring[l]) /\ j \in 1..Len(ring[l])
      BY <2>2, <2>7, <2>10, <3>1, Zenon
    <3>2. CASE i = Len(ring[l]) + 1 /\ j \in 1..Len(ring[l])
      BY <2>1, <2>2, <2>10, <3>2, Zenon
    <3>3. CASE i \in 1..Len(ring[l]) /\ j = Len(ring[l]) + 1
      BY <2>1, <2>2, <2>10, <3>3, Zenon
    <3> QED
      BY <2>8, <3>1, <3>2, <3>3, Zenon
  <2> QED
    BY <2>6, <2>9, <2>10, Zenon
<1> QED
  BY <1>4, <1>5, <1>6, Zenon DEF Good, RingStep

(***************************************************************************)
(* The invariant, and the properties.                                      *)
(***************************************************************************)
LEMMA InitCoherent ==
  ASSUME Init
  PROVE  Coherent
<1>1. TypeOK
  <2>1. [op |-> "NONE", at |-> "idle"] \in PCs
    BY Zenon DEF PCs
  <2>2. \A l \in Links : <<>> \in Seq(Message)
    OBVIOUS
  <2> QED
    BY <2>1, <2>2, InitialTypes, Zenon DEF Init, TypeOK
<1>2. ASSUME NEW c \in Components PROVE CallInv(c)
  <2>1. /\ pc[c].op = "NONE" /\ pc[c].at = "idle" /\ loc[c].slot = NoSlot
        /\ views[c] = {}
    BY Zenon DEF Init, NoCall
  <2> QED
    BY <2>1, Zenon DEF CallInv, ControlInv, TokenInv, AllocInv, SendInv, RollbackInv,
       RecvInv, ReleaseInv, ViewInv, Steps, HoldsToken, InClaim
<1>3. NoLeakedToken
  BY Zenon DEF Init, NoLeakedToken, InitialSlot
<1>4. RingInv
  <2>1. \A l \in Links : ring[l] = <<>> /\ 1..Len(ring[l]) = {}
    BY DEF Init
  <2> QED
    BY <2>1, Zenon DEF RingInv
<1> QED
  BY <1>1, <1>2, <1>3, <1>4, Zenon DEF Coherent

\* Every step keeps the invariant of its runtime and gives the guarantee.
LEMMA StepGood ==
  ASSUME TypeOK, NoLeakedToken, RingInv, \A d \in Components : CallInv(d),
         NEW c \in Components, Call(c) \/ Step(c)
  PROVE  Good(c)
BY GoodAlloc, GoodSend, GoodRollback, GoodReceive, GoodRelease, Zenon DEF Call, Step

LEMMA NextCoherent ==
  ASSUME Coherent, [Next]_vars
  PROVE  Coherent'
<1>1. TypeOK /\ NoLeakedToken /\ RingInv /\ \A c \in Components : CallInv(c)
  BY Zenon DEF Coherent
<1>2. CASE Next
  <2>1. PICK x \in Components : Call(x) \/ Step(x)
    BY <1>2, Zenon DEF Next
  <2>2. Good(x)
    BY <1>1, <2>1, StepGood, Zenon
  <2>3. ASSUME NEW c \in Components PROVE CallInv(c)'
    BY <1>1, <2>2, Stable, Zenon DEF Good
  <2>4. TypeOK' /\ NoLeakedToken' /\ RingInv'
    BY <1>1, <2>2, TokensStable, RingStable, Zenon DEF Good
  <2> QED
    BY <2>3, <2>4, Zenon DEF Coherent
<1>3. CASE UNCHANGED vars
  <2> USE <1>3 DEF vars
  <2>1. TypeOK'
    BY <1>1, Zenon DEF TypeOK
  <2>2. ASSUME NEW c \in Components PROVE CallInv(c)'
    <3> USE DEF HoldsToken, InClaim, Mine, Transferring, Here, RegisteredEpoch
    <3>1. ControlInv(c)' /\ TokenInv(c)' /\ AllocInv(c)' /\ SendInv(c)'
      BY <1>1, Zenon DEF CallInv, ControlInv, TokenInv, AllocInv, SendInv
    <3>2. RollbackInv(c)' /\ ReleaseInv(c)'
      BY <1>1, Zenon DEF CallInv, RollbackInv, ReleaseInv
    <3>3. RecvInv(c)'
      BY <1>1, Zenon DEF CallInv, RecvInv, Live, Sending, Claiming, At
    <3>4. ViewInv(c)'
      BY <1>1, Zenon DEF CallInv, ViewInv, BufferOwned
    <3> QED
      BY <3>1, <3>2, <3>3, <3>4, Zenon DEF CallInv
  <2>3. NoLeakedToken'
    BY <1>1, Zenon DEF NoLeakedToken, HoldsToken
  <2>4. RingInv'
    <3> SUFFICES ASSUME NEW l \in Links, NEW i \in 1..Len(ring'[l])
                 PROVE  /\ ring'[l][i].source = l[1]
                        /\ ring'[l][i].destination = l[2]
                        /\ Live(l, ring[l][i])' \/ (i = 1 /\ Done(l)')
                        /\ \A j \in 1..Len(ring'[l]) :
                             ring'[l][i] = ring'[l][j] => i = j
      BY Zenon DEF RingInv
    <3>1. ring' = ring
      BY Zenon
    <3>2. Done(l)' = Done(l)
      BY Zenon DEF Done
    <3>3. Live(l, ring[l][i])' = Live(l, ring[l][i])
      BY <3>1, Zenon DEF Live, Sending, Claiming, At
    <3>4. /\ ring[l][i].source = l[1] /\ ring[l][i].destination = l[2]
          /\ Live(l, ring[l][i]) \/ (i = 1 /\ Done(l))
          /\ \A j \in 1..Len(ring[l]) : ring[l][i] = ring[l][j] => i = j
      BY <1>1, <3>1, Zenon DEF RingInv
    <3> QED
      BY <3>1, <3>2, <3>3, <3>4, Zenon
  <2> QED
    BY <2>1, <2>2, <2>3, <2>4, Zenon DEF Coherent
<1> QED
  BY <1>2, <1>3, Zenon

\* Spec keeps the claims coherent: what each runtime relies on at each
\* point of its call, and what a descriptor in a ring says of its slot, hold
\* whatever the interleaving of the other runtimes' atomic accesses.
THEOREM Coherence == Spec => []Coherent
BY InitCoherent, NextCoherent, PTL DEF Spec

\* No interleaving of allocate, send, rollback, receive and release stores a
\* slot state, token, descriptor or buffer view that is not of its type.
THEOREM TypeCorrect == Spec => []TypeOK
BY Coherence, PTL DEF Coherent

\* Two runtimes are never between the claim and the publication of the same
\* slot, and the claim token there is always the claimer's own: what the
\* compare-and-swaps on claim_token and state are for.
THEOREM ClaimsAreExclusive == Spec => []ExclusiveClaim
<1>1. Coherent => ExclusiveClaim
  <2> SUFFICES ASSUME Coherent, NEW c \in Components, InClaim(c)
               PROVE  /\ Here(c).state = "CLAIMING"
                      /\ Here(c).token = Token(pc[c].op, c, loc[c].epoch)
                      /\ \A d \in Components \ {c} :
                           InClaim(d) => loc[d].slot # loc[c].slot
    BY Zenon DEF ExclusiveClaim
  <2>1. \A d \in Components : InClaim(d) => HoldsToken(d)
    BY Zenon DEF InClaim, HoldsToken
  <2>2. \A d \in Components : InClaim(d) => Here(d).token.comp = d
    BY <2>1, HasToken, Zenon DEF Coherent
  <2>3. Here(c).state = "CLAIMING" /\ Here(c).token = Token(pc[c].op, c, loc[c].epoch)
    BY <2>1, HasToken, Zenon DEF Coherent
  <2> QED
    BY <2>2, <2>3, Zenon DEF Here
<1> QED
  BY <1>1, Coherence, PTL

\* A claim token is on a slot only while its call is under way, or on a slot
\* that a failed rollback leaves CLAIMING for recovery: no path of the five
\* operations forgets clear_claim_token.
THEOREM TokensDoNotLeak == Spec => []NoLeakedToken
BY Coherence, PTL DEF Coherent

\* A zipc_buffer_t that is valid and not in use by a call passes buffer_owned:
\* nobody takes a buffer away from the component that owns it.
THEOREM OwnersKeepBuffers == Spec => []ViewsAreOwned
<1>1. Coherent => ViewsAreOwned
  BY Zenon DEF Coherent, CallInv, ViewInv, ViewsAreOwned
<1> QED
  BY <1>1, Coherence, PTL

(***************************************************************************)
(* Journeys.                                                               *)
(***************************************************************************)
LEMMA JourneyStep ==
  ASSUME Inductive, [Next]_vars
  PROVE  Inductive'
<1>1. Coherent'
  BY NextCoherent, Zenon DEF Inductive
<1>2. CASE Next
  <2>1. PICK x \in Components : Call(x) \/ Step(x)
    BY <1>2, Zenon DEF Next
  <2>2. Travels(x) /\ Good(x)
    BY <2>1, StepTravels, StepGood, Zenon DEF Inductive, Coherent
  <2> QED
    BY <1>1, <2>2, RestKeepsJourneys, WorkKeepsJourneys, Zenon DEF Travels, Inductive
<1>3. CASE UNCHANGED vars
  BY <1>1, <1>3, Zenon DEF vars, Inductive, Journeys, JourneyInv, TravelInv, Prepared,
     HoldsToken, InClaim, Here
<1> QED
  BY <1>2, <1>3, Zenon

LEMMA InitInductive == Init => Inductive
<1> SUFFICES ASSUME Init PROVE Journeys
  BY InitCoherent, Zenon DEF Inductive
<1>1. ASSUME NEW s \in Slots PROVE JourneyInv(s)
  BY ProtocolAssumption DEF Init, InitialSlot, JourneyInv
<1>2. ASSUME NEW c \in Components PROVE TravelInv(c)
  BY Zenon DEF Init, TravelInv
<1> QED
  BY <1>1, <1>2, Zenon DEF Journeys

\* Spec keeps the inductive invariant: what each runtime relies on at each
\* point of its call, what a descriptor in a ring says of its slot, and what
\* the journal of a transfer says of the buffer's journey hold whatever the
\* interleaving of the other runtimes' atomic accesses.
THEOREM Invariance == Spec => []Inductive
BY InitInductive, JourneyStep, PTL DEF Spec

\* zipc_send and zipc_buffer_claim together never let a buffer travel further
\* than link->hop_limit, on any graph of links, cycles included, and whatever
\* fails on the way.
THEOREM JourneysEnd == Spec => []HopsBounded
<1>1. Inductive => HopsBounded
  BY Zenon DEF Inductive, Journeys, JourneyInv, HopsBounded
<1> QED
  BY <1>1, Invariance, PTL

(***************************************************************************)
(* The refinement.                                                         *)
(***************************************************************************)
\* The standing of all slots, seen as the variable of Ownership.
Places == [s \in Slots |-> Place(s)]

LEMMA StepIsMove ==
  ASSUME Inductive, [Next]_vars
  PROVE  [Abstract!Next]_Places
<1>1. CASE UNCHANGED vars
  BY <1>1, Zenon DEF vars, Places, Place
<1>2. CASE Next
  <2>1. PICK x \in Components : Call(x) \/ Step(x)
    BY <1>2, Zenon DEF Next
  <2>2. Travels(x)
    BY <2>1, StepTravels, Zenon DEF Inductive, Coherent
  <2>3. CASE Rests(x)
    <3>1. \A s \in Slots : Place(s)' = Place(s)
      BY <2>3, RestMovesNothing, Zenon DEF Place
    <3> QED
      BY <3>1, Zenon DEF Places
  <2>4. CASE Claims(x) \/ Fills(x) \/ Aborts(x) \/ Ends(x)
    <3>1. Works(x)
      BY <2>4, Zenon DEF Claims, Fills, Aborts, Ends
    <3>2. PICK s \in Slots : s = loc[x].slot
      BY <3>1, Zenon DEF Works
    <3>3. \A r \in Slots \ {s} : Place(r)' = Place(r)
      BY <3>1, <3>2, Zenon DEF Works, Place
    <3>4. PICK from, to : from = Place(s) /\ to = Place(s)' /\ MovedBy(x, from, to)
      BY <2>4, <3>2, WorkMoves, Zenon DEF Place
    <3>5. Places[s] = from /\ Places' = [Places EXCEPT ![s] = to]
      BY <3>3, <3>4, Zenon DEF Places
    <3>6. CASE to = from
      BY <3>3, <3>4, <3>6, Zenon DEF Places
    <3>7. CASE x \in Allocators /\ from = Abstract!Free /\ to = Abstract!OwnedBy(x)
      BY <3>5, <3>7, Zenon DEF Places, Abstract!Next, Abstract!Allocate, Abstract!Move
    <3>8. CASE from = Abstract!OwnedBy(x) /\ to = Abstract!Free
      BY <3>5, <3>8, Zenon DEF Places, Abstract!Next, Abstract!Release, Abstract!Move
    <3>9. ASSUME NEW d \in Components, <<x, d>> \in Links,
                 from = Abstract!OwnedBy(x), to = Abstract!Moving(x, d)
          PROVE  Abstract!Next
      BY <3>5, <3>9, Zenon DEF Places, Abstract!Next, Abstract!Send, Abstract!Move
    <3>10. ASSUME NEW d \in Components,
                  from = Abstract!Moving(x, d), to = Abstract!OwnedBy(x)
           PROVE  Abstract!Next
      BY <3>5, <3>10, Zenon DEF Places, Abstract!Next, Abstract!Rollback, Abstract!Move
    <3>11. ASSUME NEW d \in Components,
                  from = Abstract!Moving(d, x), to = Abstract!OwnedBy(x)
           PROVE  Abstract!Next
      BY <3>5, <3>11, Zenon DEF Places, Abstract!Next, Abstract!Receive, Abstract!Move
    <3>12. ASSUME NEW d \in Components,
                  from = Abstract!Moving(d, x), to = Abstract!Free
           PROVE  Abstract!Next
      BY <3>5, <3>12, Zenon DEF Places, Abstract!Next, Abstract!Discard, Abstract!Move
    <3> QED
      BY <3>4, <3>6, <3>7, <3>8, <3>9, <3>10, <3>11, <3>12, Zenon DEF MovedBy
  <2> QED
    BY <2>2, <2>3, <2>4, Zenon DEF Travels
<1> QED
  BY <1>1, <1>2, Zenon

\* The protocol implements Ownership: however the compare-and-swaps, stores and
\* failures of all runtimes interleave, each slot moves as if every allocate,
\* send, rollback, receive and release were one indivisible step by the one
\* component that may take it.
THEOREM OwnershipIsRefined == Spec => RefinesOwnership
<1>1. Init => Abstract!Init
  BY DEF Init, Abstract!Init, Abstract!Free, Place, PlaceOf, Standing, InitialSlot
<1>2. Inductive /\ [Next]_vars => [Abstract!Next]_Places
  BY StepIsMove, Zenon
<1> QED
  BY <1>1, <1>2, Invariance, PTL DEF Spec, RefinesOwnership, Abstract!Spec, Places

(***************************************************************************)
(* Transfers.                                                              *)
(***************************************************************************)
\* Where only one component allocates and no buffer carries a deadline, a
\* transfer that its sender has finished is never without its descriptor: the
\* receiver of zipc_recv can claim what it reads, and what zipc_send could not
\* publish it takes back, also when page protection or publication fail.
THEOREM TransfersKept ==
  ASSUME OneAllocator, ~Deadlines
  PROVE  Spec => []NoStrandedTransfer
<1> DEFINE TransferInductive == Inductive /\ Served /\ NoStrandedTransfer
<1>1. Init => TransferInductive
  <2>1. Init => Inductive
    BY InitInductive, Zenon
  <2>2. Init => Served /\ NoStrandedTransfer
    BY DEF Init, Served, ServedInv, NoStrandedTransfer, InitialSlot
  <2> QED
    BY <2>1, <2>2, Zenon
<1>2. TransferInductive /\ [Next]_vars => TransferInductive'
  <2> SUFFICES ASSUME TransferInductive, [Next]_vars PROVE TransferInductive'
    BY Zenon
  <2>1. Inductive'
    BY JourneyStep, Zenon
  <2>2. CASE Next
    <3>1. PICK x \in Components : Call(x) \/ Step(x)
      BY <2>2, Zenon DEF Next
    <3>2. Travels(x) /\ Good(x) /\ Serves(x)
      BY <3>1, StepTravels, StepGood, StepServes, Zenon DEF Inductive, Coherent
    <3>3. Served'
      BY <3>2, OthersServed, Zenon DEF Served, Serves
    <3>4. NoStrandedTransfer'
      BY <3>2, TransfersStep, Zenon
    <3> QED
      BY <2>1, <3>3, <3>4, Zenon
  <2>3. CASE UNCHANGED vars
    BY <2>1, <2>3, Zenon DEF vars, Served, ServedInv, GivenUp, Here, NoStrandedTransfer,
       NotStranded
  <2> QED
    BY <2>2, <2>3, Zenon
<1>3. TransferInductive => NoStrandedTransfer
  BY Zenon
<1> HIDE DEF TransferInductive
<1> QED
  BY <1>1, <1>2, <1>3, PTL DEF Spec
=============================================================================
