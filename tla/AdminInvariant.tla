--------------------------- MODULE AdminInvariant ---------------------------
(***************************************************************************)
(* The inductive invariant of AdminRecovery.  Terminated runtimes leave    *)
(* tokens, claims and descriptors behind, so less can be relied on than in *)
(* SlotInvariant: a descriptor may have outlived its buffer, and a receiver*)
(* may claim a slot for such a descriptor while the sender of a later      *)
(* transfer has not published it yet.                                      *)
(***************************************************************************)
EXTENDS AdminRecovery, SlotInvariant

Descriptors == UNION {{ring[l][i] : i \in 1..Len(ring[l])} : l \in Links}

\* What the descriptors in the rings say of slot s: none is of a later
\* allocation; none is of a later transfer of this one; nor of its last one.
Older(s) ==
  \A m \in Descriptors : m.slot = s => m.generation <= slot[s].generation
Behind(s) ==
  \A m \in Descriptors :
    m.slot = s /\ m.generation = slot[s].generation => m.sequence <= slot[s].sequence
Fresh(s) ==
  \A m \in Descriptors :
    m.slot = s /\ m.generation = slot[s].generation => m.sequence < slot[s].sequence

\* The epoch of the owner that slot s names has not been replaced.
Belongs(s) == slot[s].owner \in Components /\ slot[s].epoch = life[slot[s].owner].epoch

\* A rollback of a current epoch could not restore page access.
Abandoned(s) ==
  LET t == slot[s].token
  IN /\ t.kind = "ROLLBACK"
     /\ t.comp \in Components
     /\ t.epoch = life[t.comp].epoch
     /\ ~(HoldsToken(t.comp) /\ loc[t.comp].slot = s)

\* Somebody works inside the claim of slot s, or recovery will find it.
Attended(s) ==
  \/ \E c \in Components : InClaim(c) /\ loc[c].slot = s
  \/ Abandoned(s)
  \/ down # {} /\ NoComponent \notin swept

KeptInv(s) ==
  /\ Older(s)
  /\ slot[s].state # "ERROR"
  /\ slot[s].state = "FREE" => slot[s].owner = NoComponent
  /\ slot[s].state \in {"OWNED", "TRANSFER"} => Belongs(s) /\ Behind(s)
  /\ slot[s].state = "CLAIMING" => Attended(s)

\* The slot of a transfer that is not in the ring yet: nobody can receive it,
\* but a receiver may claim it for a moment.
Unpublished(c) ==
  /\ Transferring(c)
  /\ Fresh(loc[c].slot)

\* The descriptor at the head of the ring is the one being received.
Peeked(c) ==
  /\ <<loc[c].peer, c>> \in Links
  /\ ring[<<loc[c].peer, c>>] # <<>>
  /\ ring[<<loc[c].peer, c>>][1].slot = loc[c].slot
  /\ ring[<<loc[c].peer, c>>][1].generation = loc[c].generation
  /\ ring[<<loc[c].peer, c>>][1].sequence = loc[c].sequence

\* Control, and the one runtime inside the claim of a slot.
WorkInv(c) ==
  /\ pc[c].at \in Steps(pc[c].op) \cup (IF pc[c].op = "RECEIVE" THEN {"steal", "swap"} ELSE {})
  /\ pc[c].op = "NONE" => loc[c].slot = NoSlot
  /\ pc[c].at \notin {"idle", "scan"} => loc[c].slot \in Slots
  /\ InClaim(c) => Here(c).state = "CLAIMING"

AllocWork(c) ==
  pc[c].op = "ALLOCATE" =>
    /\ loc[c].epoch = RegisteredEpoch(c)
    /\ pc[c].at \in {"fill", "free"} => Here(c).owner = NoComponent
    /\ pc[c].at \in {"publish", "clear"} => Mine(c)
    /\ pc[c].at = "publish" => Behind(loc[c].slot)
    /\ pc[c].at = "clear" => Here(c).state = "OWNED"

SendWork(c) ==
  pc[c].op = "SEND" =>
    /\ <<c, loc[c].peer>> \in Links
    /\ Mine(c)
    /\ pc[c].at \in {"token", "claim", "undo"} => Here(c).state = "OWNED"
    /\ pc[c].at = "fill" => Behind(loc[c].slot)
    /\ pc[c].at \in {"publish", "clear", "push"} => Unpublished(c)
    /\ pc[c].at \in {"clear", "push"} => Here(c).state \in {"TRANSFER", "CLAIMING"}

RollbackWork(c) ==
  pc[c].op = "ROLLBACK" =>
    /\ loc[c].sequence > 0
    /\ HoldsToken(c) => Here(c).token = Token("ROLLBACK", c, loc[c].epoch)
    /\ pc[c].at \in {"check", "token", "claim", "fill"} =>
         Unpublished(c) /\ Here(c).state \in {"TRANSFER", "CLAIMING"}
    /\ pc[c].at \in {"publish", "clear"} => Mine(c)
    /\ pc[c].at = "publish" => Behind(loc[c].slot)
    /\ pc[c].at = "clear" => Here(c).state = "OWNED"

RecvWork(c) ==
  pc[c].op = "RECEIVE" =>
    /\ Peeked(c)
    /\ pc[c].at # "check" /\ pc[c].at # "drop" => loc[c].epoch = RegisteredEpoch(c)
    /\ pc[c].at \in {"steal", "swap"} => loc[c].seen.kind = "SEND"
    /\ pc[c].at = "fill" => Belongs(loc[c].slot)
    /\ pc[c].at = "free" => Here(c).owner = NoComponent
    /\ pc[c].at \in {"publish", "clear", "commit"} => Mine(c)
    /\ pc[c].at \in {"fill", "publish"} => Behind(loc[c].slot)
    /\ pc[c].at \in {"clear", "commit"} => Here(c).state = "OWNED"

ReleaseWork(c) ==
  pc[c].op = "RELEASE" =>
    /\ pc[c].at \in {"token", "claim", "undo", "fill"} => Mine(c)
    /\ pc[c].at \in {"token", "claim", "undo"} => Here(c).state = "OWNED"
    /\ pc[c].at = "fill" => Behind(loc[c].slot)
    /\ pc[c].at = "publish" => Here(c).owner = NoComponent

\* A view is of a slot its component owns, unless the call under way is giving
\* that slot away.
ViewWork(c) ==
  \A v \in views[c] :
    IF pc[c].op \in {"SEND", "ROLLBACK", "RELEASE"} /\ v.slot = loc[c].slot
    THEN pc[c].at \notin {"undo", "lost"} \/ pc[c].op # "ROLLBACK" =>
           v.generation = loc[c].generation /\ v.epoch = loc[c].epoch
    ELSE BufferOwned(c, v)

RunInv(c) ==
  /\ WorkInv(c)
  /\ AllocWork(c)
  /\ SendWork(c)
  /\ RollbackWork(c)
  /\ RecvWork(c)
  /\ ReleaseWork(c)
  /\ ViewWork(c)

\* Nothing runs in a quiescence, and what a sweep was asked for is done.
Quiesced ==
  /\ down \subseteq Components
  /\ quiet \in BOOLEAN
  /\ \A c \in Components \ down : life[c].state = "ACTIVE"
  /\ \A c \in down : Idle(c) /\ loc[c] = NoCall /\ views[c] = {}
  /\ quiet => \A c \in Components : Idle(c)
  /\ ~quiet => swept = {}
  /\ \A c \in swept \cap Components : \A s \in Slots :
       slot[s].state \in {"OWNED", "TRANSFER"} => slot[s].owner # c
  /\ NoComponent \in swept => \A s \in Slots : slot[s].state # "CLAIMING"

\* Whatever a terminated runtime left behind and however far the sweeps came:
\* every call that is under way may rely on its slot as its operation needs it,
\* one runtime is inside a claim, no descriptor is of a later allocation or
\* transfer than its slot, and every claim has somebody who ends it.
AdminInductive ==
  /\ TypeOK
  /\ \A c \in Components : RunInv(c)
  /\ SoleClaimant
  /\ \A s \in Slots : KeptInv(s)
  /\ Quiesced
=============================================================================
