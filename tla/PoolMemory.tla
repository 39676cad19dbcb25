---------------------------- MODULE PoolMemory ----------------------------
(***************************************************************************)
(* A pool in shared memory and the page protections of the processes that  *)
(* use it: zipc_pool_format, zipc_pool_attach, and the calls of            *)
(* protect_slot on the way of a slot from owner to owner.  The rules by    *)
(* which a call may take a slot are SlotProtocol's; here a call is two     *)
(* steps, the claim and the end that protects the payload and publishes    *)
(* the new state, so that the protections of two processes interleave.     *)
(***************************************************************************)
EXTENDS PoolLayout, Integers, Sequences

VARIABLES header,  \* the pool header in the control memory, or NoPool
          pool,    \* pool[p]: the configuration p has attached with, or NoPool
          denied,  \* denied[p]: the cells that are PROT_NONE in p's mapping
          slot     \* slot[s]: the control record of slot s

memvars == <<header, pool, denied, slot>>

Attached == {p \in Processes : pool[p] # NoPool}

\* The slots of the pool; those past slot_count do not exist.
SlotIds == IF header = NoPool THEN {} ELSE 0..(header.slot_count - 1)

FreeSlot == [state |-> "FREE", holder |-> NoPool, call |-> "none", offset |-> 0, length |-> 0]

MemInit ==
    /\ header = NoPool
    /\ pool = [p \in Processes |-> NoPool]
    /\ denied = [p \in Processes |-> {}]
    /\ slot = <<>>

(***************************************************************************)
(* Formatting and attaching.  mprotect may refuse any call, so the loops   *)
(* protect the first k ranges and stop; k = slot_count is success.         *)
(***************************************************************************)
Accepts(p, c) == Normal(p, c) /\ Placed(p, c)

\* apply_guard_pages: the cells that its first k rounds protect.
apply_guard_pages(p, c, k) ==
    IF c.guard THEN UNION {GuardCells(p, c, s) : s \in 0..(k - 1)} ELSE {}

Rounds(c, flag) == IF flag THEN 0..c.slot_count ELSE {c.slot_count}

\* All that a process protects when it formats and attaches with c.  A process
\* whose attempt has failed keeps what it has protected; it tries the same
\* layout again or maps the memory afresh.
Protected(p, c) ==
    apply_guard_pages(p, c, c.slot_count) \cup
    (IF c.strict THEN UNION {SlotCells(p, c, s) : s \in 0..(c.slot_count - 1)} ELSE {})

Unmixed(p, c) == denied[p] \subseteq Protected(p, c)

\* zipc_pool_format; the pool is not in use ("external serialization").
Format(p, c) ==
    /\ Attached = {} /\ header = NoPool /\ Unmixed(p, c)
    /\ Accepts(p, c)
    /\ \E k \in Rounds(c, c.guard) :
        /\ denied' = [denied EXCEPT ![p] = @ \cup apply_guard_pages(p, c, k)]
        /\ IF k = c.slot_count
           THEN /\ header' = Header(p, c)
                /\ slot' = [s \in 0..(c.slot_count - 1) |-> FreeSlot]
           ELSE UNCHANGED <<header, slot>>
    /\ UNCHANGED pool

\* The slots whose payload the loop at the end of zipc_pool_attach can protect.
Revocable(p, c) ==
    {s \in 0..(c.slot_count - 1) :
        Protectable(p, c.payload, SlotOffset(p, c, s), c.slot_capacity)}

\* The cells that the first k rounds of that loop protect.
Revoked(p, c, k) == UNION {SlotCells(p, c, s) : s \in 0..(k - 1)}

\* zipc_pool_attach; an attempt that fails keeps what it has protected.
Attach(p, c) ==
    /\ pool[p] = NoPool /\ header = Header(p, c) /\ Unmixed(p, c)
    /\ Accepts(p, c)
    /\ \E g \in Rounds(c, c.guard), k \in Rounds(c, c.strict) :
        /\ g = c.slot_count \/ k = 0 \/ ~c.strict
        /\ c.strict => 0..(k - 1) \subseteq Revocable(p, c)
        /\ denied' = [denied EXCEPT ![p] =
                        @ \cup apply_guard_pages(p, c, g)
                          \cup (IF c.strict THEN Revoked(p, c, k) ELSE {})]
        /\ pool' = [pool EXCEPT ![p] =
                        IF g = c.slot_count /\ k = c.slot_count THEN c ELSE NoPool]
    /\ UNCHANGED <<header, slot>>

(***************************************************************************)
(* protect_slot and the steps of the calls that make it.                   *)
(***************************************************************************)
protect_slot(p, s, read_write) ==
    IF ~pool[p].strict THEN denied
    ELSE [denied EXCEPT ![p] = IF read_write THEN @ \ SlotCells(p, pool[p], s)
                                             ELSE @ \cup SlotCells(p, pool[p], s)]

MayFail(p) == pool[p].strict

\* The holder of s has taken it for the call named call.
Begin(p, s, state, call) ==
    /\ p \in Attached /\ s \in SlotIds
    /\ slot[s].state = state
    /\ slot' = [slot EXCEPT ![s].state = "CLAIMING", ![s].call = call, ![s].holder = p]

Publish(s, state, holder) ==
    slot' = [slot EXCEPT ![s].state = state, ![s].call = "none", ![s].holder = holder]

InCall(p, s, call) ==
    /\ s \in SlotIds
    /\ slot[s].state = "CLAIMING" /\ slot[s].call = call /\ slot[s].holder = p

AllocateBegin(p, s) == Begin(p, s, "FREE", "allocate") /\ UNCHANGED <<header, pool, denied>>

\* zipc_buffer_alloc_ex refuses a window with its rooms over the capacity.
Fits(headroom, size, tailroom) == headroom + size + tailroom =< header.slot_capacity

AllocateEnd(p, s, headroom, size, tailroom) ==
    /\ InCall(p, s, "allocate")
    /\ Fits(headroom, size, tailroom)
    /\ \/ /\ denied' = protect_slot(p, s, TRUE)
          /\ slot' = [slot EXCEPT ![s] = [state |-> "OWNED", holder |-> p, call |-> "none",
                                          offset |-> headroom, length |-> size]]
       \/ /\ MayFail(p)
          /\ denied' = protect_slot(p, s, FALSE)
          /\ slot' = [slot EXCEPT ![s] = FreeSlot]
    /\ UNCHANGED <<header, pool>>

SendBegin(p, s) ==
    /\ s \in SlotIds /\ slot[s].holder = p
    /\ Begin(p, s, "OWNED", "send")
    /\ UNCHANGED <<header, pool, denied>>

\* The payload is revoked after the transfer is published.
SendEndLate(p, s, q) ==
    /\ InCall(p, s, "send")
    /\ q \in Processes \ {p}
    /\ UNCHANGED denied /\ Publish(s, "TRANSFER", q)
    /\ UNCHANGED <<header, pool>>

\* buffer_prepare_transfer_internal revokes, then publishes the transfer.  A
\* send that its transport refuses opens the payload again before the slot is
\* OWNED; when that fails the slot stays CLAIMING for the administrator.
SendEnd(p, s, q) ==
    /\ InCall(p, s, "send")
    /\ q \in Processes \ {p}
    /\ \/ /\ denied' = protect_slot(p, s, FALSE)
          /\ Publish(s, "TRANSFER", q)
       \/ /\ UNCHANGED denied
          /\ Publish(s, "OWNED", p)
       \/ /\ MayFail(p)
          /\ denied' = protect_slot(p, s, FALSE)
          /\ slot' = [slot EXCEPT ![s].call = "lost"]
    /\ UNCHANGED <<header, pool>>

ClaimBegin(p, s) ==
    /\ s \in SlotIds /\ slot[s].holder = p
    /\ Begin(p, s, "TRANSFER", "claim")
    /\ UNCHANGED <<header, pool, denied>>

\* The receiver publishes its ownership without opening the payload.
ClaimEndClosed(p, s) ==
    /\ InCall(p, s, "claim")
    /\ UNCHANGED denied /\ Publish(s, "OWNED", p)
    /\ UNCHANGED <<header, pool>>

\* zipc_buffer_claim; a receiver that cannot open the payload frees the slot.
ClaimEnd(p, s) ==
    /\ InCall(p, s, "claim")
    /\ \/ /\ denied' = protect_slot(p, s, TRUE)
          /\ Publish(s, "OWNED", p)
       \/ /\ MayFail(p) /\ UNCHANGED denied
          /\ slot' = [slot EXCEPT ![s] = FreeSlot]
    /\ UNCHANGED <<header, pool>>

ReleaseBegin(p, s) ==
    /\ s \in SlotIds /\ slot[s].holder = p
    /\ Begin(p, s, "OWNED", "release")
    /\ UNCHANGED <<header, pool, denied>>

\* zipc_pool_buffer_release
ReleaseEnd(p, s) ==
    /\ InCall(p, s, "release")
    /\ \/ /\ denied' = protect_slot(p, s, FALSE)
          /\ slot' = [slot EXCEPT ![s] = FreeSlot]
       \/ /\ MayFail(p) /\ UNCHANGED denied
          /\ Publish(s, "OWNED", p)
    /\ UNCHANGED <<header, pool>>
=============================================================================
