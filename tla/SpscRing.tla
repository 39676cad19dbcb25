------------------------------ MODULE SpscRing ------------------------------
(***************************************************************************)
(* The shared-memory descriptor ring of one link with its eventfd wakeup   *)
(* (platform-linux-common.c, platform-linux-user.c): free-running 32-bit   *)
(* indices, push with duplicate suppression, peek, claim and commit.       *)
(*                                                                         *)
(* The slots behind the descriptors appear only as the set of transfers    *)
(* that wait for the receiver.  Either side can stop between two steps;    *)
(* its replacement reconciles the link before it uses it.                  *)
(***************************************************************************)
EXTENDS Integers, Sequences

CONSTANTS
  Messages,    \* descriptors; one names one transfer while it is in the ring
  NoMessage,
  Depth,       \* ring->depth
  Wrap,        \* number of values of an index, 2^32 in the code
  MaxCrashes   \* bound on the number of terminations

ASSUME RingAssumption ==
  /\ NoMessage \notin Messages
  /\ Depth \in Nat /\ Depth >= 2
  /\ Wrap \in Nat /\ Wrap > Depth
  /\ Wrap % Depth = 0  \* holds for the default depth; the code does not check it
  /\ MaxCrashes \in Nat

VARIABLES
  producer, consumer,  \* indices, in shared memory
  entries,             \* cells, in shared memory
  signalled,           \* the eventfd counter is not zero
  pending,             \* descriptors whose slot is in TRANSFER
  snd,                 \* the sending runtime: step, descriptor, what to re-send
  rcv,                 \* the receiving runtime: step, position, descriptor
  crashes,             \* terminations so far
  eventfd              \* the link is SHM_RING_EVENTFD, not SHM_RING_POLLING

vars == <<producer, consumer, entries, signalled, pending, snd, rcv, crashes, eventfd>>

Sender(at, m, todo) == [at |-> at, message |-> m, todo |-> todo]
Receiver(at, position, m) == [at |-> at, position |-> position, message |-> m]

\* zipc_transport_spsc_ring_initialize of a zeroed mapping.
Init ==
  /\ producer = 0 /\ consumer = 0
  /\ entries = [i \in 0..Depth-1 |-> NoMessage]
  /\ signalled = FALSE
  /\ pending = {}
  /\ snd = Sender("idle", NoMessage, {})
  /\ rcv = Receiver("idle", 0, NoMessage)
  /\ crashes = 0
  /\ eventfd \in BOOLEAN

Cell(position) == entries[position % Depth]
Count == (producer - consumer) % Wrap
After(position) == (position + 1) % Wrap

\* The descriptors between the two indices, oldest first.
Queued == [i \in 1..Count |-> Cell((consumer + i - 1) % Wrap)]

(***************************************************************************)
(* The sender.                                                             *)
(***************************************************************************)
\* zipc_send has published TRANSFER and calls the transport.
Send(m) ==
  /\ snd.at = "idle"
  /\ m \notin pending
  /\ \A i \in DOMAIN Queued : Queued[i] # m
  /\ pending' = pending \cup {m}
  /\ snd' = Sender("check", m, {})
  /\ UNCHANGED <<producer, consumer, entries, signalled, rcv, crashes, eventfd>>

PushCheckReturnsEarly ==
  /\ snd.at = "check"
  /\ snd' = [snd EXCEPT !.at = IF Count >= Depth THEN "full"
                               ELSE IF \E i \in DOMAIN Queued :
                                         Queued[i] = snd.message
                               THEN "sent" ELSE "write"]
  /\ UNCHANGED <<producer, consumer, entries, signalled, pending, rcv, crashes, eventfd>>

PushCheckLate ==
  /\ snd.at = "check"
  /\ snd' = [snd EXCEPT !.at = IF Count > Depth THEN "full"
                               ELSE IF \E i \in DOMAIN Queued :
                                         Queued[i] = snd.message
                               THEN "signal" ELSE "write"]
  /\ UNCHANGED <<producer, consumer, entries, signalled, pending, rcv, crashes, eventfd>>

\* Loads the indices, refuses when the ring is full and looks for the
\* descriptor among the queued ones.  Only the sender writes producer and the
\* cells, so what it reads of them does not change under it.
PushCheck ==
  /\ snd.at = "check"
  /\ snd' = [snd EXCEPT !.at =
               IF Count >= Depth THEN "full"
               ELSE IF \E i \in DOMAIN Queued : Queued[i] = snd.message
                    THEN "signal" ELSE "write"]
  /\ UNCHANGED <<producer, consumer, entries, signalled, pending, rcv, crashes, eventfd>>

PushWrite ==
  /\ snd.at = "write"
  /\ entries' = [entries EXCEPT ![producer % Depth] = snd.message]
  /\ snd' = [snd EXCEPT !.at = "publish"]
  /\ UNCHANGED <<producer, consumer, signalled, pending, rcv, crashes, eventfd>>

PushPublish ==
  /\ snd.at = "publish"
  /\ producer' = After(producer)
  /\ snd' = [snd EXCEPT !.at = "signal"]
  /\ UNCHANGED <<consumer, entries, signalled, pending, rcv, crashes, eventfd>>

\* The eventfd write that follows every successful push.
Signal ==
  /\ snd.at = "signal"
  /\ signalled' = eventfd
  /\ snd' = [snd EXCEPT !.at = "sent"]
  /\ UNCHANGED <<producer, consumer, entries, pending, rcv, crashes, eventfd>>

\* The call returns, or the reconciliation goes on with another transfer.
Sent ==
  /\ snd.at = "sent"
  /\ snd' = IF snd.todo = {} THEN Sender("idle", NoMessage, {})
            ELSE Sender("resend", NoMessage, snd.todo \ {snd.message})
  /\ UNCHANGED <<producer, consumer, entries, signalled, pending, rcv, crashes, eventfd>>

\* A full ring: the send is rolled back; a reconciliation is called again.
Full ==
  /\ snd.at = "full"
  /\ IF snd.todo = {}
     THEN /\ pending' = pending \ {snd.message}
          /\ snd' = Sender("idle", NoMessage, {})
     ELSE /\ snd' = Sender("down", NoMessage, {})
          /\ UNCHANGED pending
  /\ UNCHANGED <<producer, consumer, entries, signalled, rcv, crashes, eventfd>>

(***************************************************************************)
(* The receiver.                                                           *)
(***************************************************************************)
\* zipc_platform_transport_receive_begin looks into the ring before it waits;
\* a polling receiver only looks again.
Peek ==
  /\ rcv.at = "idle"
  /\ \/ /\ Count > 0
        /\ rcv' = Receiver("read", consumer, NoMessage)
     \/ /\ Count = 0 /\ eventfd
        /\ rcv' = Receiver("wait", consumer, NoMessage)
  /\ UNCHANGED <<producer, consumer, entries, signalled, pending, snd, crashes, eventfd>>

\* The blocking read of the eventfd, which resets its counter.
Wakeup ==
  /\ rcv.at = "wait"
  /\ signalled
  /\ signalled' = FALSE
  /\ rcv' = [rcv EXCEPT !.at = "idle"]
  /\ UNCHANGED <<producer, consumer, entries, pending, snd, crashes, eventfd>>

PeekRead ==
  /\ rcv.at = "read"
  /\ rcv' = [rcv EXCEPT !.at = "claim", !.message = Cell(rcv.position)]
  /\ UNCHANGED <<producer, consumer, entries, signalled, pending, snd, crashes, eventfd>>

\* zipc_buffer_claim succeeds for a transfer that still waits; the descriptor
\* is committed either way.
Claim ==
  /\ rcv.at = "claim"
  /\ pending' = pending \ {rcv.message}
  /\ rcv' = [rcv EXCEPT !.at = "commit"]
  /\ UNCHANGED <<producer, consumer, entries, signalled, snd, crashes, eventfd>>

Commit ==
  /\ rcv.at = "commit"
  /\ consumer = rcv.position
  /\ consumer' = After(consumer)
  /\ rcv' = [rcv EXCEPT !.at = "idle", !.message = NoMessage]
  /\ UNCHANGED <<producer, entries, signalled, pending, snd, crashes, eventfd>>

(***************************************************************************)
(* Termination, and zipc_link_reconcile by the replacement.                *)
(***************************************************************************)
\* A replacement that stops before it has reconciled its link is a matter of
\* the quiesced recovery and not of this module.
Crash ==
  /\ crashes < MaxCrashes
  /\ crashes' = crashes + 1
  /\ \/ /\ snd.at \notin {"down", "resend"} /\ snd.todo = {}
        /\ snd' = Sender("down", NoMessage, {})
        /\ UNCHANGED rcv
     \/ /\ rcv.at # "down"
        /\ rcv' = Receiver("down", 0, NoMessage)
        /\ UNCHANGED snd
  /\ UNCHANGED <<producer, consumer, entries, signalled, pending, eventfd>>

\* The transfers the terminated sender left are looked up in the pool.
SenderRestart ==
  /\ snd.at = "down"
  /\ snd' = Sender("resend", NoMessage, pending)
  /\ UNCHANGED <<producer, consumer, entries, signalled, pending, rcv, crashes, eventfd>>

\* The slots still in TRANSFER are sent again, one after the other.
Resend ==
  /\ snd.at = "resend"
  /\ IF snd.todo \cap pending = {}
     THEN snd' = Sender("idle", NoMessage, {})
     ELSE \E m \in snd.todo \cap pending : snd' = Sender("check", m, snd.todo)
  /\ UNCHANGED <<producer, consumer, entries, signalled, pending, rcv, crashes, eventfd>>

\* Descriptors at the head whose transfer is over are dropped.
ReceiverRestart ==
  /\ rcv.at = "down"
  /\ IF Count = 0 \/ Cell(consumer) \in pending
     THEN /\ rcv' = Receiver("idle", 0, NoMessage)
          /\ UNCHANGED consumer
     ELSE /\ consumer' = After(consumer)
          /\ UNCHANGED rcv
  /\ UNCHANGED <<producer, entries, signalled, pending, snd, crashes, eventfd>>

SenderStep ==
  \/ PushCheck \/ PushWrite \/ PushPublish \/ Signal \/ Sent \/ Full
  \/ SenderRestart \/ Resend

ReceiverStep ==
  \/ Peek \/ Wakeup \/ PeekRead \/ Claim \/ Commit \/ ReceiverRestart

Next ==
  \/ \E m \in Messages : Send(m)
  \/ SenderStep
  \/ ReceiverStep
  \/ Crash

Spec == Init /\ [][Next]_vars

\* A runtime that is not blocked proceeds, a terminated one is replaced, and
\* the application keeps calling zipc_recv.
Fairness == WF_vars(SenderStep) /\ WF_vars(ReceiverStep)

FairSpec == Spec /\ Fairness

(***************************************************************************)
(* Properties.                                                             *)
(***************************************************************************)
Abstract == INSTANCE Channel WITH queue <- Queued

\* The cells and the two indices behave as a bounded queue without duplicates,
\* also when the indices wrap and across terminations: no queued descriptor is
\* overwritten, skipped, repeated or reordered.
RefinesChannel == Abstract!Spec

\* "An already published descriptor cannot be stranded behind a lost
\* notification": every transfer reaches the receiver or is rolled back,
\* wherever the runtimes stop, once they have been replaced.
Delivered == \A m \in Messages : m \in pending ~> m \notin pending
=============================================================================
