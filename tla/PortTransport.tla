---------------------------- MODULE PortTransport ----------------------------
(***************************************************************************)
(* The transports of the ports that keep no recoverable ring: message      *)
(* queues, mailboxes behind a doorbell, rings behind an interrupt or an    *)
(* event channel, and secure calls (platform/linux/user, linux/kernel,     *)
(* freertos, baremetal, xen).  Their receive takes the descriptor out of   *)
(* the medium before zipc_recv claims the buffer.                          *)
(*                                                                         *)
(* One link between a sending and a receiving component.  The push and the *)
(* pop of a ring are single steps here; SpscRing takes them apart.         *)
(***************************************************************************)
EXTENDS Naturals, Sequences, FiniteSets

CONSTANTS
  Buffers,    \* the buffers; a descriptor names one
  NoBuffer,
  BoxDepth,   \* entries of a queue or ring
  MaxStops    \* bound on the number of terminations

ASSUME PortAssumption ==
  /\ NoBuffer \notin Buffers
  /\ BoxDepth \in Nat \ {0}
  /\ MaxStops \in Nat

VARIABLES
  link,       \* the port, the type of the transport, and whether its events merge
  box,        \* descriptors in the medium, oldest first
  events,     \* raised events that nobody has waited for
  masked,     \* Xen: the event channel has been read and not been unmasked
  transfers,  \* buffers in TRANSFER
  accepted,   \* those of them whose zipc_send returned ZIPC_OK
  tx, rx,     \* the two components: where each is, and with which buffer
  lost,       \* events that failed, merged or were taken by a stop, saturating
  stops       \* terminations so far

portvars == <<link, box, events, masked, transfers, accepted, tx, rx, lost, stops>>

\* SECURE stands for SMC and FF-A, CALLBACK for the types of the kernel that
\* use the ring with the notify and wait callbacks.
Links ==
  [port : {"linux"}, merge : BOOLEAN,
   type : {"MQUEUE", "DGRAM", "FIFO", "RPMSG", "IPI", "PL_RING_IRQ", "SECURE"}]
  \cup [port : {"freertos"}, merge : BOOLEAN,
        type : {"QUEUE", "RPMSG", "NOTIFICATION", "IPI", "PL_RING_IRQ", "SECURE"}]
  \cup [port : {"baremetal"}, merge : BOOLEAN,
        type : {"RPMSG", "IPI", "PL_RING_IRQ", "SECURE"}]
  \cup [port : {"xen"}, merge : {TRUE}, type : {"XEN_RING_EVTCHN"}]
  \cup [port : {"kernel"}, merge : BOOLEAN, type : {"KFIFO", "RING_WAITQUEUE", "CALLBACK"}]

Type(types) == link.type \in types
OnPort(port) == link.port = port

\* A doorbell and a task notification, which is taken with all that is pending.
Merging == link.merge \/ Type({"NOTIFICATION"})

\* A medium that holds one descriptor: the next one replaces it.
DepthOne ==
  \/ Type({"NOTIFICATION", "IPI", "SECURE"})
  \/ Type({"RPMSG"}) /\ OnPort("baremetal")

\* Waits for one event and takes one descriptor, without a look at the ring.
WaitsFirst == Type({"PL_RING_IRQ"}) \/ DepthOne

At(where, b) == [at |-> where, buffer |-> b]
Idle == At("idle", NoBuffer)

Opened ==
  /\ box = <<>> /\ events = 0 /\ masked = FALSE
  /\ transfers = {} /\ accepted = {}
  /\ tx = Idle /\ rx = Idle
  /\ lost = 0 /\ stops = 0

PortInit == link \in Links /\ Opened

Held == {box[i] : i \in DOMAIN box}
More(n, bound) == IF n < bound THEN n + 1 ELSE n

(***************************************************************************)
(* Sending.                                                                *)
(***************************************************************************)
\* zipc_send has published TRANSFER and calls the transport.  On a medium of
\* depth one the application waits for the buffer it sent before.
PortSend(b) ==
  /\ tx = Idle /\ b \notin transfers
  /\ DepthOne => transfers = {}
  /\ transfers' = transfers \cup {b}
  /\ tx' = At("publish", b)
  /\ UNCHANGED <<link, box, events, masked, accepted, rx, lost, stops>>

\* What zipc_send does with ZIPC_OK, ZIPC_ERR_TRANSPORT and
\* ZIPC_ERR_TRANSPORT_PUBLISHED.
SendReturns(status) ==
  /\ tx' = Idle
  /\ transfers' = IF status = "TRANSPORT" THEN transfers \ {tx.buffer} ELSE transfers
  /\ accepted' = IF status = "OK" THEN accepted \cup ({tx.buffer} \cap transfers)
                 ELSE accepted

\* A queue of the operating system takes the whole message or refuses it; a
\* message is smaller than what a pipe splits.
QueueSend ==
  /\ tx.at = "publish"
  /\ \/ /\ Len(box) < BoxDepth
        /\ box' = Append(box, tx.buffer)
        /\ SendReturns("OK")
     \/ /\ UNCHANGED box
        /\ SendReturns("TRANSPORT")
  /\ UNCHANGED <<events, lost>>

RingPushLate ==
  /\ tx.at = "publish"
  /\ box' = IF Len(box) >= BoxDepth THEN Append(Tail(box), tx.buffer)
            ELSE Append(box, tx.buffer)
  /\ tx' = [tx EXCEPT !.at = "signal"]
  /\ UNCHANGED <<events, transfers, accepted, lost>>

\* A full ring refuses the message; otherwise the event follows the push.
RingPush ==
  /\ tx.at = "publish"
  /\ IF Len(box) >= BoxDepth
     THEN UNCHANGED box /\ SendReturns("TRANSPORT")
     ELSE /\ box' = Append(box, tx.buffer)
          /\ tx' = [tx EXCEPT !.at = "signal"]
          /\ UNCHANGED <<transfers, accepted>>
  /\ UNCHANGED <<events, lost>>

\* The mailbox is overwritten without a look at what it holds.
MailboxWrite ==
  /\ tx.at = "publish"
  /\ box' = <<tx.buffer>>
  /\ tx' = [tx EXCEPT !.at = "signal"]
  /\ UNCHANGED <<events, transfers, accepted, lost>>

\* The doorbell, interrupt, notification or wakeup (external).
Raise ==
  IF Merging /\ events > 0
  THEN lost' = More(lost, BoxDepth) /\ UNCHANGED events
  ELSE events' = More(events, BoxDepth + 1) /\ UNCHANGED lost

NotifyRollsBack ==
  /\ tx.at = "signal"
  /\ \/ Raise /\ SendReturns("OK")
     \/ Raise /\ SendReturns("TRANSPORT")
     \/ /\ lost' = More(lost, BoxDepth) /\ UNCHANGED events
        /\ SendReturns("TRANSPORT")
  /\ UNCHANGED box

\* The callback may fail after or before it has raised the event.
Notify ==
  /\ tx.at = "signal"
  /\ \/ Raise /\ SendReturns("OK")
     \/ Raise /\ SendReturns("PUBLISHED")
     \/ /\ lost' = More(lost, BoxDepth) /\ UNCHANGED events
        /\ SendReturns("PUBLISHED")
  /\ UNCHANGED box

\* The service answers within the call; events tells that a response waits.
\* A call that fails may have stored a response or not.
SecureCall ==
  /\ tx.at = "publish"
  /\ \/ /\ box' = <<tx.buffer>> /\ events' = 1 /\ UNCHANGED lost
        /\ SendReturns("OK")
     \/ /\ box' \in {box, <<tx.buffer>>} /\ UNCHANGED events
        /\ lost' = More(lost, BoxDepth)
        /\ SendReturns("PUBLISHED")

\* The endpoint callback of OpenAMP stores what it gets in the mailbox and
\* raises the event (external).
RpmsgMailboxSend ==
  /\ tx.at = "publish"
  /\ \/ box' = <<tx.buffer>> /\ Raise /\ SendReturns("OK")
     \/ UNCHANGED <<box, events, lost>> /\ SendReturns("TRANSPORT")

(***************************************************************************)
(* zipc_platform_transport_send and zipc_kernel_transport_send.            *)
(***************************************************************************)
LinuxUserSend ==
  /\ OnPort("linux")
  /\ \/ Type({"MQUEUE", "FIFO", "RPMSG", "DGRAM"}) /\ QueueSend
     \/ Type({"IPI"}) /\ MailboxWrite
     \/ Type({"PL_RING_IRQ"}) /\ RingPush
     \/ Type({"IPI", "PL_RING_IRQ"}) /\ Notify
     \/ Type({"SECURE"}) /\ SecureCall

FreeRtosSend ==
  /\ OnPort("freertos")
  /\ \/ Type({"QUEUE", "RPMSG"}) /\ QueueSend
     \/ Type({"NOTIFICATION", "IPI"}) /\ MailboxWrite
     \/ Type({"PL_RING_IRQ"}) /\ RingPush
     \/ Type({"NOTIFICATION", "IPI", "PL_RING_IRQ"}) /\ Notify
     \/ Type({"SECURE"}) /\ SecureCall

BareMetalSend ==
  /\ OnPort("baremetal")
  /\ \/ Type({"RPMSG"}) /\ RpmsgMailboxSend
     \/ Type({"IPI"}) /\ MailboxWrite
     \/ Type({"PL_RING_IRQ"}) /\ RingPush
     \/ Type({"IPI", "PL_RING_IRQ"}) /\ Notify
     \/ Type({"SECURE"}) /\ SecureCall

XenSend == OnPort("xen") /\ (RingPush \/ Notify)

KernelSend ==
  /\ OnPort("kernel")
  /\ \/ Type({"KFIFO"}) /\ QueueSend
     \/ ~Type({"KFIFO"}) /\ (RingPush \/ Notify)

PortSendStep ==
  /\ LinuxUserSend \/ FreeRtosSend \/ BareMetalSend \/ XenSend \/ KernelSend
  /\ UNCHANGED <<link, masked, rx, stops>>

(***************************************************************************)
(* Receiving.  A wait that times out changes nothing and is left out.      *)
(***************************************************************************)
Took(b) == rx' = At("claim", b)

\* Takes the oldest descriptor of a queue or ring that is not empty.
Pop ==
  /\ box # <<>>
  /\ Took(Head(box))
  /\ box' = Tail(box)

QueueReceive ==
  /\ rx.at = "idle"
  /\ Pop
  /\ UNCHANGED <<events, masked>>

WaitKeepsNothing ==
  /\ rx.at = "idle"
  /\ events > 0
  /\ events' = 0
  /\ rx' = At("woken", NoBuffer)
  /\ UNCHANGED <<box, masked>>

\* The wait callback, or ulTaskNotifyTakeIndexed with pdTRUE.
WaitEvent ==
  /\ rx.at = "idle"
  /\ events > 0
  /\ events' = IF Merging THEN 0 ELSE events - 1
  /\ rx' = At("woken", NoBuffer)
  /\ UNCHANGED <<box, masked>>

\* One descriptor per event; an empty ring is an error.
RingPop ==
  /\ rx.at = "woken"
  /\ \/ Pop
     \/ box = <<>> /\ rx' = Idle /\ UNCHANGED box
  /\ UNCHANGED <<events, masked>>

\* Copies the mailbox, which keeps its contents.
MailboxRead ==
  /\ rx.at = "woken"
  /\ Took(box[1])
  /\ UNCHANGED <<box, events, masked>>

\* Takes the response, and with it response_pending.
SecureReceive ==
  /\ rx.at = "idle"
  /\ events = 1
  /\ Took(box[1])
  /\ events' = 0
  /\ UNCHANGED <<box, masked>>

LinuxUserReceive ==
  /\ OnPort("linux")
  /\ \/ Type({"MQUEUE", "FIFO", "RPMSG", "DGRAM"}) /\ QueueReceive
     \/ Type({"IPI", "PL_RING_IRQ"}) /\ WaitEvent
     \/ Type({"IPI"}) /\ MailboxRead
     \/ Type({"PL_RING_IRQ"}) /\ RingPop
     \/ Type({"SECURE"}) /\ SecureReceive

FreeRtosReceive ==
  /\ OnPort("freertos")
  /\ \/ Type({"QUEUE", "RPMSG"}) /\ QueueReceive
     \/ Type({"NOTIFICATION", "IPI", "PL_RING_IRQ"}) /\ WaitEvent
     \/ Type({"NOTIFICATION", "IPI"}) /\ MailboxRead
     \/ Type({"PL_RING_IRQ"}) /\ RingPop
     \/ Type({"SECURE"}) /\ SecureReceive

BareMetalReceive ==
  /\ OnPort("baremetal")
  /\ \/ Type({"RPMSG", "IPI", "PL_RING_IRQ"}) /\ WaitEvent
     \/ Type({"RPMSG", "IPI"}) /\ MailboxRead
     \/ Type({"PL_RING_IRQ"}) /\ RingPop
     \/ Type({"SECURE"}) /\ SecureReceive

XenReceiveNoRecheck ==
  /\ OnPort("xen")
  /\ \/ rx.at = "idle" /\ rx' = At("wait", NoBuffer) /\ UNCHANGED <<box, events, masked>>
     \/ /\ rx.at = "wait" /\ events > 0 /\ ~masked
        /\ events' = 0 /\ masked' = TRUE
        /\ rx' = At("unmask", NoBuffer) /\ UNCHANGED box
     \/ /\ rx.at = "unmask"
        /\ masked' = FALSE
        /\ IF box = <<>> THEN rx' = Idle /\ UNCHANGED box ELSE Pop
        /\ UNCHANGED events

\* Looks into the ring, else reads the event channel, which masks it, and
\* writes the port back to unmask it.  Both calls can fail.
XenReceive ==
  /\ OnPort("xen")
  /\ \/ QueueReceive
     \/ /\ rx.at = "idle" /\ box = <<>>
        /\ rx' = At("wait", NoBuffer)
        /\ UNCHANGED <<box, events, masked>>
     \/ /\ rx.at = "wait"
        /\ \/ /\ events > 0 /\ ~masked
              /\ events' = 0 /\ masked' = TRUE
              /\ rx' = At("unmask", NoBuffer)
           \/ rx' = Idle /\ UNCHANGED <<events, masked>>
        /\ UNCHANGED box
     \/ /\ rx.at = "unmask"
        /\ masked' \in BOOLEAN
        /\ rx' = Idle
        /\ UNCHANGED <<box, events>>

\* Looks, waits, and looks once more.  The wait queue is woken or its timeout
\* expires; either way its condition is the ring.
KernelReceive ==
  /\ OnPort("kernel")
  /\ \/ QueueReceive
     \/ /\ rx.at = "idle" /\ box = <<>>
        /\ rx' = At("wait", NoBuffer)
        /\ UNCHANGED <<box, events, masked>>
     \/ /\ rx.at = "wait"
        /\ \/ /\ Type({"CALLBACK"}) /\ events > 0
              /\ events' = IF Merging THEN 0 ELSE events - 1
              /\ rx' = At("woken", NoBuffer)
           \/ /\ ~Type({"CALLBACK"}) /\ box # <<>>
              /\ rx' = At("woken", NoBuffer) /\ UNCHANGED events
           \/ rx' = Idle /\ UNCHANGED events
        /\ UNCHANGED <<box, masked>>
     \/ RingPop

\* zipc_buffer_claim, and the commit that only ends the token.
PortClaim ==
  /\ rx.at = "claim"
  /\ transfers' = transfers \ {rx.buffer}
  /\ accepted' = accepted \ {rx.buffer}
  /\ rx' = Idle
  /\ UNCHANGED <<link, box, events, masked, tx, lost, stops>>

PortReceiveStep ==
  \/ /\ LinuxUserReceive \/ FreeRtosReceive \/ BareMetalReceive \/ XenReceive \/ KernelReceive
     /\ UNCHANGED <<link, transfers, accepted, tx, lost, stops>>
  \/ PortClaim

(***************************************************************************)
(* Termination of a process, and its replacement on the same endpoint.     *)
(***************************************************************************)
StopSender ==
  /\ tx # Idle
  /\ tx' = Idle
  /\ lost' = IF tx.at = "signal" THEN More(lost, BoxDepth) ELSE lost
  /\ UNCHANGED <<box, events, masked, rx>>

\* The datagrams go with the socket, the event channel with its binding.
StopReceiver ==
  /\ rx # Idle \/ Type({"DGRAM"})
  /\ rx' = Idle
  /\ lost' = IF rx.at = "woken" THEN More(lost, BoxDepth) ELSE lost
  /\ box' = IF Type({"DGRAM"}) THEN <<>> ELSE box
  /\ events' = IF OnPort("xen") THEN 0 ELSE events
  /\ masked' = FALSE
  /\ UNCHANGED tx

\* Request and response of a secure call belong to one process.
StopCaller ==
  /\ tx' = Idle /\ rx' = Idle
  /\ box' = <<>> /\ events' = 0
  /\ UNCHANGED <<masked, lost>>

Stop ==
  /\ OnPort("linux") \/ OnPort("xen")
  /\ stops < MaxStops
  /\ stops' = stops + 1
  /\ IF Type({"SECURE"}) THEN StopCaller ELSE StopSender \/ StopReceiver
  /\ UNCHANGED <<link, transfers, accepted>>

PortNext ==
  \/ \E b \in Buffers : PortSend(b)
  \/ PortSendStep
  \/ PortReceiveStep
  \/ Stop

\* A call that is not blocked goes on, and the application keeps receiving.
PortFairness == WF_portvars(PortSendStep) /\ WF_portvars(PortReceiveStep)

PortSpec == PortInit /\ [][PortNext]_portvars /\ PortFairness

(***************************************************************************)
(* Properties.                                                             *)
(***************************************************************************)
\* The descriptors that a receive can still return.
Visible ==
  ({rx.buffer} \ {NoBuffer})
  \cup (IF DepthOne /\ events = 0 /\ rx.at # "woken" THEN {} ELSE Held)

\* "ZIPC_ERR_TRANSPORT: the descriptor was not visible; core rollback is safe":
\* whatever fails in whichever order, a receive returns only descriptors of
\* buffers that are in TRANSFER, never one that was rolled back or received.
OnlyTransfers == Visible \subseteq transfers

Unreachable == transfers \ (Visible \cup {tx.buffer})

\* A transfer is out of reach only because a process stopped with it, or the
\* event or secure call that announces a medium of depth one failed: at most
\* one for each, on a datagram socket what the socket held.
StrandedBounded ==
  Cardinality(Unreachable)
    <= (IF DepthOne THEN lost ELSE 0)
       + stops * (IF Type({"DGRAM"}) THEN BoxDepth + 1 ELSE 1)

\* A ring that is popped once per event holds no more entries without an event
\* than events failed, merged or went with a stopped process.
EventsCover ==
  Type({"PL_RING_IRQ"}) =>
    Len(box) <= events + lost + (IF tx.at = "signal" THEN 1 ELSE 0)
                + (IF rx.at = "woken" THEN 1 ELSE 0)

\* A transfer that zipc_send reported as done is received.  The ports that look
\* into the ring before they wait keep this up when other events fail; the ones
\* that only wait need every event, and Xen that unmasking does not fail.
PortDelivers ==
  \A b \in Buffers :
    b \in accepted ~> \/ b \notin accepted \/ b \in Unreachable
                      \/ WaitsFirst /\ lost > 0
                      \/ masked /\ rx.at # "unmask"
=============================================================================
