----------------------------- MODULE LinkSetup -----------------------------
(***************************************************************************)
(* Links and buffers of one component under its lifecycle: a process opens *)
(* a link by name (TopologyRegistry), the link takes the epoch of the      *)
(* component, and every call on the link or on a buffer compares epochs,   *)
(* while processes register, unregister and restart the component          *)
(* (ComponentLifecycle).                                                   *)
(***************************************************************************)
EXTENDS TopologyRegistry, ComponentLifecycle

CONSTANT NoEpoch   \* no link, no buffer

VARIABLES
  link,      \* epoch of the process's open link
  claiming,  \* epoch of a call between loading the epoch and its claim
  receiving, \* a receive is between its check and its claim
  buffer     \* epoch of the buffer the process holds

setup == <<link, claiming, receiving, buffer>>
svars == <<registry, vars, setup>>

SetupInit ==
  /\ RegistryInit /\ Init
  /\ link = NoEpoch /\ claiming = NoEpoch /\ buffer = NoEpoch
  /\ receiving = FALSE

component_epoch_current(epoch) == word.epoch = epoch /\ word.state # "INACTIVE"

registered_epoch == IF word.state = "INACTIVE" THEN 0 ELSE word.epoch

\* The check at the head of every call on a link.  A link without an epoch
\* belongs to a component that does not register.
Accepted(epoch) == epoch = 0 \/ component_epoch_current(epoch)

\* The part of buffer_owned that the lifecycle decides.
Owned(epoch) == registered_epoch = epoch

\* zipc_link_create: an explicit epoch has to be current; without one the
\* link takes the one that is registered.
LinkEpoch(epoch) ==
  /\ epoch # 0 => component_epoch_current(epoch)
  /\ link' = IF epoch # 0 THEN epoch ELSE registered_epoch

\* zipc_link_open of a name that is known; when the transport cannot be opened
\* the link is freed again.
LinkOpen(name) ==
  /\ link = NoEpoch
  /\ LookUp(name) # <<>>
  /\ \/ LinkEpoch(LookUp(name)[1].epoch)
     \/ UNCHANGED link
  /\ UNCHANGED <<registry, vars, claiming, receiving, buffer>>

\* The process has no call in progress on its link.
Resting == link # NoEpoch /\ claiming = NoEpoch /\ ~receiving

LinkDestroy ==
  /\ Resting
  /\ link' = NoEpoch
  /\ UNCHANGED <<registry, vars, claiming, receiving, buffer>>

\* zipc_buffer_alloc_ex checks the link; the slot is claimed for the epoch of
\* the link, or the registered one if it has none.
AllocCheck ==
  /\ Resting /\ buffer = NoEpoch
  /\ Accepted(link)
  /\ claiming' = IF link # 0 THEN link ELSE registered_epoch
  /\ UNCHANGED <<registry, vars, link, receiving, buffer>>

\* zipc_recv checks the link before it waits for a descriptor; the claim loads
\* the epoch that is registered by then, or the receive ends without a buffer.
RecvCheck ==
  /\ Resting /\ buffer = NoEpoch
  /\ Accepted(link)
  /\ receiving' = TRUE
  /\ UNCHANGED <<registry, vars, link, claiming, buffer>>

RecvEpoch ==
  /\ receiving
  /\ claiming' \in {registered_epoch, NoEpoch}
  /\ receiving' = FALSE
  /\ UNCHANGED <<registry, vars, link, buffer>>

\* The slot becomes the caller's, or the call finds none to claim.
Claim ==
  /\ claiming # NoEpoch
  /\ buffer' \in {claiming, NoEpoch}
  /\ claiming' = NoEpoch
  /\ UNCHANGED <<registry, vars, link, receiving>>

MaySend == Owned(buffer) /\ Accepted(link) /\ buffer = link

\* zipc_send consumes the buffer.
Send ==
  /\ buffer # NoEpoch /\ link # NoEpoch
  /\ MaySend
  /\ buffer' = NoEpoch
  /\ UNCHANGED <<registry, vars, link, claiming, receiving>>

Release ==
  /\ buffer # NoEpoch /\ Owned(buffer)
  /\ buffer' = NoEpoch
  /\ UNCHANGED <<registry, vars, link, claiming, receiving>>

\* The buffer is left to recovery.
Abandon ==
  /\ buffer # NoEpoch /\ ~Owned(buffer)
  /\ buffer' = NoEpoch
  /\ UNCHANGED <<registry, vars, link, claiming, receiving>>

LinkNext ==
  \/ \E n \in LinkNames : LinkOpen(n)
  \/ LinkDestroy \/ AllocCheck \/ RecvCheck \/ RecvEpoch \/ Claim
  \/ Send \/ Release \/ Abandon

SetupNext ==
  \/ RegistryNext /\ UNCHANGED <<vars, setup>>
  \/ Next /\ UNCHANGED <<registry, setup>>
  \/ LinkNext

SetupSpec == SetupInit /\ [][SetupNext]_svars

(***************************************************************************)
(* Properties.                                                             *)
(***************************************************************************)
\* A link that a call has refused as COMPONENT_STALE is refused for good: no
\* sequence of registrations and restarts makes its epoch current again.
StaleLinkStays ==
  [][(link # NoEpoch /\ link' = link /\ ~Accepted(link))
       => ~Accepted(link)']_svars
=============================================================================
