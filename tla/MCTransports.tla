---------------------------- MODULE MCTransports ----------------------------
(***************************************************************************)
(* Instances of SpscRing and PortTransport for TLC.  A behaviour uses one  *)
(* of the two; the other one keeps its initial state.                      *)
(***************************************************************************)
EXTENDS SpscRing, PortTransport

allvars == <<vars, portvars>>

NoLink == [port |-> "none", merge |-> FALSE, type |-> "none"]

MCInit ==
  /\ Init /\ Opened
  /\ \/ link = NoLink
     \/ link \in Links /\ ~eventfd

Ring(A) == link = NoLink /\ A /\ UNCHANGED portvars
Port(A) == link # NoLink /\ A /\ UNCHANGED vars

\* Bound: the runtimes of the eventfd link are terminated, those of the polling
\* link, which never wait, are not; the second termination comes while the other
\* side is down, so that both are replaced at once.
Terminations ==
  crashes' \in {crashes} \cup
    (IF ~eventfd THEN {} ELSE IF "down" \in {snd.at, rcv.at} THEN {1, 2} ELSE {1})

MCNext == Ring(Next /\ Terminations) \/ Port(PortNext)

MCSpec ==
  /\ MCInit /\ [][MCNext]_allvars
  /\ WF_allvars(Ring(SenderStep) \/ Port(PortSendStep))
  /\ WF_allvars(Ring(ReceiverStep) \/ Port(PortReceiveStep))
=============================================================================
