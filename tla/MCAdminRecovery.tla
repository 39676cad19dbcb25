-------------------------- MODULE MCAdminRecovery --------------------------
(* Instances of AdminRecovery for TLC. *)
EXTENDS AdminInvariant, TLC

CONSTANTS a, b

Edge == {<<a, b>>}

SlotSymmetry == Permutations(Slots)

\* Bound: one slot is allocated to its last generation, in behaviours in which
\* one component is terminated; both are terminated in those in which none is.
Reused == {s \in Slots : slot[s].generation = MaxGeneration}
Original == {c \in Components : c \notin down /\ life[c].epoch = 1}

MCAdminNext ==
  /\ AdminNext
  /\ \A s, t \in Reused' : s = t
  /\ Reused' # {} => Original' # {}

MCAdminSpec == AdminInit /\ [][MCAdminNext]_avars
=============================================================================
