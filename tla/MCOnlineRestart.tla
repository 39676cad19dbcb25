-------------------------- MODULE MCOnlineRestart --------------------------
(* Instances of OnlineRestart for TLC. *)
EXTENDS OnlineRestart

CONSTANTS a, b, d

Chain == {<<a, b>>, <<b, d>>}
Edge == {<<a, b>>}

\* Bound: the second termination comes before a slot is allocated again.  The
\* steps that fairness is about are not restricted.
SecondIsEarly ==
  \/ \A c \in Components : restart[c] = Active(0)
  \/ \A s \in Slots : slot[s].generation < MaxGeneration
  \/ \A c \in Components : restart'[c].phase = "crashed" => restart[c].phase = "crashed"

PairSpec == RestartInit /\ [][RestartNext /\ SecondIsEarly]_rvars /\ RestartFairness
=============================================================================
