---------------------------- MODULE MCLinkSetup ----------------------------
(***************************************************************************)
(* Instances for TLC of LinkSetup, and of the generator that gives every   *)
(* allocation of a process its identity (BufferIdGenerator).  The two share*)
(* no state: a behaviour uses one, the other keeps its initial state.      *)
(***************************************************************************)
EXTENDS LinkSetup, BufferIdGenerator

CONSTANTS x, y, z, main, aux, t1, t2, t3
VARIABLE generating

allvars == <<svars, generator, generating>>

Entry(name, id, epoch) ==
  [NoEntry EXCEPT !.name = name, !.id = id, !.pool = main, !.transport = main,
                  !.local = 1, !.remote = 2, !.epoch = epoch]

\* Entries that are valid, and one for each condition of the validation.
Offered ==
  {<<>>,
   <<Entry(x, 1, 0)>>,
   <<Entry(y, 1, 1)>>,
   <<Entry(x, 2, 0), Entry(z, 3, 0)>>,
   <<Entry(y, 2, 1), Entry(x, 1, 0)>>,
   <<Entry(x, 1, 0), Entry(x, 2, 0)>>,
   <<Entry(x, 1, 0), Entry(y, 1, 0)>>,
   <<Entry(x, 1, 0), Entry(y, 2, 0), Entry(z, 3, 0)>>,
   <<Entry(x, 0, 0)>>,
   <<Entry(Unset, 1, 0)>>,
   <<[Entry(x, 1, 0) EXCEPT !.remote = 1]>>,
   <<[Entry(x, 1, 0) EXCEPT !.local = 0]>>,
   <<[Entry(x, 1, 0) EXCEPT !.role = "CONSUMER", !.pool = aux]>>,
   <<[Entry(x, 1, 0) EXCEPT !.transport = Unset]>>}

MCConfigs == Offered

LegacyOffered == {<<>>, <<Entry(z, 0, 2)>>, <<Entry(z, 1, 0), Entry(z, 2, 0)>>}

MCTables == LegacyOffered

\* Bound: the registry does not read the lifecycle, so it is explored first,
\* and the lifecycle from one registry that offers a link of every epoch.
Settled ==
  /\ links = <<Entry(y, 2, 1), Entry(x, 1, 0)>>
  /\ legacy = <<Entry(z, 0, 2)>>
  /\ ~overridden

SettingUp(A) == ~generating /\ A /\ UNCHANGED <<generator, generating>>
Generating(A) == generating /\ A /\ UNCHANGED <<svars, generating>>

MCNext ==
  \/ SettingUp(Next /\ Settled /\ UNCHANGED <<registry, setup>>)
  \/ SettingUp(/\ RegistryNext /\ Init
               /\ setup = <<NoEpoch, NoEpoch, FALSE, NoEpoch>>
               /\ UNCHANGED <<vars, setup>>)
  \/ SettingUp(LinkNext)
  \/ Generating(GeneratorNext)

MCInit == SetupInit /\ GeneratorInit /\ generating \in BOOLEAN

MCSpec ==
  /\ MCInit /\ [][MCNext]_allvars
  /\ \A t \in Threads : WF_allvars(Generating(Step(t)))
=============================================================================
