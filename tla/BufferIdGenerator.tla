-------------------------- MODULE BufferIdGenerator --------------------------
(***************************************************************************)
(* generate_buffer_id (zipc.c) for one component: threads of a process     *)
(* reserve sequence numbers of the current random session without a lock.  *)
(* The thread that finds the sequence exhausted, or no session yet, closes *)
(* the gate (ROTATING), waits until no thread is between entering and      *)
(* leaving, and opens a new session with the sequence at zero.             *)
(*                                                                         *)
(* Every compare-exchange is a weak one and may fail without a reason.     *)
(***************************************************************************)
EXTENDS Naturals, FiniteSets

CONSTANTS
  Threads,
  Sessions,      \* non-zero session values the random source can return
  MaxSequence,   \* UINT32_MAX in the code
  MaxStarts      \* bound: how often the entropy source yields a session

ASSUME GeneratorAssumption ==
  /\ 0 \notin Sessions
  /\ MaxSequence \in Nat \ {0}
  /\ MaxStarts \in Nat

VARIABLES
  gate,       \* session_state: session and ROTATING bit
  active,     \* threads that have entered
  sequence,   \* next sequence number of the session
  thread,     \* per thread: step, session_state it read, its other local value
  issued,     \* history: how often an identity was returned
  started     \* history: how often a session was opened

generator == <<gate, active, sequence, thread, issued, started>>

At(step, read, value) == [at |-> step, read |-> read, value |-> value]

GeneratorInit ==
  /\ gate = [session |-> 0, rotating |-> FALSE]
  /\ active = 0
  /\ sequence = 0
  /\ thread = [t \in Threads |-> At("idle", 0, 0)]
  /\ issued = [s \in Sessions |-> [q \in 0..MaxSequence-1 |-> 0]]
  /\ started = [s \in Sessions |-> 0]

\* Thread t continues at a step; the session it read stays.
Goto(t, step, value) ==
  thread' = [thread EXCEPT ![t] = At(step, @.read, value)]

Generate(t) ==
  /\ thread[t].at = "idle"
  /\ thread' = [thread EXCEPT ![t] = At("load", 0, 0)]
  /\ UNCHANGED <<gate, active, sequence, issued, started>>

\* Spins while the gate is closed.
LoadGate(t) ==
  /\ thread[t].at = "load"
  /\ ~gate.rotating
  /\ thread' = [thread EXCEPT ![t] =
       At(IF gate.session = 0 THEN "close" ELSE "enter", gate.session, 0)]
  /\ UNCHANGED <<gate, active, sequence, issued, started>>

Enter(t) ==
  /\ thread[t].at = "enter"
  /\ \/ active' = active + 1 /\ Goto(t, "recheck", 0)
     \/ active' = active /\ Goto(t, "load", 0)
  /\ UNCHANGED <<gate, sequence, issued, started>>

RecheckNever(t) ==
  /\ thread[t].at = "recheck"
  /\ Goto(t, "sequence", 0)
  /\ UNCHANGED <<gate, active, sequence, issued, started>>

Unchanged(t) == ~gate.rotating /\ gate.session = thread[t].read

\* The gate may have closed between the load and the entry.
Recheck(t) ==
  /\ thread[t].at = "recheck"
  /\ Goto(t, IF Unchanged(t) THEN "sequence" ELSE "retry", 0)
  /\ UNCHANGED <<gate, active, sequence, issued, started>>

ReadSequence(t) ==
  /\ thread[t].at = "sequence"
  /\ IF sequence = MaxSequence THEN Goto(t, "exhausted", 0)
                               ELSE Goto(t, "reserve", sequence)
  /\ UNCHANGED <<gate, active, sequence, issued, started>>

\* The identity is the session the thread read and the number it reserved.
Reserve(t) ==
  /\ thread[t].at = "reserve"
  /\ \/ /\ sequence = thread[t].value
        /\ sequence' = sequence + 1
        /\ issued' = [issued EXCEPT ![thread[t].read][sequence] = @ + 1]
        /\ Goto(t, "done", 0)
     \/ /\ Goto(t, "retry", 0)
        /\ UNCHANGED <<sequence, issued>>
  /\ UNCHANGED <<gate, active, started>>

\* Leaves to try again, to open a new session, or with the identity.
Leave(t) ==
  /\ thread[t].at \in {"retry", "exhausted", "done"}
  /\ active' = active - 1
  /\ Goto(t, CASE thread[t].at = "retry" -> "load"
               [] thread[t].at = "exhausted" -> "close"
               [] thread[t].at = "done" -> "idle", 0)
  /\ UNCHANGED <<gate, sequence, issued, started>>

\* The one thread whose exchange sets ROTATING opens the next session.
Close(t) ==
  /\ thread[t].at = "close"
  /\ \/ /\ Unchanged(t)
        /\ gate' = [gate EXCEPT !.rotating = TRUE]
        /\ Goto(t, "drain", 0)
     \/ /\ Goto(t, "load", 0)
        /\ UNCHANGED gate
  /\ UNCHANGED <<active, sequence, issued, started>>

Drain(t) ==
  /\ thread[t].at = "drain"
  /\ active = 0
  /\ Goto(t, "draw", 0)
  /\ UNCHANGED <<gate, active, sequence, issued, started>>

DrawKeepsGate(t) ==
  /\ thread[t].at = "draw"
  /\ \/ \E s \in Sessions \ {thread[t].read} :
          started[s] < MaxStarts /\ Goto(t, "reset", s)
     \/ Goto(t, "idle", 0)
  /\ UNCHANGED <<gate, active, sequence, issued, started>>

DrawRetriesForever(t) ==
  /\ thread[t].at = "draw"
  /\ \/ \E s \in Sessions \ {thread[t].read} :
          started[s] < MaxStarts /\ Goto(t, "reset", s)
     \/ UNCHANGED thread
  /\ UNCHANGED <<gate, active, sequence, issued, started>>

\* random_session: a session other than the one that is left, or a failure,
\* which opens the gate as it was and ends the call.
Draw(t) ==
  /\ thread[t].at = "draw"
  /\ \/ /\ \E s \in Sessions \ {thread[t].read} :
             started[s] < MaxStarts /\ Goto(t, "reset", s)
        /\ UNCHANGED gate
     \/ /\ gate' = [gate EXCEPT !.rotating = FALSE]
        /\ Goto(t, "idle", 0)
  /\ UNCHANGED <<active, sequence, issued, started>>

ResetSequence(t) ==
  /\ thread[t].at = "reset"
  /\ sequence' = 0
  /\ Goto(t, "open", thread[t].value)
  /\ UNCHANGED <<gate, active, issued, started>>

Open(t) ==
  /\ thread[t].at = "open"
  /\ gate' = [session |-> thread[t].value, rotating |-> FALSE]
  /\ started' = [started EXCEPT ![thread[t].value] = @ + 1]
  /\ Goto(t, "load", 0)
  /\ UNCHANGED <<active, sequence, issued>>

Step(t) ==
  \/ LoadGate(t) \/ Enter(t) \/ Recheck(t) \/ ReadSequence(t) \/ Reserve(t)
  \/ Leave(t) \/ Close(t) \/ Drain(t) \/ Draw(t) \/ ResetSequence(t) \/ Open(t)

GeneratorNext == \E t \in Threads : Generate(t) \/ Step(t)

GeneratorSpec == GeneratorInit /\ [][GeneratorNext]_generator

\* A thread inside a call keeps running.
FairGenerator == GeneratorSpec /\ \A t \in Threads : WF_generator(Step(t))

(***************************************************************************)
(* Properties.                                                             *)
(***************************************************************************)
\* No identity is returned more often than its session was opened, so as long
\* as the random source does not repeat a session no identity is returned
\* twice: no thread carries a reservation or a session across a rotation.
IdentitiesUnique ==
  \A s \in Sessions, q \in 0..MaxSequence-1 : issued[s][q] <= started[s]

\* At most one thread rotates, and only a rotation closes the gate: it does
\* not stay closed when the entropy source fails.
OneRotation ==
  LET Rotating == {t \in Threads : thread[t].at \in {"drain", "draw", "reset", "open"}}
  IN Cardinality(Rotating) = IF gate.rotating THEN 1 ELSE 0

\* A rotation ends: the threads the rotating one waits for leave, and those
\* that enter while it waits find the gate closed and leave too.
RotationEnds == gate.rotating ~> ~gate.rotating
=============================================================================
