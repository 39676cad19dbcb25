------------------------- MODULE ComponentLifecycle -------------------------
(***************************************************************************)
(* The lifecycle word of one component in the pool header: a 32-bit epoch  *)
(* and a state in one 64-bit atomic.  Registration, unregistration and the *)
(* two ends of an online restart are called by any process, concurrently:  *)
(* each loads the word, decides, and swaps it by compare-exchange.         *)
(***************************************************************************)
EXTENDS Naturals

CONSTANTS
  Processes,
  MaxEpoch     \* UINT32_MAX in the code

ASSUME LifecycleAssumption == MaxEpoch \in Nat \ {0}

VARIABLES
  word,     \* lifecycle of the component
  call,     \* per process: operation in progress, its epoch, the word it loaded
  handle,   \* per process: epoch of the zipc_restart_t it holds, 0 if none
  grants    \* history: how often an epoch was handed to a caller

vars == <<word, call, handle, grants>>

States == {"INACTIVE", "ACTIVE", "RECOVERING"}
Epochs == 0..MaxEpoch
Operations == {"register", "unregister", "restart_begin", "restart_finish"}

component_lifecycle_make(epoch, state) == [epoch |-> epoch, state |-> state]

Words == [epoch : Epochs, state : States]

Returned == [at |-> "idle", op |-> "register", epoch |-> 0,
             current |-> component_lifecycle_make(0, "INACTIVE")]

Init ==
  /\ word = component_lifecycle_make(0, "INACTIVE")
  /\ call = [p \in Processes |-> Returned]
  /\ handle = [p \in Processes |-> 0]
  /\ grants = [e \in Epochs |-> 0]

\* A process calls an operation for an epoch it has been given or has seen in
\* a snapshot; a restart is finished by the process that holds its handle.
Call(p, op, epoch) ==
  /\ call[p].at = "idle"
  /\ op \in {"unregister", "restart_begin"} => epoch \in 1..word.epoch
  /\ op = "restart_begin" => epoch # MaxEpoch
  /\ op = "restart_finish" => handle[p] # 0 /\ epoch = handle[p]
  /\ op = "register" => epoch = 0
  /\ call' = [call EXCEPT ![p] = [at |-> "load", op |-> op, epoch |-> epoch,
                                  current |-> @.current]]
  /\ UNCHANGED <<word, handle, grants>>

\* The conditions under which an operation goes on with the word it loaded.
MayRegister(current) == current.epoch # MaxEpoch /\ current.state = "INACTIVE"
MayUnregister(epoch, current) ==
  current.epoch = epoch /\ current.state # "INACTIVE"
MayBegin(epoch, current) ==
  current.epoch = epoch /\ current.state # "RECOVERING"
MayFinish(epoch, current) ==
  current = component_lifecycle_make(epoch, "RECOVERING")

Accepts(op, epoch, current) ==
  CASE op = "register" -> MayRegister(current)
    [] op = "unregister" -> MayUnregister(epoch, current)
    [] op = "restart_begin" -> MayBegin(epoch, current)
    [] op = "restart_finish" -> MayFinish(epoch, current)

DesiredReusesEpoch(op, epoch, current) ==
  CASE op = "register" -> component_lifecycle_make(
                            IF current.epoch = 0 THEN 1 ELSE current.epoch,
                            "ACTIVE")
    [] op = "unregister" -> component_lifecycle_make(epoch, "INACTIVE")
    [] op = "restart_begin" -> component_lifecycle_make(epoch + 1, "RECOVERING")
    [] op = "restart_finish" -> component_lifecycle_make(epoch, "ACTIVE")

Desired(op, epoch, current) ==
  CASE op = "register" -> component_lifecycle_make(current.epoch + 1, "ACTIVE")
    [] op = "unregister" -> component_lifecycle_make(epoch, "INACTIVE")
    [] op = "restart_begin" -> component_lifecycle_make(epoch + 1, "RECOVERING")
    [] op = "restart_finish" -> component_lifecycle_make(epoch, "ACTIVE")

\* Goes on to the exchange with the word it has read, or returns STALE.
Decide(p, current) ==
  call' = [call EXCEPT ![p] =
             IF Accepts(@.op, @.epoch, current)
             THEN [@ EXCEPT !.at = "exchange", !.current = current]
             ELSE Returned]

Load(p) ==
  /\ call[p].at = "load"
  /\ Decide(p, word)
  /\ UNCHANGED <<word, handle, grants>>

Grant(op, epoch) ==
  grants' = IF op \in {"register", "restart_begin"}
            THEN [grants EXCEPT ![epoch] = @ + 1] ELSE grants

ExchangeBlind(p) ==
  LET c == call[p]
      desired == Desired(c.op, c.epoch, c.current)
  IN /\ c.at = "exchange"
     /\ word' = desired
     /\ Grant(c.op, desired.epoch)
     /\ handle' = [handle EXCEPT ![p] = IF c.op = "restart_begin"
                                        THEN desired.epoch ELSE @]
     /\ call' = [call EXCEPT ![p] = Returned]

\* The exchange succeeds on an unchanged word only.
Exchange(p) ==
  LET c == call[p]
      desired == Desired(c.op, c.epoch, c.current)
  IN /\ c.at = "exchange"
     /\ word = c.current
     /\ word' = desired
     /\ Grant(c.op, desired.epoch)
     /\ handle' = [handle EXCEPT ![p] =
                     CASE c.op = "restart_begin" -> desired.epoch
                       [] c.op = "restart_finish" -> 0
                       [] OTHER -> @]
     /\ call' = [call EXCEPT ![p] = Returned]

\* A failed exchange has loaded the word anew; restart_finish does not retry.
ExchangeFails(p) ==
  /\ call[p].at = "exchange"
  /\ word # call[p].current
  /\ IF call[p].op = "restart_finish"
     THEN call' = [call EXCEPT ![p] = Returned]
     ELSE Decide(p, word)
  /\ UNCHANGED <<word, handle, grants>>

Next ==
  \E p \in Processes :
    \/ \E op \in Operations, e \in Epochs : Call(p, op, e)
    \/ Load(p)
    \/ Exchange(p)
    \/ ExchangeFails(p)

Spec == Init /\ [][Next]_vars

(***************************************************************************)
(* Properties.                                                             *)
(***************************************************************************)
Calls == [at : {"idle", "load", "exchange"}, op : Operations, epoch : Epochs,
          current : Words]

\* The word, the calls and the history are of their types; an epoch never
\* exceeds its width.
TypeOK ==
  /\ word \in Words
  /\ call \in [Processes -> Calls]
  /\ handle \in [Processes -> Epochs]
  /\ grants \in [Epochs -> Nat]

\* The epoch that fences objects of a terminated runtime is handed to one
\* caller: of the processes that register a component or begin its restart at
\* the same time, one obtains a new epoch and the others are told STALE or
\* obtain a later one.
GrantedOnce == \A e \in Epochs : grants[e] <= 1

\* An epoch that was left is never current again, and within an epoch the
\* component only finishes its recovery or becomes inactive; in particular a
\* restart that was unregistered meanwhile is not revived by restart_finish.
EpochsNeverReturn ==
  [][word' # word =>
       \/ word'.epoch = word.epoch + 1 /\ word'.state # "INACTIVE"
       \/ /\ word'.epoch = word.epoch
          /\ \/ word.state # "INACTIVE" /\ word'.state = "INACTIVE"
             \/ word.state = "RECOVERING" /\ word'.state = "ACTIVE"]_vars
=============================================================================
