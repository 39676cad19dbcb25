---------------------------- MODULE SetupProofs ----------------------------
(***************************************************************************)
(* What a process needs before it exchanges buffers, for any number of     *)
(* processes and threads and any width of the counters.                    *)
(*                                                                         *)
(* Component lifecycle and links: an epoch is granted once and never       *)
(* becomes current again, so a link that was refused stays refused, and a  *)
(* link that is accepted sends the buffers its process owns.               *)
(*                                                                         *)
(* generate_buffer_id: no identity is given out twice in a session.        *)
(***************************************************************************)
EXTENDS LinkSetup, BufferIdGenerator, FiniteSetTheorems, TLAPS

\* What an operation has accepted it still accepts at its exchange, and no
\* epoch beyond the current one has been granted yet.
LifecycleInv ==
  /\ TypeOK
  /\ GrantedOnce
  /\ \A e \in Epochs : e > word.epoch => grants[e] = 0
  /\ \A p \in Processes : call[p].at = "exchange" =>
       Accepts(call[p].op, call[p].epoch, call[p].current)
  /\ \A p \in Processes : call[p].at # "idle" /\ call[p].op = "restart_begin" =>
       call[p].epoch # MaxEpoch

\* What the exchange of an accepted operation writes: a new epoch that is the
\* next one, or a legal state within the old one.
LEMMA DesiredWord ==
  ASSUME NEW op \in Operations, NEW epoch \in Epochs, NEW current \in Words,
         Accepts(op, epoch, current),
         op = "restart_begin" => epoch # MaxEpoch
  PROVE  /\ Desired(op, epoch, current) \in Words
         /\ op \in {"register", "restart_begin"} =>
              /\ Desired(op, epoch, current).epoch = current.epoch + 1
              /\ Desired(op, epoch, current).state # "INACTIVE"
         /\ op \notin {"register", "restart_begin"} =>
              /\ Desired(op, epoch, current).epoch = current.epoch
              /\ \/ /\ current.state # "INACTIVE"
                    /\ Desired(op, epoch, current).state = "INACTIVE"
                 \/ /\ current.state = "RECOVERING"
                    /\ Desired(op, epoch, current).state = "ACTIVE"
<1>1. CASE op = "register"
  BY <1>1, LifecycleAssumption
     DEF Accepts, MayRegister, Desired, Words, Epochs, States, component_lifecycle_make
<1>2. CASE op = "unregister"
  BY <1>2, LifecycleAssumption, Zenon
     DEF Accepts, MayUnregister, Desired, Words, Epochs, States, component_lifecycle_make
<1>3. CASE op = "restart_begin"
  BY <1>3, LifecycleAssumption
     DEF Accepts, MayBegin, Desired, Words, Epochs, States, component_lifecycle_make
<1>4. CASE op = "restart_finish"
  BY <1>4, LifecycleAssumption
     DEF Accepts, MayFinish, Desired, Words, Epochs, States, component_lifecycle_make
<1> QED
  BY <1>1, <1>2, <1>3, <1>4, Zenon DEF Operations

\* The record of a returned call is a call.
LEMMA ReturnedType == Returned \in Calls /\ Returned.at = "idle"
  BY LifecycleAssumption
     DEF Returned, Calls, Operations, Epochs, Words, States, component_lifecycle_make

\* A decision leaves a well-typed call that goes on only if it is accepted.
LEMMA DecideCall ==
  ASSUME LifecycleInv, NEW p \in Processes, call[p].at # "idle", Decide(p, word)
  PROVE  /\ call' \in [Processes -> Calls]
         /\ \A q \in Processes : call'[q].at = "exchange" =>
              Accepts(call'[q].op, call'[q].epoch, call'[q].current)
         /\ \A q \in Processes :
              call'[q].at # "idle" /\ call'[q].op = "restart_begin" =>
                call'[q].epoch # MaxEpoch
<1> DEFINE c == call[p]
           next == IF Accepts(c.op, c.epoch, word)
                   THEN [c EXCEPT !.at = "exchange", !.current = word]
                   ELSE Returned
<1>1. c \in Calls /\ word \in Words
  BY Zenon DEF LifecycleInv, TypeOK
<1>2. call' = [call EXCEPT ![p] = next]
  BY Zenon DEF Decide
<1>3. next \in Calls
  BY <1>1, ReturnedType, Zenon DEF Calls
<1>4. /\ next.at = "exchange" => Accepts(next.op, next.epoch, next.current)
      /\ next.at # "idle" /\ next.op = "restart_begin" => next.epoch # MaxEpoch
  <2>1. CASE Accepts(c.op, c.epoch, word)
    <3>1. /\ next.op = c.op /\ next.epoch = c.epoch /\ next.current = word
      BY <1>1, <2>1, Zenon DEF Calls
    <3> QED
      BY <2>1, <3>1, Zenon DEF LifecycleInv
  <2>2. CASE ~Accepts(c.op, c.epoch, word)
    BY <2>2, ReturnedType, Zenon
  <2> QED
    BY <2>1, <2>2, Zenon
<1> HIDE DEF next
<1>5. \A q \in Processes : call'[q] = IF q = p THEN next ELSE call[q]
  BY <1>2, Zenon DEF LifecycleInv, TypeOK
<1>6. call' \in [Processes -> Calls]
  BY <1>2, <1>3, Zenon DEF LifecycleInv, TypeOK
<1> QED
  BY <1>4, <1>5, <1>6, Zenon DEF LifecycleInv

\* A successful exchange, with the facts about what it writes.
LEMMA ExchangeStep ==
  ASSUME LifecycleInv, NEW p \in Processes, Exchange(p)
  PROVE  /\ word' \in Words
         /\ \/ /\ word'.epoch = word.epoch + 1 /\ word'.state # "INACTIVE"
               /\ grants' = [grants EXCEPT ![word.epoch + 1] = @ + 1]
            \/ /\ word'.epoch = word.epoch
               /\ \/ word.state # "INACTIVE" /\ word'.state = "INACTIVE"
                  \/ word.state = "RECOVERING" /\ word'.state = "ACTIVE"
               /\ grants' = grants
<1>1. /\ call[p].op \in Operations /\ call[p].epoch \in Epochs /\ word \in Words
      /\ word = call[p].current
      /\ Accepts(call[p].op, call[p].epoch, word)
      /\ call[p].op = "restart_begin" => call[p].epoch # MaxEpoch
  BY Zenon DEF LifecycleInv, TypeOK, Calls, Exchange
<1>2. /\ word' = Desired(call[p].op, call[p].epoch, word)
      /\ Grant(call[p].op, word'.epoch)
  BY <1>1, Zenon DEF Exchange
<1>3. CASE call[p].op \in {"register", "restart_begin"}
  <2>1. /\ word' \in Words /\ word'.state # "INACTIVE"
        /\ word'.epoch = word.epoch + 1
    BY <1>1, <1>2, <1>3, DesiredWord
  <2>2. grants' = [grants EXCEPT ![word'.epoch] = @ + 1]
    BY <1>2, <1>3, Zenon DEF Grant
  <2> QED
    BY <2>1, <2>2, Zenon
<1>4. CASE call[p].op \notin {"register", "restart_begin"}
  BY <1>1, <1>2, <1>4, DesiredWord DEF Grant
<1> QED
  BY <1>3, <1>4, Zenon

\* The invariant is inductive.
LEMMA LifecycleStep == LifecycleInv /\ [Next]_vars => LifecycleInv'
<1> SUFFICES ASSUME LifecycleInv, [Next]_vars PROVE LifecycleInv'
  BY Zenon
<1>1. ASSUME NEW p \in Processes, NEW op \in Operations, NEW e \in Epochs, Call(p, op, e)
      PROVE  LifecycleInv'
  <2> DEFINE next == [at |-> "load", op |-> op, epoch |-> e, current |-> call[p].current]
  <2>1. call' = [call EXCEPT ![p] = next]
    BY <1>1, Zenon DEF Call
  <2>2. next \in Calls /\ next.at = "load"
        /\ (next.op = "restart_begin" => next.epoch # MaxEpoch)
    BY <1>1, Zenon DEF LifecycleInv, TypeOK, Calls, Call
  <2> HIDE DEF next
  <2>3. \A q \in Processes : call'[q] = IF q = p THEN next ELSE call[q]
    BY <2>1, Zenon DEF LifecycleInv, TypeOK
  <2>4. call' \in [Processes -> Calls]
    BY <2>1, <2>2, Zenon DEF LifecycleInv, TypeOK
  <2>5. word' = word /\ handle' = handle /\ grants' = grants
    BY <1>1, Zenon DEF Call
  <2> QED
    BY <2>2, <2>3, <2>4, <2>5, Zenon DEF LifecycleInv, TypeOK, GrantedOnce
<1>2. ASSUME NEW p \in Processes, call[p].at # "idle", Decide(p, word),
             UNCHANGED <<word, handle, grants>>
      PROVE  LifecycleInv'
  BY <1>2, DecideCall, Zenon DEF LifecycleInv, TypeOK, GrantedOnce
<1>3. ASSUME NEW p \in Processes, call' = [call EXCEPT ![p] = Returned]
      PROVE  /\ call' \in [Processes -> Calls]
             /\ \A q \in Processes : call'[q].at = "exchange" =>
                  Accepts(call'[q].op, call'[q].epoch, call'[q].current)
             /\ \A q \in Processes :
                  call'[q].at # "idle" /\ call'[q].op = "restart_begin" =>
                    call'[q].epoch # MaxEpoch
  <2>1. \A q \in Processes : call'[q] = IF q = p THEN Returned ELSE call[q]
    BY <1>3, Zenon DEF LifecycleInv, TypeOK
  <2>2. call' \in [Processes -> Calls]
    BY <1>3, ReturnedType, Zenon DEF LifecycleInv, TypeOK
  <2> QED
    BY <2>1, <2>2, ReturnedType, Zenon DEF LifecycleInv
<1>4. ASSUME NEW p \in Processes, Load(p) PROVE LifecycleInv'
  BY <1>2, <1>4, Zenon DEF Load
<1>5. ASSUME NEW p \in Processes, ExchangeFails(p) PROVE LifecycleInv'
  <2>1. CASE call[p].op = "restart_finish"
    BY <1>3, <1>5, <2>1, Zenon DEF ExchangeFails, LifecycleInv, TypeOK, GrantedOnce
  <2>2. CASE call[p].op # "restart_finish"
    BY <1>2, <1>5, <2>2, Zenon DEF ExchangeFails
  <2> QED
    BY <2>1, <2>2, Zenon
<1>6. ASSUME NEW p \in Processes, Exchange(p) PROVE LifecycleInv'
  <2>1. /\ word' \in Words
        /\ \/ /\ word'.epoch = word.epoch + 1
              /\ grants' = [grants EXCEPT ![word.epoch + 1] = @ + 1]
           \/ word'.epoch = word.epoch /\ grants' = grants
    BY <1>6, ExchangeStep, Zenon
  <2>2. /\ word.epoch \in Epochs /\ word'.epoch \in Epochs
        /\ grants \in [Epochs -> Nat]
        /\ \A e \in Epochs : grants[e] <= 1 /\ (e > word.epoch => grants[e] = 0)
    BY <2>1, Zenon DEF LifecycleInv, TypeOK, GrantedOnce, Words
  <2>3. /\ grants' \in [Epochs -> Nat]
        /\ \A e \in Epochs : grants'[e] <= 1 /\ (e > word'.epoch => grants'[e] = 0)
    <3>1. CASE /\ word'.epoch = word.epoch + 1
               /\ grants' = [grants EXCEPT ![word.epoch + 1] = @ + 1]
      <4> DEFINE new == word.epoch + 1
      <4>1. new \in Epochs /\ new > word.epoch /\ word'.epoch = new
        BY <2>2, <3>1 DEF Epochs
      <4>2. grants' = [grants EXCEPT ![new] = 1]
        <5>1. grants[new] = 0
          BY <2>2, <4>1, Zenon
        <5>2. grants' = [grants EXCEPT ![new] = grants[new] + 1]
          BY <3>1, Zenon
        <5> QED
          BY <5>1, <5>2
      <4>3. \A e \in Epochs : e > new => e > word.epoch /\ e # new
        BY <2>2 DEF Epochs
      <4> HIDE DEF new
      <4> QED
        BY <2>2, <4>1, <4>2, <4>3
    <3>2. CASE word'.epoch = word.epoch /\ grants' = grants
      BY <2>2, <3>2, Zenon
    <3> QED
      BY <2>1, <3>1, <3>2, Zenon
  <2>4. handle' \in [Processes -> Epochs]
    <3>1. /\ Desired(call[p].op, call[p].epoch, call[p].current).epoch = word'.epoch
          /\ handle \in [Processes -> Epochs] /\ 0 \in Epochs
      BY <1>6, LifecycleAssumption DEF Exchange, LifecycleInv, TypeOK, Epochs
    <3> QED
      BY <1>6, <2>2, <3>1, Zenon DEF Exchange
  <2>5. call' = [call EXCEPT ![p] = Returned]
    BY <1>6, Zenon DEF Exchange
  <2> QED
    BY <1>3, <2>1, <2>3, <2>4, <2>5, Zenon DEF LifecycleInv, TypeOK, GrantedOnce
<1>7. CASE UNCHANGED vars
  BY <1>7, Zenon DEF vars, LifecycleInv, TypeOK, GrantedOnce
<1> QED
  BY <1>1, <1>4, <1>5, <1>6, <1>7, Zenon DEF Next

\* The invariant holds of every reachable state.
LEMMA LifecycleInvariance == Spec => []LifecycleInv
<1>1. Init => LifecycleInv
  <2> SUFFICES ASSUME Init PROVE LifecycleInv
    BY Zenon
  <2>1. TypeOK
    BY ReturnedType, LifecycleAssumption
       DEF Init, TypeOK, Words, Epochs, States, component_lifecycle_make
  <2> QED
    BY <2>1, ReturnedType DEF Init, LifecycleInv, GrantedOnce
<1> QED
  BY <1>1, LifecycleStep, PTL DEF Spec

\* However many processes register a component, unregister it and begin or
\* finish its restart at once, no epoch is handed out twice: the fence that
\* zipc_component_register and zipc_component_restart_begin establish is
\* unique.
THEOREM EpochsAreUnique == Spec => []GrantedOnce
  BY LifecycleInvariance, PTL DEF LifecycleInv

\* The lifecycle word moves only to the next epoch, or forward within its
\* epoch: an epoch that was left stays fenced.
THEOREM EpochsAdvance == Spec => EpochsNeverReturn
<1> DEFINE Moves ==
      word' # word =>
       \/ word'.epoch = word.epoch + 1 /\ word'.state # "INACTIVE"
       \/ /\ word'.epoch = word.epoch
          /\ \/ word.state # "INACTIVE" /\ word'.state = "INACTIVE"
             \/ word.state = "RECOVERING" /\ word'.state = "ACTIVE"
<1>1. LifecycleInv /\ [Next]_vars => [Moves]_vars
  <2> SUFFICES ASSUME LifecycleInv, Next PROVE Moves
    BY Zenon
  <2>1. ASSUME NEW p \in Processes, Exchange(p) PROVE Moves
    BY <2>1, ExchangeStep, Zenon
  <2> QED
    BY <2>1, Zenon DEF Next, Call, Load, ExchangeFails
<1> QED
  BY <1>1, LifecycleInvariance, PTL DEF Spec, EpochsNeverReturn

(***************************************************************************)
(* Links under the lifecycle.                                              *)
(***************************************************************************)
\* A component that is not inactive has been given an epoch; and the epochs of
\* a link, a claim in progress and a buffer have been current.
LinkInv ==
  /\ LifecycleInv
  /\ word.state # "INACTIVE" => word.epoch # 0
  /\ link # NoEpoch => link \in 0..word.epoch
  /\ claiming # NoEpoch => claiming \in 0..word.epoch
  /\ buffer # NoEpoch => buffer \in 0..word.epoch

\* The lifecycle word only moves forward, in the terms a link looks at.
LEMMA WordMoves ==
  ASSUME LinkInv, [Next]_vars
  PROVE  /\ word \in Words /\ word' \in Words
         /\ word'.epoch >= word.epoch
         /\ word'.epoch = word.epoch /\ word.state = "INACTIVE" => word'.state = "INACTIVE"
         /\ word'.state # "INACTIVE" => word'.epoch # 0
<1>1. word \in Words /\ LifecycleInv /\ LifecycleInv'
      BY LifecycleStep, Zenon DEF LinkInv, LifecycleInv, TypeOK
<1>2. word' \in Words
      BY <1>1, Zenon DEF LifecycleInv, TypeOK
<1>3. CASE word' = word
      BY <1>1, <1>3 DEF LinkInv, Words, Epochs
<1>4. ASSUME NEW p \in Processes, Exchange(p)
      PROVE  \/ word'.epoch = word.epoch + 1
             \/ /\ word'.epoch = word.epoch
                /\ \/ word.state # "INACTIVE" /\ word'.state = "INACTIVE"
                   \/ word.state = "RECOVERING" /\ word'.state = "ACTIVE"
      BY <1>1, <1>4, ExchangeStep, Zenon
<1>5. word' = word \/ \E p \in Processes : Exchange(p)
      BY Zenon DEF Next, Call, Load, ExchangeFails, vars
<1>6. word.epoch \in Nat /\ word'.epoch \in Nat /\ word.state \in States /\ word'.state \in States
      BY <1>1, <1>2 DEF Words, Epochs
<1>7. CASE \E p \in Processes : Exchange(p)
  <2>1. \/ word'.epoch = word.epoch + 1
        \/ /\ word'.epoch = word.epoch
           /\ \/ word.state # "INACTIVE" /\ word'.state = "INACTIVE"
              \/ word.state = "RECOVERING" /\ word'.state = "ACTIVE"
        BY <1>4, <1>7, Zenon
  <2>2. PICK m \in Nat, n \in Nat : m = word.epoch /\ n = word'.epoch
        BY <1>6, Zenon
  <2>3. QED
        BY <1>1, <1>2, <2>1, <2>2 DEF LinkInv
<1>8. QED
      BY <1>3, <1>5, <1>7, Zenon

\* Every step is one of the lifecycle, or leaves it; and a new epoch of a link,
\* a claim or a buffer is the one of that moment or is handed on.
LEMMA SetupSteps ==
  ASSUME LinkInv, [SetupNext]_svars
  PROVE  /\ [Next]_vars
         /\ link' # link => link' = NoEpoch \/ (word' = word /\ link' \in {word.epoch, 0})
         /\ claiming' # claiming =>
              claiming' = NoEpoch \/ (word' = word /\ claiming' \in {link, word.epoch, 0})
         /\ buffer' # buffer => buffer' = NoEpoch \/ (word' = word /\ buffer' = claiming)
<1>1. CASE UNCHANGED svars
      BY <1>1, Zenon DEF svars, setup
<1>2. CASE RegistryNext /\ UNCHANGED <<vars, setup>>
      BY <1>2, Zenon DEF setup
<1>3. CASE Next /\ UNCHANGED <<registry, setup>>
      BY <1>3, Zenon DEF setup
<1>4. ASSUME NEW n \in LinkNames, LinkOpen(n)
      PROVE  /\ UNCHANGED <<vars, claiming, buffer>>
             /\ link' = link \/ link' = word.epoch \/ link' = 0
      BY <1>4, Zenon DEF LinkOpen, LinkEpoch, component_epoch_current, registered_epoch
<1>5. CASE LinkDestroy \/ AllocCheck \/ RecvCheck \/ RecvEpoch \/ Claim
           \/ Send \/ Release \/ Abandon
      BY <1>5, Zenon DEF LinkDestroy, Resting, AllocCheck, RecvCheck, RecvEpoch, Claim, Send, Release,
                  Abandon, registered_epoch, vars
<1>6. CASE LinkNext
  <2>1. CASE \E n \in LinkNames : LinkOpen(n)
        BY <1>4, <2>1, Zenon DEF vars
  <2>2. QED
        BY <1>5, <1>6, <2>1, Zenon DEF LinkNext
<1>7. QED
      BY <1>1, <1>2, <1>3, <1>6, Zenon DEF SetupNext

LEMMA LinkInvariance == SetupSpec => []LinkInv
<1>1. SetupInit => LinkInv
  <2> SUFFICES ASSUME SetupInit PROVE LinkInv
      BY Zenon
  <2>1. LifecycleInv
    <3>1. TypeOK
          BY ReturnedType, LifecycleAssumption
             DEF SetupInit, Init, TypeOK, Words, Epochs, States, component_lifecycle_make
    <3>2. QED
          BY <3>1, ReturnedType DEF SetupInit, Init, LifecycleInv, GrantedOnce
  <2>2. QED
        BY <2>1, Zenon DEF SetupInit, Init, LinkInv, component_lifecycle_make
<1>2. LinkInv /\ [SetupNext]_svars => LinkInv'
  <2> SUFFICES ASSUME LinkInv, [SetupNext]_svars PROVE LinkInv'
      BY Zenon
  <2>1. [Next]_vars
        BY SetupSteps, Zenon
  <2>2. LifecycleInv'
        BY <2>1, LifecycleStep, Zenon DEF LinkInv
  <2>3. PICK m \in Nat, n \in Nat : m = word.epoch /\ n = word'.epoch /\ n >= m
        BY <2>1, WordMoves DEF Words, Epochs
  <2>4. 0..m \subseteq 0..n /\ m \in 0..n /\ 0 \in 0..n
        BY <2>3
  <2>5. /\ link # NoEpoch => link \in 0..m
        /\ claiming # NoEpoch => claiming \in 0..m
        /\ buffer # NoEpoch => buffer \in 0..m
        BY <2>3, Zenon DEF LinkInv
  <2>6. link' # NoEpoch => link' \in 0..n
        BY <2>3, <2>4, <2>5, SetupSteps, Zenon
  <2>7. claiming' # NoEpoch => claiming' \in 0..n
        BY <2>3, <2>4, <2>5, SetupSteps
  <2>8. buffer' # NoEpoch => buffer' \in 0..n
        BY <2>3, <2>4, <2>5, SetupSteps
  <2>9. QED
        BY <2>1, <2>2, <2>3, <2>6, <2>7, <2>8, WordMoves, Zenon DEF LinkInv
<1>3. QED
      BY <1>1, <1>2, PTL DEF SetupSpec

\* A link that a call refused as COMPONENT_STALE is refused for good, whatever
\* sequence of registrations and restarts of the component follows.
THEOREM StaleLinksStay == SetupSpec => StaleLinkStays
<1> DEFINE Refused == (link # NoEpoch /\ link' = link /\ ~Accepted(link)) => ~Accepted(link)'
<1>1. LinkInv /\ [SetupNext]_svars => [Refused]_svars
  <2> SUFFICES ASSUME LinkInv, SetupNext, link # NoEpoch, link' = link, ~Accepted(link)
               PROVE  ~Accepted(link)'
      BY Zenon
  <2>1. [Next]_vars
        BY SetupSteps, Zenon
  <2>2. PICK m \in Nat, n \in Nat : m = word.epoch /\ n = word'.epoch /\ n >= m
        BY <2>1, WordMoves DEF Words, Epochs
  <2>3. link \in 0..m /\ link # 0 /\ ~(m = link /\ word.state # "INACTIVE")
        BY <2>2, Zenon DEF LinkInv, Accepted, component_epoch_current
  <2>4. n = m /\ word.state = "INACTIVE" => word'.state = "INACTIVE"
        BY <2>1, <2>2, WordMoves, Zenon
  <2>5. ~(n = link /\ word'.state # "INACTIVE")
        BY <2>2, <2>3, <2>4
  <2>6. QED
        BY <2>2, <2>3, <2>5, Zenon DEF Accepted, component_epoch_current
<1>2. QED
      BY <1>1, LinkInvariance, PTL DEF SetupSpec, StaleLinkStays

\* A buffer of an epoch that buffer_owned refuses stays refused: its runtime was
\* replaced, and no later registration makes it the owner again.
FencedBufferStays ==
  [][(buffer \notin {NoEpoch, 0} /\ buffer' = buffer /\ ~Owned(buffer))
       => ~Owned(buffer)']_svars

\* A buffer of a runtime that was unregistered or restarted is never owned by
\* its old handle again.
THEOREM FencedBuffersStay == SetupSpec => FencedBufferStays
<1> DEFINE Refused == (buffer \notin {NoEpoch, 0} /\ buffer' = buffer /\ ~Owned(buffer))
                        => ~Owned(buffer)'
<1>1. LinkInv /\ [SetupNext]_svars => [Refused]_svars
  <2> SUFFICES ASSUME LinkInv, SetupNext, buffer \notin {NoEpoch, 0}, buffer' = buffer,
                      ~Owned(buffer)
               PROVE  ~Owned(buffer)'
      BY Zenon
  <2>1. [Next]_vars
        BY SetupSteps, Zenon
  <2>2. PICK m \in Nat, n \in Nat : m = word.epoch /\ n = word'.epoch /\ n >= m
        BY <2>1, WordMoves DEF Words, Epochs
  <2>3. buffer \in 0..m /\ buffer # 0 /\ ~(m = buffer /\ word.state # "INACTIVE")
        BY <2>2, Zenon DEF LinkInv, Owned, registered_epoch
  <2>4. n = m /\ word.state = "INACTIVE" => word'.state = "INACTIVE"
        BY <2>1, <2>2, WordMoves, Zenon
  <2>5. ~(n = buffer /\ word'.state # "INACTIVE")
        BY <2>2, <2>3, <2>4
  <2>6. QED
        BY <2>2, <2>3, <2>5, Zenon DEF Owned, registered_epoch
<1>2. QED
      BY <1>1, LinkInvariance, PTL DEF SetupSpec, FencedBufferStays

(***************************************************************************)
(* generate_buffer_id.                                                     *)
(***************************************************************************)
Labels ==
  {"idle", "load", "enter", "recheck", "sequence", "reserve", "retry", "exhausted",
   "done", "close", "drain", "draw", "reset", "open"}

\* Threads that are counted in active.
Counted == {"recheck", "sequence", "reserve", "retry", "exhausted", "done"}
Inside == {t \in Threads : thread[t].at \in Counted}

\* Threads that have passed the recheck and may use the sequence.
Using == {"sequence", "reserve"}

\* A thread that has closed the gate; once it has drained, the threads inside
\* have not passed the recheck.
Rotates == {"drain", "draw", "reset", "open"}
Drained == {"draw", "reset", "open"}

GeneratorType ==
  /\ gate \in [session : Sessions \cup {0}, rotating : BOOLEAN]
  /\ sequence \in 0..MaxSequence
  /\ thread \in [Threads -> [at : Labels, read : Sessions \cup {0},
                             value : Sessions \cup (0..MaxSequence)]]
  /\ issued \in [Sessions -> [0..MaxSequence-1 -> Nat]]
  /\ started \in [Sessions -> Nat]

ThreadInv(t) ==
  /\ thread[t].at \in {"enter"} \cup Counted => thread[t].read # 0
  /\ thread[t].at \in Using =>
       thread[t].read = gate.session /\ \A u \in Threads : thread[u].at \notin Drained
  /\ thread[t].at = "reserve" => thread[t].value \in 0..MaxSequence-1
  /\ thread[t].at \in {"reset", "open"} => thread[t].value \in Sessions
  /\ thread[t].at = "open" => sequence = 0
  /\ thread[t].at \in Rotates =>
       gate.rotating /\ \A u \in Threads : thread[u].at \in Rotates => u = t

\* The numbers that the current session has not given out yet were given out
\* less often than it was opened.
Unused ==
  gate.session # 0 /\ (\A t \in Threads : thread[t].at # "open") =>
    \A q \in 0..MaxSequence-1 :
      q >= sequence => issued[gate.session][q] < started[gate.session]

GeneratorInductive ==
  /\ GeneratorType
  /\ IsFiniteSet(Inside) /\ active = Cardinality(Inside)
  /\ \A t \in Threads : ThreadInv(t)
  /\ gate.rotating => \E t \in Threads : thread[t].at \in Rotates
  /\ Unused
  /\ IdentitiesUnique

(***************************************************************************)
(* One thread moves.                                                       *)
(***************************************************************************)
ThreadMoves(t, step, r, v) ==
  /\ thread' = [thread EXCEPT ![t] = At(step, r, v)]
  /\ step \in Labels /\ r \in Sessions \cup {0} /\ v \in Sessions \cup (0..MaxSequence)

LEMMA ThreadMovesType ==
  ASSUME GeneratorType, NEW t \in Threads, NEW step, NEW r, NEW v, ThreadMoves(t, step, r, v)
  PROVE  /\ thread' \in [Threads -> [at : Labels, read : Sessions \cup {0},
                                     value : Sessions \cup (0..MaxSequence)]]
         /\ thread'[t].at = step /\ thread'[t].read = r /\ thread'[t].value = v
         /\ \A u \in Threads \ {t} : thread'[u] = thread[u]
BY Zenon DEF ThreadMoves, GeneratorType, At

\* The counter follows the threads inside.
LEMMA CountMoves ==
  ASSUME GeneratorType, IsFiniteSet(Inside), active = Cardinality(Inside),
         NEW t \in Threads, NEW step, NEW r, NEW v, ThreadMoves(t, step, r, v),
         \/ active' = active /\ (thread[t].at \in Counted <=> step \in Counted)
         \/ active' = active + 1 /\ thread[t].at \notin Counted /\ step \in Counted
         \/ active' = active - 1 /\ thread[t].at \in Counted /\ step \notin Counted
  PROVE  IsFiniteSet(Inside') /\ active' = Cardinality(Inside')
<1>1. thread'[t].at = step /\ \A u \in Threads \ {t} : thread'[u] = thread[u]
      BY ThreadMovesType, Zenon
<1>2. CASE active' = active /\ (thread[t].at \in Counted <=> step \in Counted)
  <2>1. Inside' = Inside
        BY <1>1, <1>2 DEF Inside
  <2>2. QED
        BY <1>2, <2>1, Zenon
<1>3. CASE active' = active + 1 /\ thread[t].at \notin Counted /\ step \in Counted
  <2>1. Inside' = Inside \cup {t} /\ t \notin Inside
        BY <1>1, <1>3 DEF Inside
  <2>2. IsFiniteSet(Inside \cup {t}) /\ Cardinality(Inside \cup {t}) = Cardinality(Inside) + 1
        BY <2>1, FS_AddElement, Zenon
  <2>3. QED
        BY <1>3, <2>1, <2>2, Zenon
<1>4. CASE active' = active - 1 /\ thread[t].at \in Counted /\ step \notin Counted
  <2>1. Inside' = Inside \ {t} /\ t \in Inside
        BY <1>1, <1>4 DEF Inside
  <2>2. IsFiniteSet(Inside \ {t}) /\ Cardinality(Inside \ {t}) = Cardinality(Inside) - 1
        BY <2>1, FS_RemoveElement, Zenon
  <2>3. QED
        BY <1>4, <2>1, <2>2, Zenon
<1>5. QED
      BY <1>2, <1>3, <1>4, Zenon

\* What a step of t at a label leaves to check: the thread's own invariant, and
\* that the invariants of the others do not see the step.
LEMMA ThreadsMove ==
  ASSUME GeneratorType, \A u \in Threads : ThreadInv(u),
         NEW t \in Threads, NEW step, NEW r, NEW v, ThreadMoves(t, step, r, v),
         ThreadInv(t)', gate'.session = gate.session, gate'.rotating = gate.rotating,
         sequence' = sequence,
         step \in Rotates => thread[t].at \in Rotates,
         step \in Drained =>
           thread[t].at \in Drained \/ \A u \in Threads : thread[u].at \notin Using,
         step \in Using => \A u \in Threads : thread[u].at \notin Drained
  PROVE  \A u \in Threads : ThreadInv(u)'
<1>1. thread'[t].at = step /\ \A u \in Threads \ {t} : thread'[u] = thread[u]
      BY ThreadMovesType, Zenon
<1>2. SUFFICES ASSUME NEW u \in Threads \ {t}
               PROVE  ThreadInv(u)'
      BY Zenon
<1>3. ThreadInv(u) /\ thread'[u] = thread[u]
      BY <1>1, <1>2, Zenon
<1>4. thread[u].at \in Using => \A w \in Threads : thread'[w].at \notin Drained
      BY <1>1, <1>3, Zenon DEF ThreadInv
<1>5. thread[u].at \in Rotates => \A w \in Threads : thread'[w].at \in Rotates => w = u
      BY <1>1, <1>3, Zenon DEF ThreadInv
<1>6. QED
      BY <1>3, <1>4, <1>5, Zenon DEF ThreadInv

\* A step that leaves the gate, the sequence and the history.
Quiet == UNCHANGED <<gate, sequence, issued, started>>

\* Such a step keeps the invariant when it keeps those of the threads and the
\* counter, and does not end a rotation.
LEMMA QuietStep ==
  ASSUME GeneratorInductive, Quiet,
         NEW t \in Threads, NEW step, NEW r, NEW v, ThreadMoves(t, step, r, v),
         ThreadInv(t)',
         step \in Rotates <=> thread[t].at \in Rotates,
         step = "open" <=> thread[t].at = "open",
         step \in Drained =>
           thread[t].at \in Drained \/ \A u \in Threads : thread[u].at \notin Using,
         step \in Using => \A u \in Threads : thread[u].at \notin Drained,
         \/ active' = active /\ (thread[t].at \in Counted <=> step \in Counted)
         \/ active' = active + 1 /\ thread[t].at \notin Counted /\ step \in Counted
         \/ active' = active - 1 /\ thread[t].at \in Counted /\ step \notin Counted
  PROVE  GeneratorInductive'
<1>1. GeneratorType /\ IsFiniteSet(Inside) /\ active = Cardinality(Inside)
      /\ (\A u \in Threads : ThreadInv(u)) /\ Unused /\ IdentitiesUnique
      BY Zenon DEF GeneratorInductive
<1>2. /\ thread' \in [Threads -> [at : Labels, read : Sessions \cup {0},
                                  value : Sessions \cup (0..MaxSequence)]]
      /\ thread'[t].at = step
      /\ \A u \in Threads \ {t} : thread'[u] = thread[u]
      BY <1>1, ThreadMovesType, Zenon
<1>3. GeneratorType'
      BY <1>1, <1>2, Zenon DEF GeneratorType, Quiet
<1>4. IsFiniteSet(Inside') /\ active' = Cardinality(Inside')
      BY <1>1, CountMoves, Zenon
<1>5. \A u \in Threads : ThreadInv(u)'
      BY <1>1, ThreadsMove, Zenon DEF Quiet
<1>6. gate'.rotating => \E u \in Threads : thread'[u].at \in Rotates
  <2>1. SUFFICES ASSUME gate.rotating
                 PROVE  \E u \in Threads : thread'[u].at \in Rotates
        BY Zenon DEF Quiet
  <2>2. PICK u \in Threads : thread[u].at \in Rotates
        BY <2>1, Zenon DEF GeneratorInductive
  <2>3. QED
        BY <1>2, <2>2, Zenon
<1>7. Unused'
  <2>1. (\A u \in Threads : thread[u].at # "open") <=> (\A u \in Threads : thread'[u].at # "open")
        BY <1>2, Zenon
  <2>2. QED
        BY <1>1, <2>1, Zenon DEF Unused, Quiet
<1>8. IdentitiesUnique'
      BY <1>1, Zenon DEF IdentitiesUnique, Quiet
<1>9. QED
      BY <1>3, <1>4, <1>5, <1>6, <1>7, <1>8, Zenon DEF GeneratorInductive

LEMMA GenerateKeeps ==
  ASSUME GeneratorInductive, NEW t \in Threads, Generate(t)
  PROVE  GeneratorInductive'
<1>1. GeneratorType
      BY Zenon DEF GeneratorInductive
<1>2. ThreadMoves(t, "load", 0, 0)
      BY GeneratorAssumption DEF Generate, ThreadMoves, Labels
<1>3. thread'[t].at = "load"
      BY <1>1, <1>2, ThreadMovesType, Zenon
<1>4. ThreadInv(t)'
      BY <1>3, Zenon DEF ThreadInv, Counted, Using, Rotates
<1>5. QED
      BY <1>2, <1>4, QuietStep, Zenon DEF Generate, Quiet, Counted, Using, Rotates, Drained

LEMMA LoadKeeps ==
  ASSUME GeneratorInductive, NEW t \in Threads, LoadGate(t)
  PROVE  GeneratorInductive'
<1>1. GeneratorType
      BY Zenon DEF GeneratorInductive
<1>2. PICK step \in {"close", "enter"} : step = IF gate.session = 0 THEN "close" ELSE "enter"
      BY Zenon
<1>3. ThreadMoves(t, step, gate.session, 0)
      BY <1>1, <1>2, GeneratorAssumption DEF LoadGate, ThreadMoves, Labels, GeneratorType
<1>4. thread'[t].at = step /\ thread'[t].read = gate.session
      BY <1>1, <1>3, ThreadMovesType
<1>5. ThreadInv(t)'
      BY <1>2, <1>4, Zenon DEF ThreadInv, Counted, Using, Rotates
<1>6. QED
      BY <1>2, <1>3, <1>5, QuietStep, Zenon DEF LoadGate, Quiet, Counted, Using, Rotates, Drained

LEMMA EnterKeeps ==
  ASSUME GeneratorInductive, NEW t \in Threads, Enter(t)
  PROVE  GeneratorInductive'
<1>1. GeneratorType /\ ThreadInv(t)
      BY Zenon DEF GeneratorInductive
<1>2. PICK step \in {"recheck", "load"} :
        /\ Goto(t, step, 0)
        /\ active' = IF step = "recheck" THEN active + 1 ELSE active
      BY Zenon DEF Enter
<1>3. ThreadMoves(t, step, thread[t].read, 0)
      BY <1>1, <1>2, GeneratorAssumption DEF Goto, ThreadMoves, Labels, GeneratorType
<1>4. thread'[t].at = step /\ thread'[t].read = thread[t].read
      BY <1>1, <1>3, ThreadMovesType
<1>5. ThreadInv(t)'
      BY <1>1, <1>2, <1>4, Zenon DEF Enter, ThreadInv, Counted, Using, Rotates
<1>6. QED
      BY <1>2, <1>3, <1>5, QuietStep, Zenon DEF Enter, Quiet, Counted, Using, Rotates, Drained

\* The thread passes the recheck only while the gate is open: no thread rotates.
LEMMA RecheckKeeps ==
  ASSUME GeneratorInductive, NEW t \in Threads, Recheck(t)
  PROVE  GeneratorInductive'
<1>1. GeneratorType /\ \A u \in Threads : ThreadInv(u)
      BY Zenon DEF GeneratorInductive
<1>2. PICK step \in {"sequence", "retry"} :
        step = IF Unchanged(t) THEN "sequence" ELSE "retry"
      BY Zenon
<1>3. ThreadMoves(t, step, thread[t].read, 0)
      BY <1>1, <1>2, GeneratorAssumption DEF Recheck, Goto, ThreadMoves, Labels, GeneratorType
<1>4. /\ thread'[t].at = step /\ thread'[t].read = thread[t].read
      /\ \A u \in Threads \ {t} : thread'[u] = thread[u]
      BY <1>1, <1>3, ThreadMovesType, Zenon
<1>5. step = "sequence" => \A u \in Threads : thread[u].at \notin Drained
      BY <1>1, <1>2, Zenon DEF Unchanged, ThreadInv, Rotates, Drained
<1>6. step = "sequence" => \A u \in Threads : thread'[u].at \notin Drained
      BY <1>4, <1>5, Zenon DEF Drained
<1>7. ThreadInv(t)'
      BY <1>1, <1>2, <1>4, <1>6, Zenon DEF Recheck, Unchanged, ThreadInv, Counted, Using, Rotates
<1>8. QED
      BY <1>2, <1>3, <1>5, <1>7, QuietStep, Zenon DEF Recheck, Quiet, Counted, Using, Rotates, Drained

LEMMA ReadSequenceKeeps ==
  ASSUME GeneratorInductive, NEW t \in Threads, ReadSequence(t)
  PROVE  GeneratorInductive'
<1>1. GeneratorType /\ ThreadInv(t)
      BY Zenon DEF GeneratorInductive
<1>2. PICK step \in {"exhausted", "reserve"}, v \in 0..MaxSequence :
        /\ Goto(t, step, v)
        /\ step = "reserve" => v \in 0..MaxSequence-1
      BY <1>1, GeneratorAssumption DEF ReadSequence, GeneratorType
<1>3. ThreadMoves(t, step, thread[t].read, v)
      BY <1>1, <1>2, Zenon DEF Goto, ThreadMoves, Labels, GeneratorType
<1>4. /\ thread'[t].at = step /\ thread'[t].read = thread[t].read /\ thread'[t].value = v
      /\ \A u \in Threads \ {t} : thread'[u] = thread[u]
      BY <1>1, <1>3, ThreadMovesType
<1>5. \A u \in Threads : thread[u].at \notin Drained
      BY <1>1, Zenon DEF ReadSequence, ThreadInv, Using
<1>6. \A u \in Threads : thread'[u].at \notin Drained
      BY <1>2, <1>4, <1>5, Zenon DEF Drained
<1>7. ThreadInv(t)'
      BY <1>1, <1>2, <1>4, <1>6, Zenon DEF ReadSequence, ThreadInv, Counted, Using, Rotates
<1>8. QED
      BY <1>2, <1>3, <1>5, <1>7, QuietStep, Zenon DEF ReadSequence, Quiet, Counted, Using, Rotates, Drained

LEMMA LeaveKeeps ==
  ASSUME GeneratorInductive, NEW t \in Threads, Leave(t)
  PROVE  GeneratorInductive'
<1>1. GeneratorType
      BY Zenon DEF GeneratorInductive
<1>2. PICK step \in {"load", "close", "idle"} : Goto(t, step, 0)
      BY Zenon DEF Leave
<1>3. ThreadMoves(t, step, thread[t].read, 0)
      BY <1>1, <1>2, GeneratorAssumption DEF Goto, ThreadMoves, Labels, GeneratorType
<1>4. thread'[t].at = step
      BY <1>1, <1>3, ThreadMovesType, Zenon
<1>5. ThreadInv(t)'
      BY <1>2, <1>4, Zenon DEF ThreadInv, Counted, Using, Rotates
<1>6. QED
      BY <1>2, <1>3, <1>5, QuietStep, Zenon DEF Leave, Quiet, Counted, Using, Rotates, Drained

\* The rotation has drained when the counter is zero: no thread is inside.
LEMMA DrainKeeps ==
  ASSUME GeneratorInductive, NEW t \in Threads, Drain(t)
  PROVE  GeneratorInductive'
<1>1. GeneratorType /\ ThreadInv(t)
      BY Zenon DEF GeneratorInductive
<1>2. ThreadMoves(t, "draw", thread[t].read, 0)
      BY <1>1, GeneratorAssumption DEF Drain, Goto, ThreadMoves, Labels, GeneratorType
<1>3. thread'[t].at = "draw" /\ \A u \in Threads \ {t} : thread'[u] = thread[u]
      BY <1>1, <1>2, ThreadMovesType, Zenon
<1>4. Inside = {}
      BY FS_EmptySet, Zenon DEF GeneratorInductive, Drain
<1>5. \A u \in Threads : thread[u].at \notin Using
      BY <1>4, Zenon DEF Inside, Counted, Using
<1>6. ThreadInv(t)'
      BY <1>1, <1>3, Zenon DEF Drain, ThreadInv, Counted, Using, Rotates
<1>7. QED
      BY <1>2, <1>5, <1>6, QuietStep, Zenon DEF Drain, Quiet, Counted, Using, Rotates, Drained

\* The conjuncts of the invariant, for the steps that are not quiet.
LEMMA GeneratorFacts ==
  ASSUME GeneratorInductive
  PROVE  /\ GeneratorType /\ IsFiniteSet(Inside) /\ active = Cardinality(Inside)
         /\ \A u \in Threads : ThreadInv(u)
         /\ Unused /\ IdentitiesUnique
BY Zenon DEF GeneratorInductive

\* The thread that closes the gate found it open: it is the only one to rotate.
LEMMA CloseKeeps ==
  ASSUME GeneratorInductive, NEW t \in Threads, Close(t)
  PROVE  GeneratorInductive'
<1>1. GeneratorType /\ \A u \in Threads : ThreadInv(u)
      BY GeneratorFacts, Zenon
<1>2. CASE Goto(t, "load", 0) /\ UNCHANGED gate
  <2>1. ThreadMoves(t, "load", thread[t].read, 0)
        BY <1>1, <1>2, GeneratorAssumption DEF Goto, ThreadMoves, Labels, GeneratorType
  <2>2. thread'[t].at = "load"
        BY <1>1, <2>1, ThreadMovesType, Zenon
  <2>3. ThreadInv(t)'
        BY <2>2, Zenon DEF ThreadInv, Counted, Using, Rotates
  <2>4. QED
        BY <1>2, <2>1, <2>3, QuietStep, Zenon DEF Close, Quiet, Counted, Using, Rotates, Drained
<1>3. CASE /\ Unchanged(t)
           /\ gate' = [gate EXCEPT !.rotating = TRUE]
           /\ Goto(t, "drain", 0)
  <2>1. ThreadMoves(t, "drain", thread[t].read, 0)
        BY <1>1, <1>3, GeneratorAssumption DEF Goto, ThreadMoves, Labels, GeneratorType
  <2>2. /\ thread' \in [Threads -> [at : Labels, read : Sessions \cup {0},
                                    value : Sessions \cup (0..MaxSequence)]]
        /\ thread'[t].at = "drain"
        /\ \A u \in Threads \ {t} : thread'[u] = thread[u]
        BY <1>1, <2>1, ThreadMovesType, Zenon
  <2>3. \A u \in Threads : thread[u].at \notin Rotates
        BY <1>1, <1>3, Zenon DEF Unchanged, ThreadInv
  <2>4. gate'.rotating /\ gate'.session = gate.session /\ gate' \in [session : Sessions \cup {0}, rotating : BOOLEAN]
        BY <1>1, <1>3, Zenon DEF GeneratorType
  <2>5. GeneratorType'
        BY <1>1, <2>2, <2>4, Zenon DEF GeneratorType, Close
  <2>6. IsFiniteSet(Inside') /\ active' = Cardinality(Inside')
        BY <1>1, <2>1, GeneratorFacts, CountMoves, Zenon DEF Close, Counted
  <2>7. ASSUME NEW u \in Threads PROVE ThreadInv(u)'
    <3>1. CASE u = t
          BY <2>2, <2>3, <2>4, <3>1, Zenon DEF ThreadInv, Counted, Using, Rotates
    <3>2. CASE u # t
      <4>1. ThreadInv(u) /\ thread'[u] = thread[u] /\ thread[u].at \notin Rotates
            BY <1>1, <2>2, <2>3, <3>2, Zenon
      <4>2. \A w \in Threads : thread'[w].at \notin Drained
            BY <2>2, <2>3, Zenon DEF Rotates, Drained
      <4>3. QED
            BY <2>4, <4>1, <4>2, Zenon DEF ThreadInv, Close, Rotates
    <3>3. QED
          BY <3>1, <3>2, Zenon
  <2>8. Unused'
        BY <2>2, <2>3, <2>4, GeneratorFacts, Zenon DEF Unused, Close, Rotates
  <2>9. IdentitiesUnique'
        BY GeneratorFacts, Zenon DEF IdentitiesUnique, Close
  <2>10. \E u \in Threads : thread'[u].at \in Rotates
        BY <2>2, Zenon DEF Rotates
  <2>11. QED
        BY <2>5, <2>6, <2>7, <2>8, <2>9, <2>10, Zenon DEF GeneratorInductive
<1>4. QED
      BY <1>2, <1>3, Zenon DEF Close

LEMMA DrawKeeps ==
  ASSUME GeneratorInductive, NEW t \in Threads, Draw(t)
  PROVE  GeneratorInductive'
<1>1. GeneratorType /\ \A u \in Threads : ThreadInv(u)
      BY GeneratorFacts, Zenon
<1>2. CASE (\E s \in Sessions \ {thread[t].read} : started[s] < MaxStarts /\ Goto(t, "reset", s))
           /\ UNCHANGED gate
  <2>1. PICK s \in Sessions : Goto(t, "reset", s)
        BY <1>2, Zenon
  <2>2. ThreadMoves(t, "reset", thread[t].read, s)
        BY <1>1, <2>1, GeneratorAssumption, Zenon DEF Goto, ThreadMoves, Labels, GeneratorType
  <2>3. /\ thread'[t].at = "reset" /\ thread'[t].value = s
        /\ \A u \in Threads \ {t} : thread'[u] = thread[u]
        BY <1>1, <2>2, ThreadMovesType
  <2>4. ThreadInv(t)'
        BY <1>1, <1>2, <2>1, <2>3, Zenon DEF Draw, ThreadInv, Counted, Using, Rotates
  <2>5. QED
        BY <1>2, <2>2, <2>4, QuietStep, Zenon DEF Draw, Quiet, Counted, Using, Rotates, Drained
<1>3. CASE gate' = [gate EXCEPT !.rotating = FALSE] /\ Goto(t, "idle", 0)
  <2>1. ThreadMoves(t, "idle", thread[t].read, 0)
        BY <1>1, <1>3, GeneratorAssumption DEF Goto, ThreadMoves, Labels, GeneratorType
  <2>2. /\ thread' \in [Threads -> [at : Labels, read : Sessions \cup {0},
                                    value : Sessions \cup (0..MaxSequence)]]
        /\ thread'[t].at = "idle"
        /\ \A u \in Threads \ {t} : thread'[u] = thread[u]
        BY <1>1, <2>1, ThreadMovesType, Zenon
  <2>3. \A u \in Threads \ {t} : thread[u].at \notin Rotates /\ thread[u].at \notin Using
        BY <1>1, Zenon DEF Draw, ThreadInv, Rotates, Drained
  <2>4. ~gate'.rotating /\ gate'.session = gate.session /\ gate' \in [session : Sessions \cup {0}, rotating : BOOLEAN]
        BY <1>1, <1>3, Zenon DEF GeneratorType
  <2>5. GeneratorType'
        BY <1>1, <2>2, <2>4, Zenon DEF GeneratorType, Draw
  <2>6. IsFiniteSet(Inside') /\ active' = Cardinality(Inside')
        BY <1>1, <2>1, GeneratorFacts, CountMoves, Zenon DEF Draw, Counted
  <2>7. ASSUME NEW u \in Threads PROVE ThreadInv(u)'
    <3>1. CASE u = t
          BY <2>2, <3>1, Zenon DEF ThreadInv, Counted, Using, Rotates
    <3>2. CASE u # t
          BY <1>1, <2>2, <2>3, <3>2, Zenon DEF ThreadInv, Using, Rotates
    <3>3. QED
          BY <3>1, <3>2, Zenon
  <2>8. Unused'
    <3>1. \A u \in Threads : thread[u].at # "open"
          BY <2>3, Zenon DEF Draw, Rotates
    <3>2. QED
          BY <2>4, <3>1, GeneratorFacts, Zenon DEF Unused, Draw
  <2>9. IdentitiesUnique'
        BY GeneratorFacts, Zenon DEF IdentitiesUnique, Draw
  <2>10. QED
        BY <2>4, <2>5, <2>6, <2>7, <2>8, <2>9, Zenon DEF GeneratorInductive
<1>4. QED
      BY <1>2, <1>3, Zenon DEF Draw

\* The sequence restarts while no thread uses it.
LEMMA ResetKeeps ==
  ASSUME GeneratorInductive, NEW t \in Threads, ResetSequence(t)
  PROVE  GeneratorInductive'
<1>1. GeneratorType /\ \A u \in Threads : ThreadInv(u)
      BY GeneratorFacts, Zenon
<1>2. thread[t].value \in Sessions /\ gate.rotating
      BY <1>1, Zenon DEF ResetSequence, ThreadInv, Rotates
<1>3. ThreadMoves(t, "open", thread[t].read, thread[t].value)
      BY <1>1, <1>2, Zenon DEF ResetSequence, Goto, ThreadMoves, Labels, GeneratorType
<1>4. /\ thread' \in [Threads -> [at : Labels, read : Sessions \cup {0},
                                  value : Sessions \cup (0..MaxSequence)]]
      /\ thread'[t].at = "open" /\ thread'[t].value = thread[t].value
      /\ \A u \in Threads \ {t} : thread'[u] = thread[u]
      BY <1>1, <1>3, ThreadMovesType, Zenon
<1>5. \A u \in Threads \ {t} : thread[u].at \notin Rotates /\ thread[u].at \notin Using
      BY <1>1, Zenon DEF ResetSequence, ThreadInv, Rotates, Drained
<1>6. GeneratorType'
  <2>1. sequence' \in 0..MaxSequence
        BY GeneratorAssumption DEF ResetSequence
  <2>2. QED
        BY <1>1, <1>4, <2>1, Zenon DEF GeneratorType, ResetSequence
<1>7. IsFiniteSet(Inside') /\ active' = Cardinality(Inside')
      BY <1>1, <1>3, GeneratorFacts, CountMoves, Zenon DEF ResetSequence, Counted
<1>8. ASSUME NEW u \in Threads PROVE ThreadInv(u)'
  <2>1. CASE u = t
        BY <1>2, <1>4, <1>5, <2>1, Zenon DEF ResetSequence, ThreadInv, Counted, Using, Rotates
  <2>2. CASE u # t
        BY <1>1, <1>4, <1>5, <2>2, Zenon DEF ThreadInv, Using, Rotates
  <2>3. QED
        BY <2>1, <2>2, Zenon
<1>9. Unused'
      BY <1>4, Zenon DEF Unused
<1>10. IdentitiesUnique'
      BY GeneratorFacts, Zenon DEF IdentitiesUnique, ResetSequence
<1>11. \E u \in Threads : thread'[u].at \in Rotates
      BY <1>4, Zenon DEF Rotates
<1>12. QED
      BY <1>6, <1>7, <1>8, <1>9, <1>10, <1>11, Zenon DEF GeneratorInductive

\* The new session has been opened once more than any number of it was given out.
LEMMA OpenKeeps ==
  ASSUME GeneratorInductive, NEW t \in Threads, Open(t)
  PROVE  GeneratorInductive'
<1>1. GeneratorType /\ (\A u \in Threads : ThreadInv(u)) /\ IdentitiesUnique
      BY GeneratorFacts, Zenon
<1>2. PICK s \in Sessions : s = thread[t].value
      BY <1>1, Zenon DEF Open, ThreadInv
<1>3. sequence = 0 /\ sequence' = 0
      BY <1>1, Zenon DEF Open, ThreadInv
<1>4. ThreadMoves(t, "load", thread[t].read, 0)
      BY <1>1, GeneratorAssumption DEF Open, Goto, ThreadMoves, Labels, GeneratorType
<1>5. /\ thread' \in [Threads -> [at : Labels, read : Sessions \cup {0},
                                  value : Sessions \cup (0..MaxSequence)]]
      /\ thread'[t].at = "load"
      /\ \A u \in Threads \ {t} : thread'[u] = thread[u]
      BY <1>1, <1>4, ThreadMovesType, Zenon
<1>6. \A u \in Threads \ {t} : thread[u].at \notin Rotates /\ thread[u].at \notin Using
      BY <1>1, Zenon DEF Open, ThreadInv, Rotates, Drained
<1>7. /\ gate'.session = s /\ ~gate'.rotating
      /\ gate' \in [session : Sessions \cup {0}, rotating : BOOLEAN]
      BY <1>2, Zenon DEF Open
<1>8. /\ started' \in [Sessions -> Nat]
      /\ started'[s] = started[s] + 1
      /\ \A z \in Sessions \ {s} : started'[z] = started[z]
      BY <1>1, <1>2 DEF Open, GeneratorType
<1>9. GeneratorType'
      BY <1>1, <1>5, <1>7, <1>8, Zenon DEF GeneratorType, Open
<1>10. IsFiniteSet(Inside') /\ active' = Cardinality(Inside')
      BY <1>1, <1>4, GeneratorFacts, CountMoves, Zenon DEF Open, Counted
<1>11. ASSUME NEW u \in Threads PROVE ThreadInv(u)'
  <2>1. CASE u = t
        BY <1>5, <2>1, Zenon DEF ThreadInv, Counted, Using, Rotates
  <2>2. CASE u # t
        BY <1>1, <1>5, <1>6, <2>2, Zenon DEF ThreadInv, Using, Rotates
  <2>3. QED
        BY <2>1, <2>2, Zenon
<1>12. \A z \in Sessions, q \in 0..MaxSequence-1 :
         /\ issued'[z][q] = issued[z][q] /\ issued[z][q] \in Nat /\ started[z] \in Nat
         /\ issued[z][q] <= started[z]
      BY <1>1, Zenon DEF Open, GeneratorType, IdentitiesUnique
<1>13. Unused'
  <2>1. \A q \in 0..MaxSequence-1 : issued'[s][q] < started'[s]
        BY <1>8, <1>12
  <2>2. QED
        BY <1>7, <2>1, Zenon DEF Unused
<1>14. IdentitiesUnique'
      BY <1>8, <1>12 DEF IdentitiesUnique
<1>15. QED
      BY <1>7, <1>9, <1>10, <1>11, <1>13, <1>14, Zenon DEF GeneratorInductive

\* The number reserved is the next one of the session the gate holds.
LEMMA ReserveKeeps ==
  ASSUME GeneratorInductive, NEW t \in Threads, Reserve(t)
  PROVE  GeneratorInductive'
<1>1. GeneratorType /\ (\A u \in Threads : ThreadInv(u)) /\ Unused /\ IdentitiesUnique
      BY GeneratorFacts, Zenon
<1>2. CASE Goto(t, "retry", 0) /\ UNCHANGED <<sequence, issued>>
  <2>1. ThreadMoves(t, "retry", thread[t].read, 0)
        BY <1>1, <1>2, GeneratorAssumption DEF Goto, ThreadMoves, Labels, GeneratorType
  <2>2. thread'[t].at = "retry" /\ thread'[t].read = thread[t].read
        BY <1>1, <2>1, ThreadMovesType, Zenon
  <2>3. ThreadInv(t)'
        BY <1>1, <2>2, Zenon DEF Reserve, ThreadInv, Counted, Using, Rotates
  <2>4. QED
        BY <1>2, <2>1, <2>3, QuietStep, Zenon DEF Reserve, Quiet, Counted, Using, Rotates, Drained
<1>3. CASE /\ sequence = thread[t].value
           /\ sequence' = sequence + 1
           /\ issued' = [issued EXCEPT ![thread[t].read][sequence] = @ + 1]
           /\ Goto(t, "done", 0)
  <2>1. /\ thread[t].read # 0 /\ thread[t].read = gate.session
        /\ \A u \in Threads : thread[u].at \notin Drained
        BY <1>1, Zenon DEF Reserve, ThreadInv, Counted, Using
  <2>2. PICK s \in Sessions : s = thread[t].read /\ s = gate.session
        BY <1>1, <2>1, Zenon DEF GeneratorType
  <2>3. PICK n \in 0..MaxSequence-1 : n = sequence
        BY <1>1, <1>3, Zenon DEF Reserve, ThreadInv
  <2>4. ThreadMoves(t, "done", thread[t].read, 0)
        BY <1>1, <1>3, GeneratorAssumption DEF Goto, ThreadMoves, Labels, GeneratorType
  <2>5. /\ thread' \in [Threads -> [at : Labels, read : Sessions \cup {0},
                                    value : Sessions \cup (0..MaxSequence)]]
        /\ thread'[t].at = "done" /\ thread'[t].read = thread[t].read
        /\ \A u \in Threads \ {t} : thread'[u] = thread[u]
        BY <1>1, <2>4, ThreadMovesType, Zenon
  <2>6. sequence' = n + 1 /\ sequence' \in 0..MaxSequence
        BY <1>3, <2>3, GeneratorAssumption
  <2>7. /\ issued' \in [Sessions -> [0..MaxSequence-1 -> Nat]]
        /\ issued'[s][n] = issued[s][n] + 1
        /\ \A z \in Sessions, q \in 0..MaxSequence-1 :
             z # s \/ q # n => issued'[z][q] = issued[z][q]
    <3>1. issued' = [issued EXCEPT ![s] = [issued[s] EXCEPT ![n] = issued[s][n] + 1]]
          BY <1>3, <2>2, <2>3, Zenon
    <3>2. issued \in [Sessions -> [0..MaxSequence-1 -> Nat]]
          BY <1>1, Zenon DEF GeneratorType
    <3>3. PICK row \in [0..MaxSequence-1 -> Nat] :
            /\ row = [issued[s] EXCEPT ![n] = issued[s][n] + 1]
            /\ row[n] = issued[s][n] + 1
            /\ \A q \in 0..MaxSequence-1 : q # n => row[q] = issued[s][q]
      <4>1. issued[s] \in [0..MaxSequence-1 -> Nat]
            BY <3>2, Zenon
      <4>2. PICK old \in [0..MaxSequence-1 -> Nat] : old = issued[s]
            BY <4>1, Zenon
      <4>3. [old EXCEPT ![n] = old[n] + 1] \in [0..MaxSequence-1 -> Nat]
            OBVIOUS
      <4>4. QED
            BY <4>2, <4>3, Zenon
    <3>4. QED
          BY <3>1, <3>2, <3>3, Zenon
  <2>8. GeneratorType'
        BY <1>1, <2>5, <2>6, <2>7, Zenon DEF GeneratorType, Reserve
  <2>9. IsFiniteSet(Inside') /\ active' = Cardinality(Inside')
        BY <1>1, <2>4, GeneratorFacts, CountMoves, Zenon DEF Reserve, Counted
  <2>10. \A u \in Threads : thread'[u].at \notin Drained
        BY <2>1, <2>5, Zenon DEF Drained
  <2>11. ASSUME NEW u \in Threads PROVE ThreadInv(u)'
    <3>1. CASE u = t
          BY <2>1, <2>5, <3>1, Zenon DEF ThreadInv, Counted, Using, Rotates
    <3>2. CASE u # t
      <4>1. ThreadInv(u) /\ thread'[u] = thread[u] /\ thread[u].at \notin Drained
            BY <1>1, <2>1, <2>5, <3>2, Zenon
      <4>2. thread[u].at \in Rotates => \A w \in Threads : thread'[w].at \in Rotates => w = u
            BY <2>5, <4>1, Zenon DEF ThreadInv, Rotates
      <4>3. QED
            BY <2>10, <4>1, <4>2, Zenon DEF ThreadInv, Reserve, Drained
    <3>3. QED
          BY <3>1, <3>2, Zenon
  <2>12. gate.rotating => \E u \in Threads : thread'[u].at \in Rotates
    <3>1. SUFFICES ASSUME gate.rotating
                   PROVE  \E u \in Threads : thread'[u].at \in Rotates
          BY Zenon
    <3>2. PICK u \in Threads : thread[u].at \in Rotates
          BY <3>1, Zenon DEF GeneratorInductive
    <3>3. u # t
          BY <3>2, Zenon DEF Reserve, Rotates
    <3>4. QED
          BY <2>5, <3>2, <3>3, Zenon
  <2>13. \A q \in 0..MaxSequence-1 : q >= n => issued[s][q] < started[s]
        BY <1>1, <2>1, <2>2, <2>3, Zenon DEF Unused, Drained
  <2>14. /\ started' = started /\ gate' = gate /\ started \in [Sessions -> Nat]
         /\ \A z \in Sessions, q \in 0..MaxSequence-1 :
              issued[z][q] \in Nat /\ issued[z][q] <= started[z]
        BY <1>1, Zenon DEF Reserve, GeneratorType, IdentitiesUnique
  <2>15. Unused'
    <3>1. \A q \in 0..MaxSequence-1 : q >= n + 1 => issued'[s][q] < started[s]
          BY <2>7, <2>13
    <3>2. QED
          BY <2>2, <2>6, <2>14, <3>1, Zenon DEF Unused
  <2>16. IdentitiesUnique'
    <3>1. issued'[s][n] <= started[s]
          BY <2>7, <2>13, <2>14
    <3>2. QED
          BY <2>7, <2>14, <3>1, Zenon DEF IdentitiesUnique
  <2>17. QED
        BY <2>8, <2>9, <2>11, <2>12, <2>14, <2>15, <2>16, Zenon DEF GeneratorInductive
<1>4. QED
      BY <1>2, <1>3, Zenon DEF Reserve

(***************************************************************************)
(* The theorems.                                                           *)
(***************************************************************************)
LEMMA GeneratorStarts ==
  ASSUME GeneratorInit
  PROVE  GeneratorInductive
<1>1. GeneratorType
      BY GeneratorAssumption DEF GeneratorInit, GeneratorType, At, Labels
<1>2. Inside = {}
      BY Zenon DEF GeneratorInit, Inside, At, Counted
<1>3. IsFiniteSet(Inside) /\ active = Cardinality(Inside)
      BY <1>2, FS_EmptySet, Zenon DEF GeneratorInit
<1>4. \A t \in Threads : ThreadInv(t)
      BY Zenon DEF GeneratorInit, ThreadInv, At, Counted, Using, Rotates
<1>5. Unused
      BY Zenon DEF GeneratorInit, Unused
<1>6. IdentitiesUnique
      BY DEF GeneratorInit, IdentitiesUnique
<1>7. QED
      BY <1>1, <1>3, <1>4, <1>5, <1>6, Zenon DEF GeneratorInductive, GeneratorInit

LEMMA GeneratorStep ==
  ASSUME GeneratorInductive, [GeneratorNext]_generator
  PROVE  GeneratorInductive'
<1>1. CASE UNCHANGED generator
  <2>1. Inside' = Inside
        BY <1>1, Zenon DEF generator, Inside
  <2>2. QED
        BY <1>1, <2>1, Zenon DEF generator, GeneratorInductive, GeneratorType, ThreadInv, Unused,
                          IdentitiesUnique
<1>2. ASSUME NEW t \in Threads, Generate(t) \/ Step(t)
      PROVE  GeneratorInductive'
      BY <1>2, GenerateKeeps, LoadKeeps, EnterKeeps, RecheckKeeps, ReadSequenceKeeps, ReserveKeeps,
         LeaveKeeps, CloseKeeps, DrainKeeps, DrawKeeps, ResetKeeps, OpenKeeps, Zenon DEF Step
<1>3. QED
      BY <1>1, <1>2, Zenon DEF GeneratorNext

\* The invariant of generate_buffer_id: the threads inside are counted, a thread
\* that passed the recheck works on the session the gate holds until it leaves,
\* and one thread at a time rotates.
THEOREM GeneratorInvariance == GeneratorSpec => []GeneratorInductive
<1>1. GeneratorInit => GeneratorInductive
      BY GeneratorStarts, Zenon
<1>2. GeneratorInductive /\ [GeneratorNext]_generator => GeneratorInductive'
      BY GeneratorStep, Zenon
<1>3. QED
      BY <1>1, <1>2, PTL DEF GeneratorSpec

\* However many threads call generate_buffer_id, an identity is returned at most
\* once for each time its session was opened.
THEOREM IdentitiesAreUnique == GeneratorSpec => []IdentitiesUnique
<1>1. GeneratorInductive => IdentitiesUnique
      BY Zenon DEF GeneratorInductive
<1>2. QED
      BY <1>1, GeneratorInvariance, PTL

\* ROTATING is set exactly while one thread rotates.
THEOREM RotationsAreExclusive == GeneratorSpec => []OneRotation
<1>1. ASSUME GeneratorInductive PROVE OneRotation
  <2>1. /\ \A t \in Threads : thread[t].at \in Rotates =>
             gate.rotating /\ \A u \in Threads : thread[u].at \in Rotates => u = t
        /\ gate.rotating => \E t \in Threads : thread[t].at \in Rotates
        BY <1>1, Zenon DEF GeneratorInductive, ThreadInv
  <2>2. CASE gate.rotating
    <3>1. PICK t \in Threads : thread[t].at \in Rotates
          BY <2>1, <2>2, Zenon
    <3>2. {u \in Threads : thread[u].at \in {"drain", "draw", "reset", "open"}} = {t}
          BY <2>1, <3>1, Zenon DEF Rotates
    <3>3. QED
          BY <2>2, <3>2, FS_Singleton, Zenon DEF OneRotation
  <2>3. CASE ~gate.rotating
    <3>1. {u \in Threads : thread[u].at \in {"drain", "draw", "reset", "open"}} = {}
          BY <2>1, <2>3, Zenon DEF Rotates
    <3>2. QED
          BY <2>3, <3>1, FS_EmptySet, Zenon DEF OneRotation
  <2>4. QED
        BY <2>2, <2>3, Zenon
<1>2. QED
      BY <1>1, GeneratorInvariance, PTL
=============================================================================
