-------------------------- MODULE MCBufferWindow --------------------------
EXTENDS BufferWindow, TLC

CONSTANTS P, Q, Shm, Ddr

\* P and Q map Shm, which protects pages of two cells, at different addresses;
\* Ddr has no page protection and is at an odd address in Q.
Mapped ==
    LET shm(base) == [base |-> base, size |-> 14, page |-> 2, caps |-> Capabilities]
        ddr(base) == [base |-> base, size |-> 6, page |-> 0, caps |-> {"READ", "WRITE"}]
    IN  P :> (Shm :> shm(4) @@ Ddr :> ddr(8)) @@ Q :> (Shm :> shm(16) @@ Ddr :> ddr(9))

MCMemory == Mapped

MCConfigs ==
    [control : {Shm, Ddr}, payload : {Shm, Ddr}, control_offset : {0, 2, 10},
     payload_offset : {0, 4, 6, 8}, slot_count : {0, 1, 2}, slot_capacity : {0, 2, 4, 7},
     slot_stride : {0, 3, 4}, payload_alignment : {0, 1, 2, 4},
     guard : BOOLEAN, strict : BOOLEAN]

\* The configurations that normalisation and placement accept in a process,
\* with the header that they stand for; computed once.
Offered ==
    UNION {IF Accepts(p, c) THEN {<<p, Header(p, c), c>>} ELSE {} : p \in Processes, c \in Configs}

\* The deployment gives every process the same payload placement.
Agreed(c) ==
    \A p \in Attached : pool[p].payload = c.payload /\ pool[p].payload_offset = c.payload_offset

\* Bound: every layout is formatted and attached; calls are made in layouts
\* with two neighbouring slots and with the widest window.
Worked ==
    \A p \in Attached :
        /\ pool[p].control = Shm /\ pool[p].control_offset = 0 /\ pool[p].payload_offset = 6
        /\ pool[p].payload_alignment = 2 /\ pool[p].slot_stride = 0
        /\ pool[p].slot_count = 1 <=> pool[p].slot_capacity = 4

\* Bound: the bytes move in the first with every protection and in the second
\* with none, while no call is under way; elsewhere the windows start at 0.
Moving == \A p \in Attached : {pool[p].guard, pool[p].strict} = {pool[p].slot_count = 2}

Settled == \A s \in SlotIds : slot[s].call \in {"none", "lost"}

\* Bound: one slot at a time has bytes that are not 0, so that a byte written
\* past the slot shows, and a window that does not start at 0.
Alone(p, s) ==
    /\ p \in Attached
    /\ \A t \in SlotIds \ {s} : slot[t].offset = 0
    /\ LET own == SlotCells(p, pool[p], s)
       IN  \A x \in DOMAIN bytes : bytes[x] = 0 \/ x \in own

\* Bound: the processes attach before the first call.
Fresh == \A s \in DOMAIN slot : slot[s] = FreeSlot

MCNext ==
    \E p \in Processes :
        \/ /\ Fresh /\ \A x \in DOMAIN bytes : bytes[x] = 0
           /\ \E x \in Offered :
            /\ x[1] = p /\ header \in {NoPool, x[2]}
            /\ Agreed(x[3]) /\ Start(p, x[3])
        \/ /\ Worked
           /\ \E s \in SlotIds :
               \/ Call(p, s) /\ (slot'[s].offset = 0 \/ (Moving /\ Alone(p, s)))
               \/ Moving /\ Settled /\ Alone(p, s) /\ Move(p, s)

MCInputs == {<<1>>, <<1, 1>>}

MCSpec == WindowInit /\ [][MCNext]_vars
=============================================================================
