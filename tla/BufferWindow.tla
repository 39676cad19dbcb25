--------------------------- MODULE BufferWindow ---------------------------
(***************************************************************************)
(* The bytes of the payload and the window on them that the owner of a     *)
(* buffer moves: append, prepend, trim, resize, set_region and the writes  *)
(* that an application makes through zipc_buffer_at.  The window is kept   *)
(* twice, as the region of the slot's control record and as the cached     *)
(* pointer and length of the owner's zipc_buffer_t.                        *)
(***************************************************************************)
EXTENDS PoolMemory

CONSTANTS Inputs,  \* the byte sequences that applications write
          NoView

VARIABLES view,    \* view[s]: the buffer object of the owner of slot s, or NoView
          bytes    \* the payload, by cell

vars == <<memvars, view, bytes>>

ASSUME InputAssumption == Inputs \subseteq Seq(Nat)

AllCells == UNION {Cells(m, 0, Memory[p][m].size) : p \in Processes, m \in MemoryIds}

WindowInit ==
    /\ MemInit
    /\ view = <<>>
    /\ bytes = [x \in AllCells |-> 0]

\* make_view: base and data are offsets in the payload memory.
make_view(p, s, offset, length) ==
    LET base == pool[p].payload_offset + s * header.slot_stride
    IN  [base |-> base, data |-> base + offset, length |-> length]

Viewed(s) == IF slot'[s].state = "OWNED"
             THEN make_view(slot'[s].holder, s, slot'[s].offset, slot'[s].length)
             ELSE NoView

\* The steps that end a call leave the owner, if there is one, with a view.
Ended(s) == view' = [view EXCEPT ![s] = Viewed(s)] /\ UNCHANGED bytes

Owns(p, s) == s \in SlotIds /\ slot[s].state = "OWNED" /\ slot[s].holder = p

headroom(s) == slot[s].offset

tailroom(s) == header.slot_capacity - slot[s].offset - view[s].length

\* zipc_buffer_set_region
Region(p, s, offset, length) ==
    /\ offset =< header.slot_capacity /\ length =< header.slot_capacity - offset
    /\ slot' = [slot EXCEPT ![s].offset = offset, ![s].length = length]
    /\ view' = [view EXCEPT ![s].data = view[s].base + offset, ![s].length = length]
    /\ UNCHANGED <<header, pool, denied>>

\* memcpy of d to the payload offset at, in p's mapping.
Copy(p, at, d) ==
    bytes' = [x \in DOMAIN bytes |->
                IF x \in Cells(pool[p].payload, at, Len(d)) THEN d[x[2] - at + 1] ELSE bytes[x]]

set_region(p, s, offset, length) ==
    Owns(p, s) /\ Region(p, s, offset, length) /\ UNCHANGED bytes

\* append that writes at the start of the window's storage.
append_from_base(p, s, d) ==
    /\ Owns(p, s) /\ Len(d) =< tailroom(s)
    /\ Copy(p, view[s].base + view[s].length, d)
    /\ Region(p, s, slot[s].offset, view[s].length + Len(d))

append(p, s, d) ==
    /\ Owns(p, s) /\ Len(d) =< tailroom(s)
    /\ Copy(p, view[s].data + view[s].length, d)
    /\ Region(p, s, slot[s].offset, view[s].length + Len(d))

\* prepend bounded by the tailroom.
prepend_tail(p, s, d) ==
    /\ Owns(p, s) /\ Len(d) =< tailroom(s)
    /\ Copy(p, view[s].base + slot[s].offset - Len(d), d)
    /\ Region(p, s, 0, view[s].length)

prepend(p, s, d) ==
    /\ Owns(p, s) /\ Len(d) =< headroom(s)
    /\ Copy(p, view[s].base + slot[s].offset - Len(d), d)
    /\ Region(p, s, slot[s].offset - Len(d), view[s].length + Len(d))

trim_front(p, s, n) ==
    /\ Owns(p, s) /\ n =< view[s].length
    /\ Region(p, s, slot[s].offset + n, view[s].length - n)
    /\ UNCHANGED bytes

trim_back(p, s, n) ==
    /\ Owns(p, s) /\ n =< view[s].length
    /\ Region(p, s, slot[s].offset, view[s].length - n)
    /\ UNCHANGED bytes

resize(p, s, n) ==
    /\ Owns(p, s)
    /\ n =< headroom(s) + tailroom(s) + view[s].length
    /\ n =< header.slot_capacity - slot[s].offset
    /\ Region(p, s, slot[s].offset, n)
    /\ UNCHANGED bytes

\* An application writes d at an offset of the storage, from zipc_buffer_at.
write_at(p, s, offset, d) ==
    /\ Owns(p, s)
    /\ offset =< header.slot_capacity /\ Len(d) =< header.slot_capacity - offset
    /\ Copy(p, view[s].base + offset, d)
    /\ UNCHANGED <<memvars, view>>

Start(p, c) ==
    /\ \/ Format(p, c) /\ view' = [s \in DOMAIN slot' |-> NoView]
       \/ Attach(p, c) /\ UNCHANGED view
    /\ UNCHANGED bytes

Call(p, s) ==
    \/ /\ AllocateBegin(p, s) \/ SendBegin(p, s) \/ ClaimBegin(p, s) \/ ReleaseBegin(p, s)
       /\ UNCHANGED <<view, bytes>>
    \/ /\ \/ \E h, n, t \in 0..header.slot_capacity : AllocateEnd(p, s, h, n, t)
          \/ \E q \in Attached : SendEnd(p, s, q)
          \/ ClaimEnd(p, s) \/ ReleaseEnd(p, s)
       /\ Ended(s)

Move(p, s) ==
    \/ \E n \in 0..header.slot_capacity :
        \/ trim_front(p, s, n) \/ trim_back(p, s, n) \/ resize(p, s, n)
        \/ \E o \in 0..header.slot_capacity : set_region(p, s, o, n)
    \/ \E d \in Inputs :
        \/ append(p, s, d) \/ prepend(p, s, d)
        \/ \E o \in 0..header.slot_capacity : write_at(p, s, o, d)

WindowNext ==
    \E p \in Processes :
        \/ \E c \in Configs : Start(p, c)
        \/ \E s \in SlotIds : Call(p, s) \/ Move(p, s)

WindowSpec == WindowInit /\ [][WindowNext]_vars

(***************************************************************************)
(* Properties.                                                             *)
(***************************************************************************)

\* What zipc_pool_attach accepts is a sound layout: the slots lie in the
\* payload memory, apart from each other, from the control records and from
\* every guard page, and no address of them wraps around.
SlotsApart ==
    \A p \in Attached : \A s \in SlotIds :
        LET c == pool[p] IN
        /\ SlotCells(p, c, s) \subseteq Cells(c.payload, 0, Memory[p][c.payload].size)
        /\ Memory[p][c.payload].base + SlotOffset(p, c, s) + c.slot_capacity =< SizeMax
        /\ SlotCells(p, c, s) \cap ControlCells(c) = {}
        /\ \A t \in SlotIds :
            /\ t # s => SlotCells(p, c, s) \cap SlotCells(p, c, t) = {}
            /\ c.guard => SlotCells(p, c, s) \cap GuardCells(p, c, t) = {}

\* The owner of a slot reaches all of it: no guard page and no revocation,
\* its own or left by a failed call, covers a byte of a buffer that a call
\* has handed to the application.
OwnerReaches ==
    \A p \in Attached, s \in SlotIds :
        Owns(p, s) => SlotCells(p, pool[p], s) \cap denied[p] = {}

\* With strict ownership a process that neither owns a slot nor is inside a
\* call on it cannot touch its payload, in every order of the calls of two
\* processes and after every refused mprotect: a pointer kept over a send
\* faults instead of reaching the next owner's data.
StrictExclusion ==
    \A p \in Attached, s \in SlotIds :
        \/ ~pool[p].strict
        \/ slot[s].holder = p /\ slot[s].state \in {"OWNED", "CLAIMING"}
        \/ SlotCells(p, pool[p], s) \subseteq denied[p]

\* The region in the control record and the window in the owner's buffer
\* object are the same one, inside the slot.
WindowCoherent ==
    \A s \in SlotIds : slot[s].state = "OWNED" =>
        /\ slot[s].offset + slot[s].length =< header.slot_capacity
        /\ view[s] = make_view(slot[s].holder, s, slot[s].offset, slot[s].length)

SlotRecord ==
    [state : {"FREE", "CLAIMING", "OWNED", "TRANSFER"}, holder : Processes \cup {NoPool},
     call : {"none", "allocate", "send", "claim", "release", "lost"}, offset : Nat, length : Nat]

\* The inductive invariant behind the properties above.  The attached pools
\* are accepted ones with the header's geometry; nothing is revoked but guard
\* pages and, with strict ownership, slots; a slot stays open to a holder whose
\* send or release may still fail, and closed to one whose claim may.
PoolInductive ==
    /\ pool \in [Processes -> Configs \cup {NoPool}]
    /\ denied \in [Processes -> SUBSET (MemoryIds \X Int)]
    /\ \A p \in Attached :
        /\ Accepts(p, pool[p]) /\ header = Header(p, pool[p])
        /\ denied[p] \subseteq Protected(p, pool[p])
    /\ header # NoPool =>
        /\ slot \in [SlotIds -> SlotRecord]
        /\ DOMAIN view = SlotIds
    /\ \A s \in SlotIds :
        /\ slot[s].offset + slot[s].length =< header.slot_capacity
        /\ slot[s].state \in {"OWNED", "CLAIMING"} => slot[s].holder \in Attached
        /\ \/ slot[s].state = "OWNED"
           \/ slot[s].state = "CLAIMING" /\ slot[s].call \in {"send", "release"}
           => SlotCells(slot[s].holder, pool[slot[s].holder], s) \cap denied[slot[s].holder] = {}
        /\ slot[s].state = "CLAIMING" /\ slot[s].call = "claim" /\ pool[slot[s].holder].strict
           => SlotCells(slot[s].holder, pool[slot[s].holder], s) \subseteq denied[slot[s].holder]
    /\ StrictExclusion
    /\ WindowCoherent

\* An operation on one buffer writes to the cells of that buffer alone.
WritesStay ==
    [][\A p \in Processes : \A s \in SlotIds : bytes' # bytes /\ Move(p, s) =>
          \A x \in DOMAIN bytes :
              bytes'[x] # bytes[x] => x \in SlotCells(p, pool[p], s)]_vars

\* The bytes that the owner of slot s finds between data and data + length.
Content(p, s) ==
    [i \in 1..view[s].length |-> bytes[<<pool[p].payload, view[s].data + i - 1>>]]

\* The window is a double-ended queue: append and prepend put the bytes given
\* at its ends, trims drop from its ends, resize keeps the front, and the
\* bytes that stay in the window keep their values.
WindowIsDeque ==
    [][\A p \in Attached : \A s \in SlotIds : view'[s] # view[s] /\ Owns(p, s) =>
        /\ \A d \in Inputs :
            /\ append(p, s, d) => Content(p, s)' = Content(p, s) \o d
            /\ prepend(p, s, d) => Content(p, s)' = d \o Content(p, s)
        /\ \A n \in 0..header.slot_capacity :
            /\ trim_front(p, s, n) =>
                   Content(p, s)' = SubSeq(Content(p, s), n + 1, view[s].length)
            /\ trim_back(p, s, n) =>
                   Content(p, s)' = SubSeq(Content(p, s), 1, view[s].length - n)
            /\ resize(p, s, n) =>
                   \A i \in 1..n : i =< view[s].length => Content(p, s)'[i] = Content(p, s)[i]]_vars
=============================================================================
