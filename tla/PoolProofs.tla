---------------------------- MODULE PoolProofs ----------------------------
(***************************************************************************)
(* Proofs about pools and windows, for every width of the integer types,   *)
(* every memory and every configuration.  The first part is arithmetic:    *)
(* an accepted configuration keeps its slots, guard pages and control      *)
(* records apart.  The second shows that the protections and the windows   *)
(* respect that layout in every behaviour.                                 *)
(***************************************************************************)
EXTENDS BufferWindow, SequenceTheorems, TLAPS

(***************************************************************************)
(* The layout of an accepted configuration.                                *)
(***************************************************************************)

\* The j-th of the blocks of k cells starts after every earlier one has ended.
LEMMA Blocks ==
    ASSUME NEW i \in Nat, NEW j \in Nat, NEW k \in Nat, i < j
    PROVE  i * k + k =< j * k
<1>1. PICK d \in Nat : j = i + 1 + d
  <2>1. j - i - 1 \in Nat /\ j = i + 1 + (j - i - 1)  OBVIOUS
  <2>2. QED  BY <2>1, Zenon
<1>2. j * k = i * k + k + d * k  BY <1>1
<1>3. d * k \in Nat  OBVIOUS
<1>4. QED  BY <1>2, <1>3

\* What normalize_config leaves of the stride.
LEMMA StrideFacts ==
    ASSUME NEW p \in Processes, NEW c \in Config, Normal(p, c)
    PROVE  /\ Stride(p, c) \in Nat /\ Stride(p, c) >= c.slot_capacity
           /\ c.slot_capacity \in Nat \ {0} /\ c.slot_count \in Nat \ {0}
           /\ c.payload_offset \in Nat /\ c.control_offset \in Nat
           /\ Memory[p][c.payload] \in MemoryObject
           /\ c.guard => Stride(p, c) = c.slot_capacity + Memory[p][c.payload].page
<1>1. /\ c.slot_capacity \in Nat \ {0} /\ c.slot_count \in Nat \ {0}
      /\ c.payload_offset \in Nat /\ c.control_offset \in Nat
      /\ c.payload_alignment \in Nat \ {0} /\ c.slot_stride \in Nat
  BY LayoutAssumption DEF Normal, Config, is_power_of_two
<1>2. Memory[p][c.payload] \in MemoryObject  BY LayoutAssumption DEF Config
<1>3. Stride(p, c) >= c.slot_capacity  BY Zenon DEF Normal
<1>4. align_up_checked(c.slot_capacity, c.payload_alignment) \in Nat
  <2>1. (c.slot_capacity + c.payload_alignment - 1) \div c.payload_alignment \in Nat  BY <1>1
  <2>2. QED  BY <1>1, <2>1 DEF align_up_checked
<1>5. Memory[p][c.payload].page \in Nat  BY <1>2, Zenon DEF MemoryObject
<1>6. Stride(p, c) \in Nat  BY <1>1, <1>4, <1>5 DEF Stride
<1>7. c.guard => Stride(p, c) = c.slot_capacity + Memory[p][c.payload].page
  BY <1>1, <1>3, <1>5 DEF Stride
<1>8. QED  BY <1>1, <1>2, <1>3, <1>6, <1>7, Zenon

\* A slot and the rest of its stride end before the next slot and before the
\* end of the payload range, which fits the memory.
LEMMA SlotBounds ==
    ASSUME NEW p \in Processes, NEW c \in Config, Accepts(p, c),
           NEW s \in 0..(c.slot_count - 1)
    PROVE  /\ SlotOffset(p, c, s) \in Nat /\ SlotOffset(p, c, s) >= c.payload_offset
           /\ \A t \in 0..(c.slot_count - 1) :
                  s < t => SlotOffset(p, c, s) + Stride(p, c) =< SlotOffset(p, c, t)
           /\ SlotOffset(p, c, s) + Stride(p, c) =< c.payload_offset + c.slot_count * Stride(p, c)
<1> DEFINE k == Stride(p, c)
<1>1. Normal(p, c)  BY Zenon DEF Accepts
<1>2. k \in Nat /\ c.payload_offset \in Nat /\ c.slot_count \in Nat  BY <1>1, StrideFacts, Zenon
<1>3. s \in Nat /\ s < c.slot_count  BY <1>2
<1>4. s * k \in Nat  BY <1>2, <1>3
<1>5. s * k + k =< c.slot_count * k  BY <1>2, <1>3, Blocks, Zenon
<1>6. c.slot_count * k \in Nat  BY <1>2
<1>7. ASSUME NEW t \in 0..(c.slot_count - 1), s < t
      PROVE  SlotOffset(p, c, s) + k =< SlotOffset(p, c, t)
  <2>1. t \in Nat  BY <1>2
  <2>2. s * k + k =< t * k  BY <2>1, <1>2, <1>3, <1>7, Blocks, Zenon
  <2>3. t * k \in Nat  BY <2>1, <1>2
  <2>4. QED  BY <2>2, <2>3, <1>2, <1>4 DEF SlotOffset
<1>8. QED  BY <1>2, <1>4, <1>5, <1>6, <1>7 DEF SlotOffset

LEMMA CellsOf ==
    ASSUME NEW m, NEW a \in Int, NEW l \in Int, NEW x
    PROVE  x \in Cells(m, a, l) <=>
               \E o \in Int : x = <<m, o>> /\ a =< o /\ o < a + l
BY DEF Cells

\* Two different slots share no cell.
LEMMA SlotsDisjoint ==
    ASSUME NEW p \in Processes, NEW c \in Config, Accepts(p, c),
           NEW s \in 0..(c.slot_count - 1), NEW t \in 0..(c.slot_count - 1), s # t
    PROVE  SlotCells(p, c, s) \cap SlotCells(p, c, t) = {}
<1>1. Normal(p, c)  BY Zenon DEF Accepts
<1>2. /\ Stride(p, c) \in Nat /\ Stride(p, c) >= c.slot_capacity /\ c.slot_capacity \in Nat
      /\ c.slot_count \in Nat
  BY <1>1, StrideFacts, Zenon
<1>3. SlotOffset(p, c, s) \in Nat /\ SlotOffset(p, c, t) \in Nat  BY SlotBounds, Zenon
<1>4. \/ SlotOffset(p, c, s) + Stride(p, c) =< SlotOffset(p, c, t)
      \/ SlotOffset(p, c, t) + Stride(p, c) =< SlotOffset(p, c, s)
  <2>1. s < t \/ t < s  BY <1>2
  <2>2. QED  BY <2>1, SlotBounds, Zenon
<1>5. SUFFICES ASSUME NEW x \in SlotCells(p, c, s), x \in SlotCells(p, c, t) PROVE FALSE
  BY Zenon
<1>6. PICK o \in Int : x = <<c.payload, o>> /\ SlotOffset(p, c, s) =< o
                       /\ o < SlotOffset(p, c, s) + c.slot_capacity
  BY <1>2, <1>3, CellsOf DEF SlotCells
<1>7. PICK u \in Int : x = <<c.payload, u>> /\ SlotOffset(p, c, t) =< u
                       /\ u < SlotOffset(p, c, t) + c.slot_capacity
  BY <1>2, <1>3, <1>5, CellsOf DEF SlotCells
<1>8. o = u  BY <1>6, <1>7
<1>9. QED  BY <1>2, <1>3, <1>4, <1>6, <1>7, <1>8

\* No guard page covers a cell of a slot.
LEMMA GuardsDisjoint ==
    ASSUME NEW p \in Processes, NEW c \in Config, Accepts(p, c), c.guard,
           NEW s \in 0..(c.slot_count - 1), NEW t \in 0..(c.slot_count - 1)
    PROVE  SlotCells(p, c, s) \cap GuardCells(p, c, t) = {}
<1> DEFINE page == Memory[p][c.payload].page
<1>1. Normal(p, c)  BY Zenon DEF Accepts
<1>2. /\ Stride(p, c) \in Nat /\ Stride(p, c) = c.slot_capacity + page
      /\ c.slot_capacity \in Nat /\ c.slot_count \in Nat /\ page \in Nat
  BY <1>1, StrideFacts, Zenon DEF MemoryObject
<1>3. SlotOffset(p, c, s) \in Nat /\ SlotOffset(p, c, t) \in Nat  BY SlotBounds, Zenon
<1>4. \/ SlotOffset(p, c, s) + Stride(p, c) =< SlotOffset(p, c, t)
      \/ SlotOffset(p, c, t) + Stride(p, c) =< SlotOffset(p, c, s)
      \/ SlotOffset(p, c, t) = SlotOffset(p, c, s)
  <2>1. s < t \/ t < s \/ s = t  BY <1>2
  <2>2. QED  BY <2>1, SlotBounds, Zenon
<1>5. SUFFICES ASSUME NEW x \in SlotCells(p, c, s), x \in GuardCells(p, c, t) PROVE FALSE
  BY Zenon
<1>6. PICK o \in Int : x = <<c.payload, o>> /\ SlotOffset(p, c, s) =< o
                       /\ o < SlotOffset(p, c, s) + c.slot_capacity
  BY <1>2, <1>3, CellsOf DEF SlotCells
<1>7. PICK u \in Int : x = <<c.payload, u>> /\ SlotOffset(p, c, t) + c.slot_capacity =< u
                       /\ u < SlotOffset(p, c, t) + c.slot_capacity + page
  <2>1. SlotOffset(p, c, t) + c.slot_capacity \in Int  BY <1>2, <1>3
  <2>2. QED  BY <2>1, <1>2, <1>5, CellsOf DEF GuardCells
<1>8. o = u  BY <1>6, <1>7
<1>9. QED  BY <1>2, <1>3, <1>4, <1>6, <1>7, <1>8

\* The sizes that the checks work with are the sizes that the pool takes.
LEMMA PlacedFacts ==
    ASSUME NEW p \in Processes, NEW c \in Config, Accepts(p, c)
    PROVE  pool_ranges_valid(p, c, HeaderSize + c.slot_count * ControlSize,
                             c.slot_count * Stride(p, c))
BY Zenon DEF Accepts, Placed, required_control_size, required_payload_size

\* Every slot lies inside the payload memory, at addresses that do not wrap,
\* and apart from the header and the control records.
LEMMA SlotInside ==
    ASSUME NEW p \in Processes, NEW c \in Config, Accepts(p, c),
           NEW s \in 0..(c.slot_count - 1)
    PROVE  /\ SlotCells(p, c, s) \subseteq Cells(c.payload, 0, Memory[p][c.payload].size)
           /\ Memory[p][c.payload].base + SlotOffset(p, c, s) + c.slot_capacity =< SizeMax
           /\ SlotCells(p, c, s) \cap ControlCells(c) = {}
<1> DEFINE size == Memory[p][c.payload].size
           base == Memory[p][c.payload].base
           a    == SlotOffset(p, c, s)
           end  == c.slot_count * Stride(p, c)
           ctl  == HeaderSize + c.slot_count * ControlSize
<1>1. Normal(p, c)  BY Zenon DEF Accepts
<1>2. /\ Stride(p, c) \in Nat /\ Stride(p, c) >= c.slot_capacity
      /\ c.slot_capacity \in Nat /\ c.slot_count \in Nat
      /\ c.payload_offset \in Nat /\ c.control_offset \in Nat
      /\ size \in Nat /\ base \in Nat
  BY <1>1, StrideFacts, Zenon DEF MemoryObject
<1>3. end \in Nat  BY <1>2
<1>4. ctl \in Nat
  <2>1. HeaderSize \in Nat /\ ControlSize \in Nat  BY LayoutAssumption, Zenon
  <2>2. c.slot_count * ControlSize \in Nat  BY <2>1, <1>2
  <2>3. QED  BY <2>1, <2>2
<1>5. SizeMax \in Nat  BY LayoutAssumption, Zenon
<1>6. a \in Nat /\ a >= c.payload_offset /\ a + c.slot_capacity =< c.payload_offset + end
  BY <1>2, <1>3, SlotBounds
<1>7. c.payload_offset + end =< size /\ base + c.payload_offset + end =< SizeMax
  BY PlacedFacts, Zenon DEF pool_ranges_valid, memory_range_fits
<1>8. \A x \in SlotCells(p, c, s) : \E o \in Int : x = <<c.payload, o>> /\ a =< o
                                                  /\ o < a + c.slot_capacity
  BY <1>2, <1>6, CellsOf DEF SlotCells
<1>9. SlotCells(p, c, s) \subseteq Cells(c.payload, 0, size)
  <2>1. SUFFICES ASSUME NEW x \in SlotCells(p, c, s) PROVE x \in Cells(c.payload, 0, size)
    BY Zenon
  <2>2. PICK o \in Int : x = <<c.payload, o>> /\ a =< o /\ o < a + c.slot_capacity
    BY <1>8, Zenon
  <2>3. 0 =< o /\ o < 0 + size  BY <2>2, <1>2, <1>3, <1>6, <1>7
  <2>4. QED  BY <2>2, <2>3, <1>2, CellsOf
<1>10. base + a + c.slot_capacity =< SizeMax  BY <1>2, <1>3, <1>5, <1>6, <1>7
<1>11. SlotCells(p, c, s) \cap ControlCells(c) = {}
  <2>1. SUFFICES ASSUME NEW x \in SlotCells(p, c, s), x \in ControlCells(c) PROVE FALSE
    BY Zenon
  <2>2. PICK o \in Int : x = <<c.payload, o>> /\ a =< o /\ o < a + c.slot_capacity
    BY <1>8, Zenon
  <2>3. PICK u \in Int : x = <<c.control, u>> /\ c.control_offset =< u
                         /\ u < c.control_offset + ctl
    BY <2>1, <1>2, <1>4, CellsOf DEF ControlCells
  <2>4. c.control = c.payload /\ o = u  BY <2>2, <2>3
  <2>5. \/ c.control_offset >= c.payload_offset + end
        \/ c.payload_offset >= c.control_offset + ctl
    BY <2>4, PlacedFacts, Zenon DEF pool_ranges_valid
  <2>6. QED  BY <2>2, <2>3, <2>4, <2>5, <1>2, <1>3, <1>4, <1>6
<1>12. QED  BY <1>9, <1>10, <1>11, Zenon

(***************************************************************************)
(* Protections and windows.                                                *)
(***************************************************************************)

\* Every attached process has the slots of the header.
LEMMA SlotIdsOf ==
    ASSUME PoolInductive, NEW p \in Attached
    PROVE  /\ p \in Processes /\ pool[p] \in Config /\ Accepts(p, pool[p])
           /\ header # NoPool /\ header = Header(p, pool[p])
           /\ SlotIds = 0..(pool[p].slot_count - 1)
           /\ header.slot_capacity = pool[p].slot_capacity
           /\ header.slot_capacity \in Nat
           /\ slot \in [SlotIds -> SlotRecord] /\ DOMAIN view = SlotIds
<1>1. p \in Processes /\ pool[p] \in Configs  BY Zenon DEF Attached, PoolInductive
<1>2. pool[p] \in Config  BY <1>1, LayoutAssumption, Zenon
<1>3. Accepts(p, pool[p]) /\ header = Header(p, pool[p])  BY Zenon DEF PoolInductive
<1>4. header # NoPool  BY <1>1, <1>3, HeaderAssumption, Zenon
<1>5. SlotIds = 0..(pool[p].slot_count - 1) /\ header.slot_capacity = pool[p].slot_capacity
  BY <1>3, <1>4, Zenon DEF SlotIds, Header
<1>6. header.slot_capacity \in Nat
  <2>1. pool[p].slot_capacity \in Nat  BY <1>2, LayoutAssumption DEF Config
  <2>2. QED  BY <2>1, <1>5, Zenon
<1>7. slot \in [SlotIds -> SlotRecord] /\ DOMAIN view = SlotIds  BY <1>4, Zenon DEF PoolInductive
<1>8. QED  BY <1>1, <1>2, <1>3, <1>4, <1>5, <1>6, <1>7, Zenon

\* Cells are pairs of a memory object and an offset.
LEMMA SlotCellsType ==
    ASSUME NEW p \in Processes, NEW c \in Config, Accepts(p, c),
           NEW s \in 0..(c.slot_count - 1)
    PROVE  SlotCells(p, c, s) \subseteq MemoryIds \X Int
<1>1. SlotOffset(p, c, s) \in Int /\ c.slot_capacity \in Int /\ c.payload \in MemoryIds
  BY SlotBounds, LayoutAssumption DEF Config
<1>2. QED  BY <1>1 DEF SlotCells, Cells

\* A process without strict ownership reaches every slot.
LEMMA LooseReaches ==
    ASSUME NEW p \in Processes, NEW c \in Config, Accepts(p, c), ~c.strict,
           NEW D, D \subseteq Protected(p, c), NEW s \in 0..(c.slot_count - 1)
    PROVE  SlotCells(p, c, s) \cap D = {}
<1>1. SUFFICES ASSUME NEW x \in D, x \in SlotCells(p, c, s) PROVE FALSE  BY Zenon
<1>2. c.guard /\ \E t \in 0..(c.slot_count - 1) : x \in GuardCells(p, c, t)
  BY Zenon DEF Protected, apply_guard_pages
<1>3. QED  BY <1>1, <1>2, GuardsDisjoint, Zenon

\* protect_slot changes what one process reaches of one slot.
Untouched(p, s) ==
    \A r \in Attached, t \in SlotIds : r # p \/ t # s =>
        /\ SlotCells(r, pool[r], t) \cap denied[r] = {} =>
               SlotCells(r, pool[r], t) \cap denied'[r] = {}
        /\ SlotCells(r, pool[r], t) \subseteq denied[r] =>
               SlotCells(r, pool[r], t) \subseteq denied'[r]

DeniedOK ==
    /\ denied \in [Processes -> SUBSET (MemoryIds \X Int)]
    /\ \A p \in Attached : denied[p] \subseteq Protected(p, pool[p])

\* What a successful protect_slot does.
LEMMA ProtectSlot ==
    ASSUME PoolInductive, NEW p \in Attached, NEW s \in SlotIds, NEW b \in BOOLEAN,
           denied' = protect_slot(p, s, b), UNCHANGED <<header, pool>>
    PROVE  /\ DeniedOK' /\ Untouched(p, s)
           /\ b => SlotCells(p, pool[p], s) \cap denied'[p] = {}
           /\ ~b /\ pool[p].strict => SlotCells(p, pool[p], s) \subseteq denied'[p]
<1> DEFINE S == SlotCells(p, pool[p], s)
<1>1. /\ p \in Processes /\ pool[p] \in Config /\ Accepts(p, pool[p])
      /\ SlotIds = 0..(pool[p].slot_count - 1)
  BY SlotIdsOf, Zenon
<1>2. S \subseteq MemoryIds \X Int  BY <1>1, SlotCellsType, Zenon
<1>3. denied \in [Processes -> SUBSET (MemoryIds \X Int)]  BY Zenon DEF PoolInductive
<1>4. /\ DOMAIN denied' = Processes
      /\ \A r \in Processes : r # p => denied'[r] = denied[r]
      /\ denied'[p] \in {denied[p], denied[p] \ S, denied[p] \cup S}
      /\ pool[p].strict => denied'[p] = (IF b THEN denied[p] \ S ELSE denied[p] \cup S)
      /\ ~pool[p].strict => denied' = denied
      /\ denied' = [r \in Processes |-> denied'[r]]
  BY <1>1, <1>3, Zenon DEF protect_slot
<1>5. denied' \in [Processes -> SUBSET (MemoryIds \X Int)]
  <2>1. \A r \in Processes : denied'[r] \in SUBSET (MemoryIds \X Int)  BY <1>2, <1>3, <1>4, Zenon
  <2>2. QED  BY <1>4, <2>1, Zenon
<1>6. Attached' = Attached  BY Zenon DEF Attached
<1>7. \A r \in Attached : denied'[r] \subseteq Protected(r, pool[r])
  <2>1. SUFFICES ASSUME NEW r \in Attached PROVE denied'[r] \subseteq Protected(r, pool[r])
    BY Zenon
  <2>2. r \in Processes /\ denied[r] \subseteq Protected(r, pool[r])
    BY Zenon DEF PoolInductive, Attached
  <2>3. CASE r # p  BY <1>4, <2>2, <2>3, Zenon
  <2>4. CASE r = p /\ ~pool[p].strict  BY <1>4, <2>2, <2>4, Zenon
  <2>5. CASE r = p /\ pool[p].strict
    <3>1. S \subseteq Protected(p, pool[p])  BY <1>1, <2>5, Zenon DEF Protected
    <3>2. QED  BY <1>4, <2>2, <2>5, <3>1, Zenon
  <2>6. QED  BY <2>3, <2>4, <2>5, Zenon
<1>8. DeniedOK'
  <2>1. \A r \in Attached' : denied'[r] \subseteq Protected(r, pool'[r])  BY <1>6, <1>7, Zenon
  <2>2. QED  BY <1>5, <2>1, Zenon DEF DeniedOK, Protected, apply_guard_pages
<1>9. Untouched(p, s)
  <2>1. SUFFICES ASSUME NEW r \in Attached, NEW t \in SlotIds, r # p \/ t # s
                 PROVE  /\ SlotCells(r, pool[r], t) \cap denied[r] = {} =>
                              SlotCells(r, pool[r], t) \cap denied'[r] = {}
                        /\ SlotCells(r, pool[r], t) \subseteq denied[r] =>
                              SlotCells(r, pool[r], t) \subseteq denied'[r]
    BY Zenon DEF Untouched
  <2>2. CASE r # p  BY <1>4, <2>2, Zenon DEF Attached
  <2>3. CASE r = p /\ t # s
    <3>1. SlotCells(p, pool[p], t) \cap S = {}  BY <1>1, <2>3, SlotsDisjoint, Zenon
    <3>2. QED  BY <1>4, <2>3, <3>1, Zenon
  <2>4. QED  BY <2>1, <2>2, <2>3, Zenon
<1>10. b => S \cap denied'[p] = {}
  <2>1. CASE pool[p].strict  BY <1>4, <2>1, Zenon
  <2>2. CASE ~pool[p].strict
    <3>1. denied'[p] \subseteq Protected(p, pool[p])  BY <1>7, Zenon
    <3>2. QED  BY <1>1, <2>2, <3>1, LooseReaches, Zenon
  <2>3. QED  BY <2>1, <2>2, Zenon
<1>11. ~b /\ pool[p].strict => S \subseteq denied'[p]  BY <1>4, Zenon
<1>12. QED  BY <1>8, <1>9, <1>10, <1>11, Zenon

\* When mprotect refuses, or is not called, nothing changes.
LEMMA ProtectNothing ==
    ASSUME PoolInductive, NEW p, NEW s, UNCHANGED <<header, pool, denied>>
    PROVE  DeniedOK' /\ Untouched(p, s)
<1>1. Attached' = Attached  BY Zenon DEF Attached
<1>2. DeniedOK  BY Zenon DEF PoolInductive, DeniedOK
<1>3. DeniedOK'
  <2>1. \A r \in Attached' : denied'[r] \subseteq Protected(r, pool'[r])
    BY <1>1, <1>2, Zenon DEF DeniedOK
  <2>2. QED  BY <1>2, <2>1, Zenon DEF DeniedOK, Protected, apply_guard_pages
<1>4. QED  BY <1>3, Zenon DEF Untouched

\* What a step of p on slot s has to leave behind for the invariant to hold.
SlotLeft(p, s) ==
    /\ slot' \in [SlotIds -> SlotRecord] /\ DOMAIN view' = SlotIds
    /\ \A t \in SlotIds : t # s => slot'[t] = slot[t] /\ view'[t] = view[t]
    /\ slot'[s].state \in {"OWNED", "CLAIMING"} => slot'[s].holder = p
    /\ \/ slot'[s].state = "OWNED"
       \/ slot'[s].state = "CLAIMING" /\ slot'[s].call \in {"send", "release"}
       => SlotCells(p, pool[p], s) \cap denied'[p] = {}
    /\ slot'[s].state = "CLAIMING" /\ slot'[s].call = "claim" /\ pool[p].strict
       => SlotCells(p, pool[p], s) \subseteq denied'[p]
    /\ \/ ~pool[p].strict
       \/ slot'[s].holder = p /\ slot'[s].state \in {"OWNED", "CLAIMING"}
       \/ SlotCells(p, pool[p], s) \subseteq denied'[p]
    /\ slot'[s].offset + slot'[s].length =< header.slot_capacity
    /\ slot'[s].state = "OWNED" => view'[s] = make_view(p, s, slot'[s].offset, slot'[s].length)

\* A step of p on a slot that no other process holds keeps the invariant.
LEMMA SlotStep ==
    ASSUME PoolInductive, NEW p \in Attached, NEW s \in SlotIds,
           UNCHANGED <<header, pool>>, DeniedOK', Untouched(p, s), SlotLeft(p, s),
           slot[s].holder = p \/ slot[s].state \in {"FREE", "TRANSFER"}
    PROVE  PoolInductive'
<1>1. Attached' = Attached /\ SlotIds' = SlotIds  BY Zenon DEF Attached, SlotIds
<1>2. \A r \in Processes, t \in SlotIds : SlotCells(r, pool[r], t)' = SlotCells(r, pool[r], t)
  BY Zenon DEF SlotCells, SlotOffset
<1>3. pool' \in [Processes -> Configs \cup {NoPool}]  BY Zenon DEF PoolInductive
<1>4. \A r \in Attached' : /\ Accepts(r, pool'[r]) /\ header' = Header(r, pool'[r])
                           /\ denied'[r] \subseteq Protected(r, pool'[r])
  BY <1>1, Zenon DEF PoolInductive, DeniedOK
<1>5. \A t \in SlotIds :
        /\ slot'[t].offset + slot'[t].length =< header.slot_capacity
        /\ slot'[t].state \in {"OWNED", "CLAIMING"} => slot'[t].holder \in Attached
        /\ \/ slot'[t].state = "OWNED"
           \/ slot'[t].state = "CLAIMING" /\ slot'[t].call \in {"send", "release"}
           => SlotCells(slot'[t].holder, pool[slot'[t].holder], t) \cap denied'[slot'[t].holder] = {}
        /\ slot'[t].state = "CLAIMING" /\ slot'[t].call = "claim" /\ pool[slot'[t].holder].strict
           => SlotCells(slot'[t].holder, pool[slot'[t].holder], t) \subseteq denied'[slot'[t].holder]
  <2>1. SUFFICES ASSUME NEW t \in SlotIds
        PROVE  /\ slot'[t].offset + slot'[t].length =< header.slot_capacity
               /\ slot'[t].state \in {"OWNED", "CLAIMING"} => slot'[t].holder \in Attached
               /\ \/ slot'[t].state = "OWNED"
                  \/ slot'[t].state = "CLAIMING" /\ slot'[t].call \in {"send", "release"}
                  => SlotCells(slot'[t].holder, pool[slot'[t].holder], t)
                        \cap denied'[slot'[t].holder] = {}
               /\ slot'[t].state = "CLAIMING" /\ slot'[t].call = "claim"
                  /\ pool[slot'[t].holder].strict
                  => SlotCells(slot'[t].holder, pool[slot'[t].holder], t)
                        \subseteq denied'[slot'[t].holder]
    BY Zenon
  <2>2. CASE t = s  BY <2>2, Zenon DEF SlotLeft
  <2>3. CASE t # s
    <3>1. slot'[t] = slot[t]  BY <2>3, Zenon DEF SlotLeft
    <3>2. QED  BY <2>3, <3>1, Zenon DEF PoolInductive, Untouched
  <2>4. QED  BY <2>2, <2>3, Zenon
<1>6. \A r \in Attached, t \in SlotIds :
        \/ ~pool[r].strict
        \/ slot'[t].holder = r /\ slot'[t].state \in {"OWNED", "CLAIMING"}
        \/ SlotCells(r, pool[r], t) \subseteq denied'[r]
  <2>1. SUFFICES ASSUME NEW r \in Attached, NEW t \in SlotIds, pool[r].strict,
                        ~(slot'[t].holder = r /\ slot'[t].state \in {"OWNED", "CLAIMING"})
                 PROVE  SlotCells(r, pool[r], t) \subseteq denied'[r]
    BY Zenon
  <2>2. CASE t = s /\ r = p  BY <2>1, <2>2, Zenon DEF SlotLeft
  <2>3. CASE t # s
    <3>1. slot'[t] = slot[t]  BY <2>3, Zenon DEF SlotLeft
    <3>2. SlotCells(r, pool[r], t) \subseteq denied[r]
      BY <2>1, <3>1, Zenon DEF PoolInductive, StrictExclusion
    <3>3. QED  BY <2>3, <3>2, Zenon DEF Untouched
  <2>4. CASE t = s /\ r # p
    <3>1. SlotCells(r, pool[r], t) \subseteq denied[r]
      BY <2>1, <2>4, Zenon DEF PoolInductive, StrictExclusion
    <3>2. QED  BY <2>4, <3>1, Zenon DEF Untouched
  <2>5. QED  BY <2>2, <2>3, <2>4, Zenon
<1>7. \A t \in SlotIds : slot'[t].state = "OWNED" =>
        /\ slot'[t].offset + slot'[t].length =< header.slot_capacity
        /\ view'[t] = make_view(slot'[t].holder, t, slot'[t].offset, slot'[t].length)
  <2>1. SUFFICES ASSUME NEW t \in SlotIds, slot'[t].state = "OWNED"
        PROVE view'[t] = make_view(slot'[t].holder, t, slot'[t].offset, slot'[t].length)
    BY <1>5, Zenon
  <2>2. CASE t = s  BY <2>1, <2>2, Zenon DEF SlotLeft
  <2>3. CASE t # s  BY <2>1, <2>3, Zenon DEF SlotLeft, PoolInductive, WindowCoherent
  <2>4. QED  BY <2>2, <2>3, Zenon
<1>8. StrictExclusion'  BY <1>1, <1>2, <1>6, Zenon DEF StrictExclusion, Attached
<1>9. WindowCoherent'  BY <1>1, <1>7, Zenon DEF WindowCoherent, make_view
<1>10. slot' \in [SlotIds' -> SlotRecord] /\ DOMAIN view' = SlotIds'  BY <1>1, Zenon DEF SlotLeft
<1>11. \A t \in SlotIds' :
        /\ slot'[t].offset + slot'[t].length =< header'.slot_capacity
        /\ slot'[t].state \in {"OWNED", "CLAIMING"} => slot'[t].holder \in Attached'
        /\ \/ slot'[t].state = "OWNED"
           \/ slot'[t].state = "CLAIMING" /\ slot'[t].call \in {"send", "release"}
           => SlotCells(slot'[t].holder, pool'[slot'[t].holder], t) \cap denied'[slot'[t].holder] = {}
        /\ slot'[t].state = "CLAIMING" /\ slot'[t].call = "claim" /\ pool'[slot'[t].holder].strict
           => SlotCells(slot'[t].holder, pool'[slot'[t].holder], t) \subseteq denied'[slot'[t].holder]
  BY <1>1, <1>5, Zenon
<1>12. denied' \in [Processes -> SUBSET (MemoryIds \X Int)]  BY Zenon DEF DeniedOK
<1>13. QED
  BY <1>3, <1>4, <1>8, <1>9, <1>10, <1>11, <1>12, Zenon
  DEF PoolInductive, Accepts, Protected, apply_guard_pages

\* The claim with which a call begins.
LEMMA BeginStep ==
    ASSUME PoolInductive, NEW p \in Processes, NEW s \in SlotIds,
           AllocateBegin(p, s) \/ SendBegin(p, s) \/ ClaimBegin(p, s) \/ ReleaseBegin(p, s),
           UNCHANGED <<view, bytes>>
    PROVE  PoolInductive'
<1>1. PICK from \in {"FREE", "OWNED", "TRANSFER"}, call \in {"allocate", "send", "claim", "release"} :
        /\ Begin(p, s, from, call)
        /\ from = "OWNED" => slot[s].holder = p
        /\ call \in {"send", "release"} => from = "OWNED"
        /\ call = "claim" => from = "TRANSFER"
        /\ UNCHANGED <<header, pool, denied>>
  BY Zenon DEF AllocateBegin, SendBegin, ClaimBegin, ReleaseBegin
<1>2. p \in Attached  BY <1>1, Zenon DEF Begin
<1>3. slot \in [SlotIds -> SlotRecord] /\ DOMAIN view = SlotIds  BY <1>2, SlotIdsOf, Zenon
<1>4. /\ slot' = [slot EXCEPT ![s].state = "CLAIMING", ![s].call = call, ![s].holder = p]
      /\ slot[s].state = from
  BY <1>1, Zenon DEF Begin
<1>5. slot' \in [SlotIds -> SlotRecord]
  <2> DEFINE new == [slot[s] EXCEPT !.state = "CLAIMING", !.call = call, !.holder = p]
  <2>1. new \in SlotRecord  BY <1>3, Zenon DEF SlotRecord
  <2>2. slot' = [slot EXCEPT ![s] = new]  BY <1>3, <1>4, Zenon
  <2> HIDE DEF new
  <2>3. QED  BY <1>3, <2>1, <2>2, Zenon
<1>6. /\ slot'[s].state = "CLAIMING" /\ slot'[s].call = call /\ slot'[s].holder = p
      /\ slot'[s].offset = slot[s].offset /\ slot'[s].length = slot[s].length
      /\ \A t \in SlotIds : t # s => slot'[t] = slot[t]
  BY <1>3, <1>4 DEF SlotRecord
<1>7. call \in {"send", "release"} => SlotCells(p, pool[p], s) \cap denied'[p] = {}
  BY <1>1, <1>4, Zenon DEF PoolInductive
<1>8. slot[s].offset + slot[s].length =< header.slot_capacity  BY Zenon DEF PoolInductive
<1>9. call = "claim" /\ pool[p].strict => SlotCells(p, pool[p], s) \subseteq denied'[p]
  BY <1>1, <1>2, <1>4, Zenon DEF PoolInductive, StrictExclusion
<1>10. SlotLeft(p, s)  BY <1>3, <1>5, <1>6, <1>7, <1>8, <1>9, Zenon DEF SlotLeft
<1>11. DeniedOK' /\ Untouched(p, s)  BY <1>1, ProtectNothing, Zenon
<1>12. QED  BY <1>1, <1>2, <1>4, <1>10, <1>11, SlotStep, Zenon

\* The step that ends a call: what it makes of the slot is OWNED by p with the
\* payload open, or it is out of p's hands with the payload revoked.
LEMMA EndStep ==
    ASSUME PoolInductive, NEW p \in Attached, NEW s \in SlotIds, Ended(s),
           slot[s].state = "CLAIMING", slot[s].holder = p,
           UNCHANGED <<header, pool>>, DeniedOK', Untouched(p, s),
           NEW new \in SlotRecord, slot' = [slot EXCEPT ![s] = new],
           new.offset + new.length =< header.slot_capacity,
           \/ /\ new.state = "OWNED" /\ new.holder = p
              /\ SlotCells(p, pool[p], s) \cap denied'[p] = {}
           \/ /\ \/ new.state \in {"FREE", "TRANSFER"}
                 \/ new.state = "CLAIMING" /\ new.call = "lost" /\ new.holder = p
              /\ pool[p].strict => SlotCells(p, pool[p], s) \subseteq denied'[p]
    PROVE  PoolInductive'
<1>1. slot \in [SlotIds -> SlotRecord] /\ DOMAIN view = SlotIds  BY SlotIdsOf, Zenon
<1>2. slot' \in [SlotIds -> SlotRecord] /\ slot'[s] = new
      /\ \A t \in SlotIds : t # s => slot'[t] = slot[t]
  BY <1>1, Zenon
<1>3. DOMAIN view' = SlotIds /\ view'[s] = Viewed(s)
      /\ \A t \in SlotIds : t # s => view'[t] = view[t]
  BY <1>1, Zenon DEF Ended
<1>4. new.state = "OWNED" => view'[s] = make_view(p, s, slot'[s].offset, slot'[s].length)
  BY <1>2, <1>3, Zenon DEF Viewed
<1>5. SlotLeft(p, s)  BY <1>2, <1>3, <1>4, Zenon DEF SlotLeft
<1>6. QED  BY <1>5, SlotStep, Zenon

LEMMA AllocateEndStep ==
    ASSUME PoolInductive, NEW p \in Processes, NEW s \in SlotIds, Ended(s),
           NEW h \in 0..header.slot_capacity, NEW n \in 0..header.slot_capacity,
           NEW t \in 0..header.slot_capacity, AllocateEnd(p, s, h, n, t)
    PROVE  PoolInductive'
<1>1. /\ slot[s].state = "CLAIMING" /\ slot[s].holder = p /\ UNCHANGED <<header, pool>>
      /\ h + n + t =< header.slot_capacity
  BY Zenon DEF AllocateEnd, InCall, Fits
<1>2. p \in Attached  BY <1>1, Zenon DEF PoolInductive
<1>3. header.slot_capacity \in Nat /\ slot \in [SlotIds -> SlotRecord]  BY <1>2, SlotIdsOf, Zenon
<1>4. CASE /\ denied' = protect_slot(p, s, TRUE)
           /\ slot' = [slot EXCEPT ![s] = [state |-> "OWNED", holder |-> p, call |-> "none",
                                           offset |-> h, length |-> n]]
  <2> DEFINE new == [state |-> "OWNED", holder |-> p, call |-> "none",
                     offset |-> h, length |-> n]
  <2>1. /\ DeniedOK' /\ Untouched(p, s)
        /\ SlotCells(p, pool[p], s) \cap denied'[p] = {}
    BY <1>1, <1>2, <1>4, ProtectSlot, Zenon
  <2>2. new \in SlotRecord /\ new.offset + new.length =< header.slot_capacity
    BY <1>1, <1>3 DEF SlotRecord
  <2>3. new.state = "OWNED" /\ new.holder = p  BY Zenon
  <2>4. slot' = [slot EXCEPT ![s] = new]  BY <1>4, Zenon
  <2> HIDE DEF new
  <2>5. QED  BY <1>1, <1>2, <2>1, <2>2, <2>3, <2>4, EndStep, Zenon
<1>5. CASE denied' = protect_slot(p, s, FALSE) /\ slot' = [slot EXCEPT ![s] = FreeSlot]
  <2>1. /\ DeniedOK' /\ Untouched(p, s)
        /\ pool[p].strict => SlotCells(p, pool[p], s) \subseteq denied'[p]
    BY <1>1, <1>2, <1>5, ProtectSlot, Zenon
  <2>2. /\ FreeSlot \in SlotRecord /\ FreeSlot.offset + FreeSlot.length =< header.slot_capacity
        /\ FreeSlot.state = "FREE"
    BY <1>3 DEF SlotRecord, FreeSlot
  <2>3. QED  BY <1>1, <1>2, <1>5, <2>1, <2>2, EndStep, Zenon
<1>6. QED  BY <1>4, <1>5, Zenon DEF AllocateEnd

\* A call that succeeds or gives up publishes OWNED or TRANSFER.
LEMMA PublishStep ==
    ASSUME PoolInductive, NEW p \in Processes, NEW s \in SlotIds, Ended(s),
           slot[s].state = "CLAIMING", slot[s].holder = p, UNCHANGED <<header, pool>>,
           NEW state \in {"OWNED", "TRANSFER"}, NEW holder \in Processes,
           Publish(s, state, holder), DeniedOK', Untouched(p, s),
           state = "OWNED" =>
               holder = p /\ SlotCells(p, pool[p], s) \cap denied'[p] = {},
           state = "TRANSFER" /\ pool[p].strict => SlotCells(p, pool[p], s) \subseteq denied'[p]
    PROVE  PoolInductive'
<1> DEFINE new == [slot[s] EXCEPT !.state = state, !.call = "none", !.holder = holder]
<1>1. p \in Attached  BY Zenon DEF PoolInductive
<1>2. slot \in [SlotIds -> SlotRecord]  BY <1>1, SlotIdsOf, Zenon
<1>3. slot' = [slot EXCEPT ![s] = new]  BY <1>2, Zenon DEF Publish
<1>4. slot[s].offset + slot[s].length =< header.slot_capacity  BY Zenon DEF PoolInductive
<1>5. /\ new \in SlotRecord /\ new.state = state /\ new.holder = holder
      /\ new.offset = slot[s].offset /\ new.length = slot[s].length
  <2>1. slot[s] \in SlotRecord  BY <1>2, Zenon
  <2>2. QED  BY <2>1, Zenon DEF SlotRecord
<1> HIDE DEF new
<1>6. QED  BY <1>1, <1>3, <1>4, <1>5, EndStep, Zenon

\* A call that fails for good or releases leaves the slot free.
LEMMA FreeStep ==
    ASSUME PoolInductive, NEW p \in Processes, NEW s \in SlotIds, Ended(s),
           slot[s].state = "CLAIMING", slot[s].holder = p, UNCHANGED <<header, pool>>,
           slot' = [slot EXCEPT ![s] = FreeSlot], DeniedOK', Untouched(p, s),
           pool[p].strict => SlotCells(p, pool[p], s) \subseteq denied'[p]
    PROVE  PoolInductive'
<1>1. p \in Attached  BY Zenon DEF PoolInductive
<1>2. header.slot_capacity \in Nat  BY <1>1, SlotIdsOf, Zenon
<1>3. /\ FreeSlot \in SlotRecord /\ FreeSlot.offset + FreeSlot.length =< header.slot_capacity
      /\ FreeSlot.state = "FREE"
  BY <1>2 DEF SlotRecord, FreeSlot
<1>4. QED  BY <1>1, <1>3, EndStep, Zenon

LEMMA SendEndStep ==
    ASSUME PoolInductive, NEW p \in Processes, NEW s \in SlotIds, Ended(s),
           NEW q \in Attached, SendEnd(p, s, q)
    PROVE  PoolInductive'
<1>1. /\ slot[s].state = "CLAIMING" /\ slot[s].holder = p /\ slot[s].call = "send"
      /\ UNCHANGED <<header, pool>>
  BY Zenon DEF SendEnd, InCall
<1>2. p \in Attached /\ q \in Processes  BY <1>1, Zenon DEF PoolInductive, Attached
<1>3. SlotCells(p, pool[p], s) \cap denied[p] = {}  BY <1>1, Zenon DEF PoolInductive
<1>4. CASE denied' = protect_slot(p, s, FALSE) /\ Publish(s, "TRANSFER", q)
  <2>1. /\ DeniedOK' /\ Untouched(p, s)
        /\ pool[p].strict => SlotCells(p, pool[p], s) \subseteq denied'[p]
    BY <1>1, <1>2, <1>4, ProtectSlot, Zenon
  <2>2. QED  BY <1>1, <1>2, <1>4, <2>1, PublishStep, Zenon
<1>5. CASE UNCHANGED denied /\ Publish(s, "OWNED", p)
  <2>1. DeniedOK' /\ Untouched(p, s)  BY <1>1, <1>5, ProtectNothing, Zenon
  <2>2. SlotCells(p, pool[p], s) \cap denied'[p] = {}  BY <1>3, <1>5, Zenon
  <2>3. QED  BY <1>1, <1>2, <1>5, <2>1, <2>2, PublishStep, Zenon
<1>6. CASE /\ MayFail(p) /\ denied' = protect_slot(p, s, FALSE)
           /\ slot' = [slot EXCEPT ![s].call = "lost"]
  <2> DEFINE new == [slot[s] EXCEPT !.call = "lost"]
  <2>1. /\ DeniedOK' /\ Untouched(p, s)
        /\ pool[p].strict => SlotCells(p, pool[p], s) \subseteq denied'[p]
    BY <1>1, <1>2, <1>6, ProtectSlot, Zenon
  <2>2. slot \in [SlotIds -> SlotRecord]  BY <1>2, SlotIdsOf, Zenon
  <2>3. slot' = [slot EXCEPT ![s] = new]  BY <1>6, <2>2, Zenon
  <2>4. slot[s].offset + slot[s].length =< header.slot_capacity  BY Zenon DEF PoolInductive
  <2>5. /\ new \in SlotRecord /\ new.state = "CLAIMING" /\ new.call = "lost" /\ new.holder = p
        /\ new.offset = slot[s].offset /\ new.length = slot[s].length
    BY <1>1, <2>2, Zenon DEF SlotRecord
  <2> HIDE DEF new
  <2>6. QED  BY <1>1, <1>2, <2>1, <2>3, <2>4, <2>5, EndStep, Zenon
<1>7. QED  BY <1>4, <1>5, <1>6, Zenon DEF SendEnd

LEMMA ClaimEndStep ==
    ASSUME PoolInductive, NEW p \in Processes, NEW s \in SlotIds, Ended(s), ClaimEnd(p, s)
    PROVE  PoolInductive'
<1>1. /\ slot[s].state = "CLAIMING" /\ slot[s].holder = p /\ slot[s].call = "claim"
      /\ UNCHANGED <<header, pool>>
  BY Zenon DEF ClaimEnd, InCall
<1>2. p \in Attached  BY <1>1, Zenon DEF PoolInductive
<1>3. CASE denied' = protect_slot(p, s, TRUE) /\ Publish(s, "OWNED", p)
  <2>1. DeniedOK' /\ Untouched(p, s) /\ SlotCells(p, pool[p], s) \cap denied'[p] = {}
    BY <1>1, <1>2, <1>3, ProtectSlot, Zenon
  <2>2. QED  BY <1>1, <1>2, <1>3, <2>1, PublishStep, Zenon
<1>4. CASE MayFail(p) /\ UNCHANGED denied /\ slot' = [slot EXCEPT ![s] = FreeSlot]
  <2>1. DeniedOK' /\ Untouched(p, s)  BY <1>1, <1>4, ProtectNothing, Zenon
  <2>2. pool[p].strict => SlotCells(p, pool[p], s) \subseteq denied'[p]
    BY <1>1, <1>4, Zenon DEF PoolInductive
  <2>3. QED  BY <1>1, <1>2, <1>4, <2>1, <2>2, FreeStep, Zenon
<1>5. QED  BY <1>3, <1>4, Zenon DEF ClaimEnd

LEMMA ReleaseEndStep ==
    ASSUME PoolInductive, NEW p \in Processes, NEW s \in SlotIds, Ended(s), ReleaseEnd(p, s)
    PROVE  PoolInductive'
<1>1. /\ slot[s].state = "CLAIMING" /\ slot[s].holder = p /\ slot[s].call = "release"
      /\ UNCHANGED <<header, pool>>
  BY Zenon DEF ReleaseEnd, InCall
<1>2. p \in Attached  BY <1>1, Zenon DEF PoolInductive
<1>3. CASE denied' = protect_slot(p, s, FALSE) /\ slot' = [slot EXCEPT ![s] = FreeSlot]
  <2>1. /\ DeniedOK' /\ Untouched(p, s)
        /\ pool[p].strict => SlotCells(p, pool[p], s) \subseteq denied'[p]
    BY <1>1, <1>2, <1>3, ProtectSlot, Zenon
  <2>2. QED  BY <1>1, <1>2, <1>3, <2>1, FreeStep, Zenon
<1>4. CASE UNCHANGED denied /\ Publish(s, "OWNED", p)
  <2>1. DeniedOK' /\ Untouched(p, s)  BY <1>1, <1>4, ProtectNothing, Zenon
  <2>2. SlotCells(p, pool[p], s) \cap denied'[p] = {}  BY <1>1, <1>4, Zenon DEF PoolInductive
  <2>3. QED  BY <1>1, <1>2, <1>4, <2>1, <2>2, PublishStep, Zenon
<1>5. QED  BY <1>3, <1>4, Zenon DEF ReleaseEnd

\* Moving the window of an owned slot.
LEMMA RegionStep ==
    ASSUME PoolInductive, NEW p \in Processes, NEW s \in SlotIds, Owns(p, s),
           NEW o \in Nat, NEW l \in Nat, Region(p, s, o, l)
    PROVE  PoolInductive'
<1>1. /\ slot[s].state = "OWNED" /\ slot[s].holder = p /\ UNCHANGED <<header, pool, denied>>
      /\ o =< header.slot_capacity /\ l =< header.slot_capacity - o
  BY Zenon DEF Owns, Region
<1>2. p \in Attached  BY <1>1, Zenon DEF PoolInductive
<1>3. /\ slot \in [SlotIds -> SlotRecord] /\ DOMAIN view = SlotIds
      /\ header.slot_capacity \in Nat
  BY <1>2, SlotIdsOf, Zenon
<1>4. /\ slot' \in [SlotIds -> SlotRecord]
      /\ slot'[s].offset = o /\ slot'[s].length = l
      /\ slot'[s].state = "OWNED" /\ slot'[s].holder = p
      /\ \A t \in SlotIds : t # s => slot'[t] = slot[t]
  <2> DEFINE new == [slot[s] EXCEPT !.offset = o, !.length = l]
  <2>1. /\ new \in SlotRecord /\ new.offset = o /\ new.length = l
        /\ new.state = "OWNED" /\ new.holder = p
    BY <1>1, <1>3, Zenon DEF SlotRecord
  <2>2. slot' = [slot EXCEPT ![s] = new]  BY <1>3, Zenon DEF Region
  <2> HIDE DEF new
  <2>3. QED  BY <1>3, <2>1, <2>2, Zenon
<1>5. /\ DOMAIN view' = SlotIds
      /\ view'[s] = make_view(p, s, o, l)
      /\ \A t \in SlotIds : t # s => view'[t] = view[t]
  <2>1. view[s] = make_view(p, s, slot[s].offset, slot[s].length)
    BY <1>1, Zenon DEF PoolInductive, WindowCoherent
  <2>2. view' = [view EXCEPT ![s].data = view[s].base + o, ![s].length = l]  BY Zenon DEF Region
  <2>3. view'[s] = [view[s] EXCEPT !.data = view[s].base + o, !.length = l]  BY <1>3, <2>2, Zenon
  <2>4. view'[s] = make_view(p, s, o, l)
    <3> DEFINE base == pool[p].payload_offset + s * header.slot_stride
    <3>1. view[s] = [base |-> base, data |-> base + slot[s].offset, length |-> slot[s].length]
      BY <2>1, Zenon DEF make_view
    <3>2. make_view(p, s, o, l) = [base |-> base, data |-> base + o, length |-> l]
      BY Zenon DEF make_view
    <3> HIDE DEF base
    <3>3. view[s].base = base  BY <3>1
    <3>4. view'[s] = [[base |-> base, data |-> base + slot[s].offset, length |-> slot[s].length]
                         EXCEPT !.data = base + o, !.length = l]
      BY <2>3, <3>1, <3>3, Zenon
    <3>5. QED  BY <3>2, <3>4, Zenon
  <2>5. QED  BY <1>3, <2>2, <2>4, Zenon
<1>6. SlotCells(p, pool[p], s) \cap denied'[p] = {}  BY <1>1, Zenon DEF PoolInductive
<1>7. o + l =< header.slot_capacity  BY <1>1, <1>3
<1>8. SlotLeft(p, s)  BY <1>4, <1>5, <1>6, <1>7, Zenon DEF SlotLeft
<1>9. DeniedOK' /\ Untouched(p, s)  BY <1>1, ProtectNothing, Zenon
<1>10. QED  BY <1>1, <1>2, <1>8, <1>9, SlotStep, Zenon

LEMMA StutterStep == ASSUME PoolInductive, UNCHANGED <<memvars, view>> PROVE PoolInductive'
<1>1. /\ header' = header /\ pool' = pool /\ denied' = denied /\ slot' = slot /\ view' = view
  BY Zenon DEF memvars
<1>2. Attached' = Attached /\ SlotIds' = SlotIds  BY <1>1, Zenon DEF Attached, SlotIds
<1>3. StrictExclusion' /\ WindowCoherent'
  BY <1>1, <1>2, Zenon DEF PoolInductive, StrictExclusion, WindowCoherent, make_view
<1>4. QED  BY <1>1, <1>2, <1>3, Zenon DEF PoolInductive

LEMMA MoveStep ==
    ASSUME PoolInductive, NEW p \in Processes, NEW s \in SlotIds, Move(p, s)
    PROVE  PoolInductive'
<1>1. Owns(p, s)
  BY Zenon DEF Move, trim_front, trim_back, resize, set_region, append, prepend, write_at
<1>2. p \in Attached  BY <1>1, Zenon DEF Owns, PoolInductive
<1>3. slot \in [SlotIds -> SlotRecord] /\ header.slot_capacity \in Nat  BY <1>2, SlotIdsOf, Zenon
<1>4. /\ slot[s].offset \in Nat /\ slot[s].length \in Nat /\ view[s].length = slot[s].length
  <2>1. slot[s].offset \in Nat /\ slot[s].length \in Nat  BY <1>3, Zenon DEF SlotRecord
  <2>2. view[s] = make_view(p, s, slot[s].offset, slot[s].length)
    BY <1>1, Zenon DEF Owns, PoolInductive, WindowCoherent
  <2>3. make_view(p, s, slot[s].offset, slot[s].length).length = slot[s].length
    BY Zenon DEF make_view
  <2>4. QED  BY <2>1, <2>2, <2>3, Zenon
<1>5. \A d \in Inputs : Len(d) \in Nat
  BY InputAssumption
<1>6. \/ \E o, l \in Nat : Region(p, s, o, l)
      \/ UNCHANGED <<memvars, view>>
  <2>1. ASSUME NEW n \in 0..header.slot_capacity,
               trim_front(p, s, n) \/ trim_back(p, s, n) \/ resize(p, s, n)
        PROVE  \E o, l \in Nat : Region(p, s, o, l)
    <3>1. n \in Nat  BY <1>3
    <3>2. CASE trim_front(p, s, n)
      <4>1. slot[s].offset + n \in Nat /\ view[s].length - n \in Nat
        BY <1>4, <3>1, <3>2 DEF trim_front
      <4>2. QED  BY <3>2, <4>1, Zenon DEF trim_front
    <3>3. CASE trim_back(p, s, n)
      <4>1. view[s].length - n \in Nat  BY <1>4, <3>1, <3>3 DEF trim_back
      <4>2. QED  BY <1>4, <3>3, <4>1, Zenon DEF trim_back
    <3>4. CASE resize(p, s, n)  BY <1>4, <3>1, <3>4, Zenon DEF resize
    <3>5. QED  BY <2>1, <3>2, <3>3, <3>4, Zenon
  <2>2. ASSUME NEW n \in 0..header.slot_capacity, NEW o \in 0..header.slot_capacity,
               set_region(p, s, o, n)
        PROVE  \E u, l \in Nat : Region(p, s, u, l)
    BY <1>3, <2>2 DEF set_region
  <2>3. ASSUME NEW d \in Inputs, append(p, s, d) PROVE \E o, l \in Nat : Region(p, s, o, l)
    BY <1>4, <1>5, <2>3 DEF append
  <2>4. ASSUME NEW d \in Inputs, prepend(p, s, d) PROVE \E o, l \in Nat : Region(p, s, o, l)
    <3>1. Len(d) \in Nat /\ Len(d) =< slot[s].offset  BY <1>5, <2>4, Zenon DEF prepend, headroom
    <3>2. slot[s].offset - Len(d) \in Nat /\ view[s].length + Len(d) \in Nat  BY <1>4, <3>1
    <3>3. QED  BY <2>4, <3>2, Zenon DEF prepend
  <2>5. ASSUME NEW d \in Inputs, NEW o \in 0..header.slot_capacity, write_at(p, s, o, d)
        PROVE  UNCHANGED <<memvars, view>>
    BY <2>5, Zenon DEF write_at
  <2>6. QED  BY <2>1, <2>2, <2>3, <2>4, <2>5, Zenon DEF Move
<1>7. QED  BY <1>1, <1>6, RegionStep, StutterStep, Zenon

LEMMA GuardCellsType ==
    ASSUME NEW p \in Processes, NEW c \in Config, Accepts(p, c), NEW k \in 0..c.slot_count
    PROVE  /\ apply_guard_pages(p, c, k) \subseteq MemoryIds \X Int
           /\ apply_guard_pages(p, c, k) \subseteq Protected(p, c)
<1>1. c.payload \in MemoryIds /\ c.slot_capacity \in Int /\ c.slot_count \in Nat
  BY LayoutAssumption DEF Config
<1>2. Memory[p][c.payload].page \in Int
  BY <1>1, LayoutAssumption DEF MemoryObject
<1>3. \A s \in 0..(c.slot_count - 1) : GuardCells(p, c, s) \subseteq MemoryIds \X Int
  <2>1. SUFFICES ASSUME NEW s \in 0..(c.slot_count - 1)
                 PROVE  GuardCells(p, c, s) \subseteq MemoryIds \X Int
    BY Zenon
  <2>2. SlotOffset(p, c, s) \in Int  BY SlotBounds
  <2>3. QED  BY <1>1, <1>2, <2>2 DEF GuardCells, Cells
<1>4. 0..(k - 1) \subseteq 0..(c.slot_count - 1)  BY <1>1
<1>5. QED  BY <1>3, <1>4, Zenon DEF apply_guard_pages, Protected

\* zipc_pool_format writes a pool of free slots that nobody has attached.
LEMMA FormatStep ==
    ASSUME PoolInductive, NEW p \in Processes, NEW c \in Configs, Format(p, c),
           view' = [s \in DOMAIN slot' |-> NoView]
    PROVE  PoolInductive'
<1>1. c \in Config  BY LayoutAssumption, Zenon
<1>2. Attached = {} /\ header = NoPool /\ Accepts(p, c) /\ UNCHANGED pool  BY Zenon DEF Format
<1>3. c.slot_count \in Nat /\ c.slot_capacity \in Nat  BY <1>1, LayoutAssumption DEF Config
<1>4. PICK k \in Rounds(c, c.guard) :
        /\ denied' = [denied EXCEPT ![p] = @ \cup apply_guard_pages(p, c, k)]
        /\ IF k = c.slot_count
           THEN /\ header' = Header(p, c)
                /\ slot' = [s \in 0..(c.slot_count - 1) |-> FreeSlot]
           ELSE UNCHANGED <<header, slot>>
  BY Zenon DEF Format
<1>5. k \in 0..c.slot_count  BY <1>3 DEF Rounds
<1>6. denied' \in [Processes -> SUBSET (MemoryIds \X Int)]
  <2>1. apply_guard_pages(p, c, k) \subseteq MemoryIds \X Int  BY <1>1, <1>2, <1>5, GuardCellsType, Zenon
  <2>2. QED  BY <1>4, <2>1, Zenon DEF PoolInductive
<1>7. Attached' = {}  BY <1>2, Zenon DEF Attached
<1>8. pool' \in [Processes -> Configs \cup {NoPool}]  BY <1>2, Zenon DEF PoolInductive
<1>9. CASE k = c.slot_count
  <2>1. header' = Header(p, c) /\ slot' = [s \in 0..(c.slot_count - 1) |-> FreeSlot]
    BY <1>4, <1>9, Zenon
  <2>2. header' # NoPool  BY <2>1, HeaderAssumption, Zenon
  <2>3. SlotIds' = 0..(c.slot_count - 1) /\ header'.slot_capacity = c.slot_capacity
    BY <2>1, <2>2, Zenon DEF SlotIds, Header
  <2>4. FreeSlot \in SlotRecord  BY Zenon DEF FreeSlot, SlotRecord
  <2>5. slot' \in [SlotIds' -> SlotRecord] /\ DOMAIN view' = SlotIds'  BY <2>1, <2>3, <2>4, Zenon
  <2>6. \A s \in SlotIds' : /\ slot'[s].offset + slot'[s].length =< header'.slot_capacity
                            /\ slot'[s].state = "FREE"
    BY <1>3, <2>1, <2>3 DEF FreeSlot
  <2>7. StrictExclusion' /\ WindowCoherent'  BY <1>7, <2>6, Zenon DEF StrictExclusion, WindowCoherent
  <2>8. QED  BY <1>6, <1>7, <1>8, <2>5, <2>6, <2>7, Zenon DEF PoolInductive
<1>10. CASE k # c.slot_count
  <2>1. header' = NoPool  BY <1>2, <1>4, <1>10, Zenon
  <2>2. SlotIds' = {}  BY <2>1, Zenon DEF SlotIds
  <2>3. StrictExclusion' /\ WindowCoherent'  BY <1>7, <2>2, Zenon DEF StrictExclusion, WindowCoherent
  <2>4. QED  BY <1>6, <1>7, <1>8, <2>1, <2>2, <2>3, Zenon DEF PoolInductive
<1>11. QED  BY <1>9, <1>10, Zenon

\* zipc_pool_attach gives the process the slots of the header, revoked when
\* ownership is strict, and touches no other process.
LEMMA AttachStep ==
    ASSUME PoolInductive, NEW p \in Processes, NEW c \in Configs, Attach(p, c), UNCHANGED view
    PROVE  PoolInductive'
<1>1. c \in Config  BY LayoutAssumption, Zenon
<1>2. /\ pool[p] = NoPool /\ header = Header(p, c) /\ Accepts(p, c)
      /\ denied[p] \subseteq Protected(p, c) /\ UNCHANGED <<header, slot>>
  BY Zenon DEF Attach, Unmixed
<1>3. c.slot_count \in Nat /\ c # NoPool
  <2>1. c # NoPool  BY <1>1, LayoutAssumption, Zenon
  <2>2. c.slot_count \in Nat  BY <1>1, <1>2, StrideFacts, Zenon DEF Accepts
  <2>3. QED  BY <2>1, <2>2, Zenon
<1>4. PICK g \in Rounds(c, c.guard), k \in Rounds(c, c.strict) :
        /\ denied' = [denied EXCEPT ![p] = @ \cup apply_guard_pages(p, c, g)
                          \cup (IF c.strict THEN Revoked(p, c, k) ELSE {})]
        /\ pool' = [pool EXCEPT ![p] =
                        IF g = c.slot_count /\ k = c.slot_count THEN c ELSE NoPool]
  BY Zenon DEF Attach
<1>5. g \in 0..c.slot_count /\ k \in 0..c.slot_count  BY <1>3 DEF Rounds
<1>6. header # NoPool /\ SlotIds = 0..(c.slot_count - 1) /\ SlotIds' = SlotIds
  <2>1. header # NoPool  BY <1>2, HeaderAssumption, Zenon
  <2>2. QED  BY <1>2, <2>1, Zenon DEF SlotIds, Header
<1>7. p \notin Attached  BY <1>2, Zenon DEF Attached
<1>8. /\ pool \in [Processes -> Configs \cup {NoPool}]
      /\ denied \in [Processes -> SUBSET (MemoryIds \X Int)]
      /\ slot \in [SlotIds -> SlotRecord] /\ DOMAIN view = SlotIds
  BY <1>6, Zenon DEF PoolInductive
<1>9. /\ apply_guard_pages(p, c, g) \subseteq MemoryIds \X Int
      /\ apply_guard_pages(p, c, g) \subseteq Protected(p, c)
  BY <1>1, <1>2, <1>5, GuardCellsType, Zenon
<1>10. c.strict => /\ Revoked(p, c, k) \subseteq MemoryIds \X Int
                   /\ Revoked(p, c, k) \subseteq Protected(p, c)
  <2>1. 0..(k - 1) \subseteq 0..(c.slot_count - 1)  BY <1>3, <1>5
  <2>2. \A s \in 0..(c.slot_count - 1) : SlotCells(p, c, s) \subseteq MemoryIds \X Int
    BY <1>1, <1>2, SlotCellsType, Zenon
  <2>3. QED  BY <2>1, <2>2, Zenon DEF Revoked, Protected
<1>11. /\ denied' \in [Processes -> SUBSET (MemoryIds \X Int)]
       /\ denied'[p] \subseteq Protected(p, c)
       /\ \A r \in Processes : r # p => denied'[r] = denied[r]
  <2>1. (IF c.strict THEN Revoked(p, c, k) ELSE {}) \subseteq MemoryIds \X Int  BY <1>10, Zenon
  <2>2. (IF c.strict THEN Revoked(p, c, k) ELSE {}) \subseteq Protected(p, c)  BY <1>10, Zenon
  <2>3. denied'[p] = (denied[p] \cup apply_guard_pages(p, c, g))
                        \cup (IF c.strict THEN Revoked(p, c, k) ELSE {})
    BY <1>4, <1>8, Zenon
  <2>4. \A r \in Processes : r # p => denied'[r] = denied[r]  BY <1>4, <1>8, Zenon
  <2>5. denied' = [r \in Processes |-> denied'[r]]  BY <1>4, <1>8, Zenon
  <2>6. \A r \in Processes : denied'[r] \subseteq MemoryIds \X Int
    BY <1>8, <1>9, <2>1, <2>3, <2>4, Zenon
  <2>7. QED  BY <1>2, <1>9, <2>2, <2>3, <2>4, <2>5, <2>6, Zenon
<1>12. /\ pool' \in [Processes -> Configs \cup {NoPool}]
       /\ \A r \in Processes : r # p => pool'[r] = pool[r]
       /\ pool'[p] \in {c, NoPool}
       /\ pool'[p] = c => k = c.slot_count
  BY <1>3, <1>4, <1>8, Zenon
<1>13. Attached \subseteq Attached' /\ Attached' \subseteq Attached \cup {p}
  BY <1>7, <1>12, Zenon DEF Attached
<1>14. \A r \in Attached' : /\ Accepts(r, pool'[r]) /\ header' = Header(r, pool'[r])
                            /\ denied'[r] \subseteq Protected(r, pool'[r])
  <2>1. SUFFICES ASSUME NEW r \in Attached'
                 PROVE  /\ Accepts(r, pool'[r]) /\ header' = Header(r, pool'[r])
                        /\ denied'[r] \subseteq Protected(r, pool'[r])
    BY Zenon
  <2>2. CASE r = p
    <3>1. pool'[p] = c  BY <1>12, <2>2, Zenon DEF Attached
    <3>2. QED  BY <1>2, <1>11, <2>2, <3>1, Zenon
  <2>3. CASE r # p
    <3>1. r \in Attached /\ r \in Processes  BY <1>13, <2>3, Zenon DEF Attached
    <3>2. pool'[r] = pool[r] /\ denied'[r] = denied[r]  BY <1>11, <1>12, <2>3, <3>1, Zenon
    <3>3. /\ Accepts(r, pool[r]) /\ header = Header(r, pool[r])
          /\ denied[r] \subseteq Protected(r, pool[r])
      BY <3>1, Zenon DEF PoolInductive
    <3>4. QED  BY <1>2, <3>2, <3>3, Zenon
  <2>4. QED  BY <2>2, <2>3, Zenon
<1>15. \A s \in SlotIds : slot[s].state \in {"OWNED", "CLAIMING"} =>
         /\ slot[s].holder \in Attached /\ slot[s].holder # p
         /\ pool'[slot[s].holder] = pool[slot[s].holder]
         /\ denied'[slot[s].holder] = denied[slot[s].holder]
  BY <1>7, <1>11, <1>12, Zenon DEF PoolInductive, Attached
<1>16. \A s \in SlotIds' :
        /\ slot'[s].offset + slot'[s].length =< header'.slot_capacity
        /\ slot'[s].state \in {"OWNED", "CLAIMING"} => slot'[s].holder \in Attached'
        /\ \/ slot'[s].state = "OWNED"
           \/ slot'[s].state = "CLAIMING" /\ slot'[s].call \in {"send", "release"}
           => SlotCells(slot'[s].holder, pool'[slot'[s].holder], s) \cap denied'[slot'[s].holder] = {}
        /\ slot'[s].state = "CLAIMING" /\ slot'[s].call = "claim" /\ pool'[slot'[s].holder].strict
           => SlotCells(slot'[s].holder, pool'[slot'[s].holder], s) \subseteq denied'[slot'[s].holder]
  <2>1. \A s \in SlotIds :
        /\ slot[s].offset + slot[s].length =< header.slot_capacity
        /\ \/ slot[s].state = "OWNED"
           \/ slot[s].state = "CLAIMING" /\ slot[s].call \in {"send", "release"}
           => SlotCells(slot[s].holder, pool[slot[s].holder], s) \cap denied[slot[s].holder] = {}
        /\ slot[s].state = "CLAIMING" /\ slot[s].call = "claim" /\ pool[slot[s].holder].strict
           => SlotCells(slot[s].holder, pool[slot[s].holder], s) \subseteq denied[slot[s].holder]
    BY Zenon DEF PoolInductive
  <2>2. QED  BY <1>2, <1>6, <1>13, <1>15, <2>1
<1>17. StrictExclusion'
  <2>1. SUFFICES ASSUME NEW r \in Attached', NEW s \in SlotIds, pool'[r].strict,
                        ~(slot[s].holder = r /\ slot[s].state \in {"OWNED", "CLAIMING"})
                 PROVE  SlotCells(r, pool'[r], s) \subseteq denied'[r]
    BY <1>2, <1>6, Zenon DEF StrictExclusion, SlotCells, SlotOffset
  <2>2. CASE r = p
    <3>1. pool'[p] = c /\ k = c.slot_count  BY <1>12, <2>2, Zenon DEF Attached
    <3>2. SlotCells(p, c, s) \subseteq Revoked(p, c, k)  BY <1>6, <3>1, Zenon DEF Revoked
    <3>3. Revoked(p, c, k) \subseteq denied'[p]  BY <1>4, <1>8, <2>1, <2>2, <3>1, Zenon
    <3>4. QED  BY <2>2, <3>1, <3>2, <3>3, Zenon
  <2>3. CASE r # p
    <3>1. r \in Attached /\ r \in Processes  BY <1>13, <2>3, Zenon DEF Attached
    <3>2. pool'[r] = pool[r] /\ denied'[r] = denied[r]  BY <1>11, <1>12, <2>3, <3>1, Zenon
    <3>3. QED  BY <2>1, <3>1, <3>2, Zenon DEF PoolInductive, StrictExclusion
  <2>4. QED  BY <2>2, <2>3, Zenon
<1>18. WindowCoherent'
  <2>1. SUFFICES ASSUME NEW s \in SlotIds, slot[s].state = "OWNED"
        PROVE  /\ slot[s].offset + slot[s].length =< header.slot_capacity
               /\ view[s] = make_view(slot[s].holder, s, slot[s].offset, slot[s].length)'
    BY <1>2, <1>6, Zenon DEF WindowCoherent
  <2>2. /\ slot[s].offset + slot[s].length =< header.slot_capacity
        /\ view[s] = make_view(slot[s].holder, s, slot[s].offset, slot[s].length)
    BY <2>1, Zenon DEF PoolInductive, WindowCoherent
  <2>3. pool'[slot[s].holder] = pool[slot[s].holder]  BY <1>15, <2>1, Zenon
  <2>4. make_view(slot[s].holder, s, slot[s].offset, slot[s].length)' =
        make_view(slot[s].holder, s, slot[s].offset, slot[s].length)
    BY <1>2, <2>3, Zenon DEF make_view
  <2>5. QED  BY <2>2, <2>4, Zenon
<1>19. slot' \in [SlotIds' -> SlotRecord] /\ DOMAIN view' = SlotIds'  BY <1>2, <1>6, <1>8, Zenon
<1>20. QED
  BY <1>11, <1>12, <1>14, <1>16, <1>17, <1>18, <1>19, Zenon DEF PoolInductive

LEMMA InitInductive == WindowInit => PoolInductive
<1>1. SUFFICES ASSUME WindowInit PROVE PoolInductive  BY Zenon
<1>2. header = NoPool /\ pool = [p \in Processes |-> NoPool] /\ denied = [p \in Processes |-> {}]
  <2>1. MemInit  BY <1>1, Zenon DEF WindowInit
  <2>2. QED  BY <2>1, Zenon DEF MemInit
<1>3. Attached = {} /\ SlotIds = {}  BY <1>2, Zenon DEF Attached, SlotIds
<1>4. StrictExclusion /\ WindowCoherent  BY <1>3, Zenon DEF StrictExclusion, WindowCoherent
<1>5. QED  BY <1>2, <1>3, <1>4, Zenon DEF PoolInductive

LEMMA NextInductive == PoolInductive /\ [WindowNext]_vars => PoolInductive'
<1>1. SUFFICES ASSUME PoolInductive, [WindowNext]_vars PROVE PoolInductive'  BY Zenon
<1>2. CASE UNCHANGED vars  BY <1>1, <1>2, StutterStep, Zenon DEF vars
<1>3. ASSUME NEW p \in Processes, NEW c \in Configs, Start(p, c) PROVE PoolInductive'
  <2>1. CASE Format(p, c) /\ view' = [s \in DOMAIN slot' |-> NoView]  BY <1>1, <2>1, FormatStep, Zenon
  <2>2. CASE Attach(p, c) /\ UNCHANGED view  BY <1>1, <2>2, AttachStep, Zenon
  <2>3. QED  BY <1>3, <2>1, <2>2, Zenon DEF Start
<1>4. ASSUME NEW p \in Processes, NEW s \in SlotIds, Call(p, s) PROVE PoolInductive'
  <2>1. CASE /\ AllocateBegin(p, s) \/ SendBegin(p, s) \/ ClaimBegin(p, s) \/ ReleaseBegin(p, s)
             /\ UNCHANGED <<view, bytes>>
    BY <1>1, <2>1, BeginStep, Zenon
  <2>2. ASSUME NEW h \in 0..header.slot_capacity, NEW n \in 0..header.slot_capacity,
               NEW t \in 0..header.slot_capacity, AllocateEnd(p, s, h, n, t), Ended(s)
        PROVE  PoolInductive'
    BY <1>1, <2>2, AllocateEndStep, Zenon
  <2>3. ASSUME NEW q \in Attached, SendEnd(p, s, q), Ended(s) PROVE PoolInductive'
    BY <1>1, <2>3, SendEndStep, Zenon
  <2>4. CASE ClaimEnd(p, s) /\ Ended(s)  BY <1>1, <2>4, ClaimEndStep, Zenon
  <2>5. CASE ReleaseEnd(p, s) /\ Ended(s)  BY <1>1, <2>5, ReleaseEndStep, Zenon
  <2>6. QED  BY <1>4, <2>1, <2>2, <2>3, <2>4, <2>5, Zenon DEF Call
<1>5. ASSUME NEW p \in Processes, NEW s \in SlotIds, Move(p, s) PROVE PoolInductive'
  BY <1>1, <1>5, MoveStep, Zenon
<1>6. QED  BY <1>1, <1>2, <1>3, <1>4, <1>5, Zenon DEF WindowNext

\* The inductive invariant holds in every behaviour, whatever the widths of
\* the integers, the memories and the configurations that processes try.
THEOREM PoolIsInductive == WindowSpec => []PoolInductive
<1>1. QED  BY InitInductive, NextInductive, PTL DEF WindowSpec

\* An accepted layout keeps slots, guard pages and control records apart.
THEOREM PoolSlotsApart == WindowSpec => []SlotsApart
<1>1. PoolInductive => SlotsApart
  <2>1. SUFFICES ASSUME PoolInductive, NEW p \in Attached, NEW s \in SlotIds, NEW t \in SlotIds
        PROVE /\ SlotCells(p, pool[p], s) \subseteq
                     Cells(pool[p].payload, 0, Memory[p][pool[p].payload].size)
              /\ Memory[p][pool[p].payload].base + SlotOffset(p, pool[p], s)
                     + pool[p].slot_capacity =< SizeMax
              /\ SlotCells(p, pool[p], s) \cap ControlCells(pool[p]) = {}
              /\ t # s => SlotCells(p, pool[p], s) \cap SlotCells(p, pool[p], t) = {}
              /\ pool[p].guard => SlotCells(p, pool[p], s) \cap GuardCells(p, pool[p], t) = {}
    BY DEF SlotsApart
  <2>2. /\ p \in Processes /\ pool[p] \in Config /\ Accepts(p, pool[p])
        /\ SlotIds = 0..(pool[p].slot_count - 1)
    BY <2>1, SlotIdsOf, Zenon
  <2>3. QED  BY <2>2, SlotInside, SlotsDisjoint, GuardsDisjoint, Zenon
<1>2. QED  BY <1>1, PoolIsInductive, PTL

\* mprotect never takes the pages of a buffer from the process that owns it:
\* whatever access changes failed before, and on every page the slot shares.
THEOREM OwnersReach == WindowSpec => []OwnerReaches
<1>1. PoolInductive => OwnerReaches
  BY Zenon DEF PoolInductive, OwnerReaches, Owns
<1>2. QED  BY <1>1, PoolIsInductive, PTL

\* With strict ownership nobody but the owner reaches a buffer; the window the
\* owner sees is the region that travels with the slot.
THEOREM PoolProtects == WindowSpec => [](StrictExclusion /\ WindowCoherent)
<1>1. PoolInductive => StrictExclusion /\ WindowCoherent
  BY Zenon DEF PoolInductive
<1>2. QED  BY <1>1, PoolIsInductive, PTL

(***************************************************************************)
(* The bytes behind the window.                                            *)
(***************************************************************************)

BytesType == bytes \in [AllCells -> Nat]

\* Where the owner's window lies, in numbers: the start and the capacity of the
\* slot, the offset and the length of the window.
WindowAt(p, s, b, k, o, n) ==
    /\ view[s] = [base |-> b, data |-> b + o, length |-> n]
    /\ slot[s].offset = o /\ header.slot_capacity = k /\ o + n =< k
    /\ SlotCells(p, pool[p], s) = Cells(pool[p].payload, b, k)
    /\ Cells(pool[p].payload, b, k) \subseteq AllCells

LEMMA OwnedWindow ==
    ASSUME PoolInductive, NEW p \in Processes, NEW s \in SlotIds, Owns(p, s)
    PROVE  /\ p \in Attached
           /\ \E b, k, o, n \in Nat : WindowAt(p, s, b, k, o, n)
<1>1. slot[s].state = "OWNED" /\ slot[s].holder = p  BY Zenon DEF Owns
<1>2. p \in Attached  BY <1>1, Zenon DEF PoolInductive
<1>3. /\ pool[p] \in Config /\ Accepts(p, pool[p])
      /\ header = Header(p, pool[p]) /\ SlotIds = 0..(pool[p].slot_count - 1)
      /\ header.slot_capacity = pool[p].slot_capacity /\ header.slot_capacity \in Nat
      /\ slot \in [SlotIds -> SlotRecord]
  BY <1>2, SlotIdsOf, Zenon
<1>4. slot[s].offset \in Nat /\ slot[s].length \in Nat  BY <1>3, Zenon DEF SlotRecord
<1>5. slot[s].offset + slot[s].length =< header.slot_capacity  BY Zenon DEF PoolInductive
<1>6. SlotOffset(p, pool[p], s) \in Nat  BY <1>3, SlotBounds, Zenon
<1>7. PICK b \in Nat, o \in Nat, n \in Nat, k \in Nat :
          b = SlotOffset(p, pool[p], s) /\ o = slot[s].offset /\ n = slot[s].length
          /\ k = header.slot_capacity
  BY <1>3, <1>4, <1>6, Zenon
<1>8. view[s] = [base |-> b, data |-> b + o, length |-> n]
  <2>1. view[s] = make_view(p, s, o, n)
    BY <1>1, <1>7, Zenon DEF PoolInductive, WindowCoherent
  <2>2. header.slot_stride = Stride(p, pool[p])  BY <1>3, Zenon DEF Header
  <2>3. b = pool[p].payload_offset + s * header.slot_stride  BY <1>7, <2>2, Zenon DEF SlotOffset
  <2>4. QED  BY <2>1, <2>3, Zenon DEF make_view
<1>9. SlotCells(p, pool[p], s) = Cells(pool[p].payload, b, k)  BY <1>3, <1>7, Zenon DEF SlotCells
<1>10. Cells(pool[p].payload, b, k) \subseteq AllCells
  <2>1. pool[p].payload \in MemoryIds  BY <1>3, Zenon DEF Config
  <2>2. SlotCells(p, pool[p], s) \subseteq
            Cells(pool[p].payload, 0, Memory[p][pool[p].payload].size)
    BY <1>3, SlotInside, Zenon
  <2>3. QED  BY <1>9, <2>1, <2>2 DEF AllCells
<1>11. WindowAt(p, s, b, k, o, n)  BY <1>5, <1>7, <1>8, <1>9, <1>10, Zenon DEF WindowAt
<1>12. QED  BY <1>2, <1>7, <1>11, Zenon

\* What a copy leaves in a cell of p's payload memory.
LEMMA CopyAt ==
    ASSUME BytesType, NEW p \in Processes, NEW at \in Int, NEW d \in Seq(Nat), Copy(p, at, d),
           NEW a \in Int, <<pool[p].payload, a>> \in AllCells
    PROVE  bytes'[<<pool[p].payload, a>>] =
               IF at =< a /\ a < at + Len(d) THEN d[a - at + 1] ELSE bytes[<<pool[p].payload, a>>]
<1> DEFINE x == <<pool[p].payload, a>>
<1>1. Len(d) \in Int  BY LenProperties
<1>2. x \in Cells(pool[p].payload, at, Len(d)) <=> at =< a /\ a < at + Len(d)
  <2>1. x \in Cells(pool[p].payload, at, Len(d)) <=> a \in at..(at + Len(d) - 1)  BY Zenon DEF Cells
  <2>2. QED  BY <1>1, <2>1
<1>3. x \in DOMAIN bytes  BY Zenon DEF BytesType
<1>4. bytes'[x] = IF x \in Cells(pool[p].payload, at, Len(d)) THEN d[x[2] - at + 1] ELSE bytes[x]
  BY <1>3, Zenon DEF Copy
<1>5. x[2] = a  BY Zenon
<1>6. QED  BY <1>2, <1>4, <1>5, Zenon

\* A copy keeps bytes where they were.
LEMMA CopyType ==
    ASSUME BytesType, NEW p \in Processes, NEW at \in Int, NEW d \in Seq(Nat), Copy(p, at, d)
    PROVE  BytesType'
<1>1. Len(d) \in Nat /\ d \in [1..Len(d) -> Nat]  BY LenProperties, Zenon
<1>2. ASSUME NEW x \in AllCells
      PROVE  (IF x \in Cells(pool[p].payload, at, Len(d)) THEN d[x[2] - at + 1] ELSE bytes[x]) \in Nat
  <2>1. CASE x \in Cells(pool[p].payload, at, Len(d))
    <3>1. PICK o \in Int : x = <<pool[p].payload, o>> /\ at =< o /\ o < at + Len(d)
      BY <1>1, <2>1, CellsOf
    <3>2. x[2] = o /\ o - at + 1 \in 1..Len(d)  BY <1>1, <3>1
    <3>3. QED  BY <1>1, <2>1, <3>2, Zenon
  <2>2. CASE x \notin Cells(pool[p].payload, at, Len(d))  BY <2>2, Zenon DEF BytesType
  <2>3. QED  BY <2>1, <2>2, Zenon
<1>3. DOMAIN bytes = AllCells  BY Zenon DEF BytesType
<1>4. bytes' = [x \in AllCells |->
                  IF x \in Cells(pool[p].payload, at, Len(d)) THEN d[x[2] - at + 1] ELSE bytes[x]]
  BY <1>3, Zenon DEF Copy
<1>5. QED  BY <1>2, <1>4, Zenon DEF BytesType

\* Where the operations that write a buffer write: inside its slot.
LEMMA MoveWrites ==
    ASSUME PoolInductive, NEW p \in Processes, NEW s \in SlotIds, Move(p, s)
    PROVE  \/ bytes' = bytes
           \/ \E d \in Inputs, at \in Nat :
                /\ Copy(p, at, d)
                /\ Cells(pool[p].payload, at, Len(d)) \subseteq SlotCells(p, pool[p], s)
<1>1. Owns(p, s)
  BY Zenon DEF Move, trim_front, trim_back, resize, set_region, append, prepend, write_at
<1>window. PICK b \in Nat, k \in Nat, o \in Nat, n \in Nat : WindowAt(p, s, b, k, o, n)
  BY <1>1, OwnedWindow, Zenon
<1>2. /\ view[s] = [base |-> b, data |-> b + o, length |-> n]
      /\ slot[s].offset = o /\ header.slot_capacity = k /\ o + n =< k
      /\ SlotCells(p, pool[p], s) = Cells(pool[p].payload, b, k)
      /\ Cells(pool[p].payload, b, k) \subseteq AllCells
  BY <1>window, Zenon DEF WindowAt
<1>3. view[s].base = b /\ view[s].data = b + o /\ view[s].length = n  BY <1>2
<1>4. \A d \in Inputs : d \in Seq(Nat) /\ Len(d) \in Nat  BY InputAssumption, LenProperties, Zenon
<1>5. ASSUME NEW at \in Nat, NEW l \in Nat, b =< at, at + l =< b + k
      PROVE  Cells(pool[p].payload, at, l) \subseteq SlotCells(p, pool[p], s)
  <2>1. at..(at + l - 1) \subseteq b..(b + k - 1)  BY <1>5
  <2>2. QED  BY <1>2, <2>1, Zenon DEF Cells
<1>6. CASE \E n1 \in 0..header.slot_capacity :
             \/ trim_front(p, s, n1) \/ trim_back(p, s, n1) \/ resize(p, s, n1)
             \/ \E o1 \in 0..header.slot_capacity : set_region(p, s, o1, n1)
  BY <1>6, Zenon DEF trim_front, trim_back, resize, set_region
<1>7. ASSUME NEW d \in Inputs, append(p, s, d)
      PROVE  \E at \in Nat : /\ Copy(p, at, d)
                             /\ Cells(pool[p].payload, at, Len(d)) \subseteq SlotCells(p, pool[p], s)
  <2>1. Len(d) =< k - o - n /\ Copy(p, b + o + n, d)  BY <1>2, <1>3, <1>7, Zenon DEF append, tailroom
  <2>2. PICK l \in Nat : l = Len(d) /\ l =< k - o - n  BY <1>4, <2>1, Zenon
  <2>3. b + o + n \in Nat /\ b =< b + o + n /\ b + o + n + l =< b + k  BY <2>2
  <2>4. QED  BY <1>5, <2>1, <2>2, <2>3, Zenon
<1>8. ASSUME NEW d \in Inputs, prepend(p, s, d)
      PROVE  \E at \in Nat : /\ Copy(p, at, d)
                             /\ Cells(pool[p].payload, at, Len(d)) \subseteq SlotCells(p, pool[p], s)
  <2>1. Len(d) =< o /\ Copy(p, b + o - Len(d), d)  BY <1>2, <1>3, <1>8, Zenon DEF prepend, headroom
  <2>2. PICK l \in Nat : l = Len(d) /\ l =< o  BY <1>4, <2>1, Zenon
  <2>3. o =< k  BY <1>2
  <2>4. b + o - l \in Nat /\ b =< b + o - l /\ b + o - l + l =< b + k  BY <2>2, <2>3
  <2>5. QED  BY <1>5, <2>1, <2>2, <2>4, Zenon
<1>9. ASSUME NEW d \in Inputs, NEW o1 \in 0..header.slot_capacity, write_at(p, s, o1, d)
      PROVE  \E at \in Nat : /\ Copy(p, at, d)
                             /\ Cells(pool[p].payload, at, Len(d)) \subseteq SlotCells(p, pool[p], s)
  <2>1. o1 \in Nat  BY <1>2
  <2>2. Len(d) =< k - o1 /\ Copy(p, b + o1, d)  BY <1>2, <1>3, <1>9, Zenon DEF write_at
  <2>3. PICK l \in Nat : l = Len(d) /\ l =< k - o1  BY <1>4, <2>2, Zenon
  <2>4. b + o1 \in Nat /\ b =< b + o1 /\ b + o1 + l =< b + k  BY <2>1, <2>3
  <2>5. QED  BY <1>5, <2>2, <2>3, <2>4, Zenon
<1>10. QED  BY <1>6, <1>7, <1>8, <1>9, Zenon DEF Move

LEMMA BytesInvariance == WindowSpec => []BytesType
<1>1. WindowInit => BytesType  BY DEF WindowInit, BytesType
<1>2. PoolInductive /\ BytesType /\ [WindowNext]_vars => BytesType'
  <2>1. SUFFICES ASSUME PoolInductive, BytesType, [WindowNext]_vars PROVE BytesType'  BY Zenon
  <2>2. CASE bytes' = bytes  BY <2>1, <2>2, Zenon DEF BytesType
  <2>3. ASSUME NEW p \in Processes, NEW s \in SlotIds, Move(p, s) PROVE BytesType'
    <3>1. CASE \E d \in Inputs, at \in Nat : Copy(p, at, d)
      BY <2>1, <3>1, CopyType, InputAssumption
    <3>2. QED  BY <2>1, <2>2, <2>3, <3>1, MoveWrites, Zenon
  <2>4. bytes' = bytes \/ \E p \in Processes, s \in SlotIds : Move(p, s)
    BY <2>1, Zenon DEF WindowNext, Start, Call, Ended, vars
  <2>5. QED  BY <2>2, <2>3, <2>4, Zenon
<1>3. QED  BY <1>1, <1>2, PoolIsInductive, PTL DEF WindowSpec

\* Whatever the window and the input, the operations on a buffer write to the
\* cells of its slot alone: never to a neighbour's, a guard page or a control
\* record.
THEOREM WindowWritesStay == WindowSpec => WritesStay
<1> DEFINE Stays == \A p \in Processes : \A s \in SlotIds : bytes' # bytes /\ Move(p, s) =>
                        \A x \in DOMAIN bytes :
                            bytes'[x] # bytes[x] => x \in SlotCells(p, pool[p], s)
<1>1. PoolInductive => Stays
  <2>1. SUFFICES ASSUME PoolInductive, NEW p \in Processes, NEW s \in SlotIds, bytes' # bytes,
                        Move(p, s), NEW x \in DOMAIN bytes, bytes'[x] # bytes[x]
                 PROVE  x \in SlotCells(p, pool[p], s)
    BY Zenon
  <2>2. PICK d \in Inputs, at \in Nat :
          /\ Copy(p, at, d)
          /\ Cells(pool[p].payload, at, Len(d)) \subseteq SlotCells(p, pool[p], s)
    BY <2>1, MoveWrites, Zenon
  <2>3. bytes'[x] = IF x \in Cells(pool[p].payload, at, Len(d))
                    THEN d[x[2] - at + 1] ELSE bytes[x]
    BY <2>2, Zenon DEF Copy
  <2>4. QED  BY <2>1, <2>2, <2>3, Zenon
<1>2. QED  BY <1>1, PoolIsInductive, PTL DEF WritesStay

\* The owner's buffer object, in numbers.
ViewIs(s, b, a, n) == view[s] = [base |-> b, data |-> a, length |-> n]

\* The window that an operation leaves.
LEMMA RegionWindow ==
    ASSUME PoolInductive, NEW p \in Processes, NEW s \in SlotIds, Owns(p, s),
           NEW o \in Nat, NEW l \in Nat, Region(p, s, o, l),
           NEW b \in Nat, NEW a \in Nat, NEW n \in Nat, ViewIs(s, b, a, n)
    PROVE  pool' = pool /\ view'[s].data = b + o /\ view'[s].length = l
<1>1. DOMAIN view = SlotIds
  <2>1. p \in Attached  BY OwnedWindow, Zenon
  <2>2. QED  BY <2>1, SlotIdsOf, Zenon
<1>2. view'[s] = [view[s] EXCEPT !.data = b + o, !.length = l]
  <2>1. view[s].base = b  BY DEF ViewIs
  <2>2. QED  BY <1>1, <2>1, Zenon DEF Region
<1>3. PICK c \in Nat : c = b + o  OBVIOUS
<1>4. view'[s] = [[base |-> b, data |-> a, length |-> n] EXCEPT !.data = c, !.length = l]
  BY <1>2, <1>3, Zenon DEF ViewIs
<1>5. view'[s] = [base |-> b, data |-> c, length |-> l]  BY <1>4, Zenon
<1>6. pool' = pool  BY Zenon DEF Region
<1>7. QED  BY <1>3, <1>5, <1>6

\* The content of a window, in numbers: its bytes are bytes of the slot.
LEMMA ContentOf ==
    ASSUME BytesType, NEW p, NEW s, NEW a \in Nat, NEW n \in Nat,
           view[s].data = a, view[s].length = n,
           Cells(pool[p].payload, a, n) \subseteq AllCells
    PROVE  /\ Content(p, s) = [i \in 1..n |-> bytes[<<pool[p].payload, a + i - 1>>]]
           /\ Content(p, s) \in Seq(Nat) /\ Len(Content(p, s)) = n
           /\ \A i \in 1..n : /\ <<pool[p].payload, a + i - 1>> \in AllCells
                              /\ Content(p, s)[i] = bytes[<<pool[p].payload, a + i - 1>>]
<1>1. Content(p, s) = [i \in 1..n |-> bytes[<<pool[p].payload, a + i - 1>>]]  BY Zenon DEF Content
<1>2. ASSUME NEW i \in 1..n PROVE <<pool[p].payload, a + i - 1>> \in AllCells
  <2>1. a + i - 1 \in a..(a + n - 1)  OBVIOUS
  <2>2. QED  BY <2>1, Zenon DEF Cells
<1>3. \A i \in 1..n : bytes[<<pool[p].payload, a + i - 1>>] \in Nat  BY <1>2, Zenon DEF BytesType
<1>4. Content(p, s) \in [1..n -> Nat]  BY <1>1, <1>3, Zenon
<1>5. Content(p, s) \in Seq(Nat) /\ Len(Content(p, s)) = n  BY <1>4
<1>6. QED  BY <1>1, <1>2, <1>5, Zenon

LEMMA Joined ==
    ASSUME NEW u \in Seq(Nat), NEW w \in Seq(Nat), NEW m \in Nat, m = Len(u) + Len(w)
    PROVE  u \o w = [i \in 1..m |-> IF i =< Len(u) THEN u[i] ELSE w[i - Len(u)]]
<1>1. u \o w \in Seq(Nat) /\ Len(u \o w) = m  BY ConcatProperties, Zenon
<1>2. u \o w \in [1..m -> Nat]  BY <1>1, LenProperties, Zenon
<1>3. \A i \in 1..m : (u \o w)[i] = IF i =< Len(u) THEN u[i] ELSE w[i - Len(u)]
  BY ConcatProperties, Zenon
<1>4. QED  BY <1>2, <1>3, Zenon

LEMMA AppendExtends ==
    ASSUME PoolInductive, BytesType, NEW p \in Processes, NEW s \in SlotIds,
           NEW d \in Inputs, append(p, s, d)
    PROVE  Content(p, s)' = Content(p, s) \o d
<1>1. Owns(p, s)  BY Zenon DEF append
<1>window. PICK b \in Nat, k \in Nat, o \in Nat, n \in Nat : WindowAt(p, s, b, k, o, n)
  BY <1>1, OwnedWindow, Zenon
<1>2. /\ view[s] = [base |-> b, data |-> b + o, length |-> n]
      /\ slot[s].offset = o /\ header.slot_capacity = k /\ o + n =< k
      /\ SlotCells(p, pool[p], s) = Cells(pool[p].payload, b, k)
      /\ Cells(pool[p].payload, b, k) \subseteq AllCells
  BY <1>window, Zenon DEF WindowAt
<1>3. view[s].base = b /\ view[s].data = b + o /\ view[s].length = n  BY <1>2
<1>4. d \in Seq(Nat) /\ Len(d) \in Nat /\ d \in [1..Len(d) -> Nat]
  BY InputAssumption, LenProperties, Zenon
<1>5. PICK l \in Nat, a \in Nat, m \in Nat : l = Len(d) /\ a = b + o /\ m = n + l
  <2>1. b + o \in Nat /\ n + Len(d) \in Nat  BY <1>4
  <2>2. QED  BY <1>4, <2>1, Zenon
<1>6. l =< k - o - n /\ Copy(p, a + n, d) /\ Region(p, s, o, m)
  BY <1>2, <1>3, <1>5, Zenon DEF append, tailroom
<1>7. \A e \in Nat : e < n + l => <<pool[p].payload, a + e>> \in AllCells
  <2>1. SUFFICES ASSUME NEW e \in Nat, e < n + l PROVE <<pool[p].payload, a + e>> \in AllCells
    BY Zenon
  <2>2. l =< k - o - n  BY <1>6, Zenon
  <2>3. a + e \in b..(b + k - 1)  BY <1>5, <2>1, <2>2
  <2>4. QED  BY <1>2, <2>3, Zenon DEF Cells
<1>8. Cells(pool[p].payload, a, n) \subseteq AllCells
  <2>1. o + n =< k  BY <1>2, Zenon
  <2>2. a..(a + n - 1) \subseteq b..(b + k - 1)  BY <1>5, <2>1
  <2>3. QED  BY <1>2, <2>2, Zenon DEF Cells
<1>9. /\ Content(p, s) \in Seq(Nat) /\ Len(Content(p, s)) = n
      /\ \A i \in 1..n : Content(p, s)[i] = bytes[<<pool[p].payload, a + i - 1>>]
  BY <1>3, <1>5, <1>8, ContentOf
<1>10. pool' = pool /\ view'[s].data = a /\ view'[s].length = m
  <2>1. ViewIs(s, b, a, n)  BY <1>2, <1>5, Zenon DEF ViewIs
  <2>2. Region(p, s, o, m)  BY <1>6, Zenon
  <2>3. pool' = pool /\ view'[s].data = b + o /\ view'[s].length = m
    BY <1>1, <2>1, <2>2, RegionWindow, Zenon
  <2>4. QED  BY <1>5, <2>3, Zenon
<1>11. Content(p, s)' = [i \in 1..m |-> bytes'[<<pool[p].payload, a + i - 1>>]]
  BY <1>10, Zenon DEF Content
<1>12. ASSUME NEW i \in 1..m
       PROVE  bytes'[<<pool[p].payload, a + i - 1>>] =
                  IF i =< n THEN Content(p, s)[i] ELSE d[i - n]
  <2>1. PICK e \in Nat : e = i - 1 /\ a + i - 1 = a + e /\ e < n + l  BY <1>5
  <2>2. PICK at \in Int, c \in Int : at = a + n /\ c = a + e  OBVIOUS
  <2>3. bytes'[<<pool[p].payload, c>>] =
            IF at =< c /\ c < at + Len(d) THEN d[c - at + 1] ELSE bytes[<<pool[p].payload, c>>]
    <3>1. <<pool[p].payload, c>> \in AllCells  BY <1>7, <2>1, <2>2, Zenon
    <3>2. QED  BY <1>4, <1>6, <2>2, <3>1, CopyAt
  <2>4. CASE i =< n
    <3>1. ~(at =< c)  BY <2>1, <2>2, <2>4
    <3>2. i \in 1..n  BY <2>4
    <3>3. QED  BY <1>9, <2>1, <2>2, <2>3, <2>4, <3>1, <3>2, Zenon
  <2>5. CASE ~(i =< n)
    <3>1. at =< c /\ c < at + Len(d) /\ c - at + 1 = i - n  BY <1>5, <2>1, <2>2, <2>5
    <3>2. QED  BY <2>1, <2>2, <2>3, <2>5, <3>1, Zenon
  <2>6. QED  BY <2>4, <2>5, Zenon
<1>13. Content(p, s) \o d = [i \in 1..m |-> IF i =< n THEN Content(p, s)[i] ELSE d[i - n]]
  <2>1. PICK q \in Seq(Nat) : q = Content(p, s)  BY <1>9, Zenon
  <2>2. m = Len(q) + Len(d) /\ Len(q) = n  BY <1>5, <1>9, <2>1, Zenon
  <2>3. q \o d = [i \in 1..m |-> IF i =< Len(q) THEN q[i] ELSE d[i - Len(q)]]
    BY <1>4, <2>2, Joined, Zenon
  <2>4. QED  BY <2>1, <2>2, <2>3, Zenon
<1>14. QED  BY <1>11, <1>12, <1>13, Zenon

LEMMA PrependExtends ==
    ASSUME PoolInductive, BytesType, NEW p \in Processes, NEW s \in SlotIds,
           NEW d \in Inputs, prepend(p, s, d)
    PROVE  Content(p, s)' = d \o Content(p, s)
<1>1. Owns(p, s)  BY Zenon DEF prepend
<1>window. PICK b \in Nat, k \in Nat, o \in Nat, n \in Nat : WindowAt(p, s, b, k, o, n)
  BY <1>1, OwnedWindow, Zenon
<1>2. /\ view[s] = [base |-> b, data |-> b + o, length |-> n]
      /\ slot[s].offset = o /\ header.slot_capacity = k /\ o + n =< k
      /\ SlotCells(p, pool[p], s) = Cells(pool[p].payload, b, k)
      /\ Cells(pool[p].payload, b, k) \subseteq AllCells
  BY <1>window, Zenon DEF WindowAt
<1>3. view[s].base = b /\ view[s].data = b + o /\ view[s].length = n  BY <1>2
<1>4. d \in Seq(Nat) /\ Len(d) \in Nat /\ d \in [1..Len(d) -> Nat]
  BY InputAssumption, LenProperties, Zenon
<1>5. Len(d) =< o /\ Copy(p, b + o - Len(d), d) /\ Region(p, s, o - Len(d), n + Len(d))
  BY <1>2, <1>3, Zenon DEF prepend, headroom
<1>6. PICK l \in Nat, f \in Nat, a \in Nat, m \in Nat :
          l = Len(d) /\ f = o - l /\ a = b + f /\ m = n + l
  <2>1. /\ Len(d) \in Nat /\ o - Len(d) \in Nat /\ b + (o - Len(d)) \in Nat
        /\ n + Len(d) \in Nat
    BY <1>4, <1>5
  <2>2. QED  BY <2>1, Zenon
<1>7. Copy(p, a, d) /\ Region(p, s, f, m) /\ view[s].data = a + l
  <2>1. b + o - Len(d) = a /\ b + o = a + l  BY <1>4, <1>6
  <2>2. QED  BY <1>3, <1>5, <1>6, <2>1, Zenon
<1>8. \A e \in Nat : e < n + l => <<pool[p].payload, a + e>> \in AllCells
  <2>1. SUFFICES ASSUME NEW e \in Nat, e < n + l PROVE <<pool[p].payload, a + e>> \in AllCells
    BY Zenon
  <2>2. o + n =< k  BY <1>2, Zenon
  <2>3. a + e \in b..(b + k - 1)  BY <1>6, <2>1, <2>2
  <2>4. QED  BY <1>2, <2>3, Zenon DEF Cells
<1>9. Cells(pool[p].payload, a + l, n) \subseteq AllCells
  <2>1. o + n =< k  BY <1>2, Zenon
  <2>2. (a + l)..(a + l + n - 1) \subseteq b..(b + k - 1)  BY <1>6, <2>1
  <2>3. QED  BY <1>2, <2>2, Zenon DEF Cells
<1>10. /\ Content(p, s) \in Seq(Nat) /\ Len(Content(p, s)) = n
       /\ \A i \in 1..n : Content(p, s)[i] = bytes[<<pool[p].payload, a + l + i - 1>>]
  <2>1. PICK c \in Nat : c = a + l  OBVIOUS
  <2>2. view[s].data = c /\ view[s].length = n /\ Cells(pool[p].payload, c, n) \subseteq AllCells
    BY <1>3, <1>7, <1>9, <2>1, Zenon
  <2>3. /\ Content(p, s) \in Seq(Nat) /\ Len(Content(p, s)) = n
        /\ \A i \in 1..n : Content(p, s)[i] = bytes[<<pool[p].payload, c + i - 1>>]
    BY <2>2, ContentOf
  <2>4. QED  BY <2>1, <2>3, Zenon
<1>11. pool' = pool /\ view'[s].data = a /\ view'[s].length = m
  <2>1. PICK c \in Nat : c = b + o  OBVIOUS
  <2>2. ViewIs(s, b, c, n)  BY <1>2, <2>1, Zenon DEF ViewIs
  <2>3. Region(p, s, f, m)  BY <1>7, Zenon
  <2>4. pool' = pool /\ view'[s].data = b + f /\ view'[s].length = m
    BY <1>1, <2>2, <2>3, RegionWindow, Zenon
  <2>5. QED  BY <1>6, <2>4, Zenon
<1>12. Content(p, s)' = [i \in 1..m |-> bytes'[<<pool[p].payload, a + i - 1>>]]
  BY <1>11, Zenon DEF Content
<1>13. ASSUME NEW i \in 1..m
       PROVE  bytes'[<<pool[p].payload, a + i - 1>>] =
                  IF i =< l THEN d[i] ELSE Content(p, s)[i - l]
  <2>1. PICK e \in Nat : e = i - 1 /\ a + i - 1 = a + e /\ e < n + l  BY <1>6
  <2>2. PICK c \in Int : c = a + e  OBVIOUS
  <2>3. bytes'[<<pool[p].payload, c>>] =
            IF a =< c /\ c < a + Len(d) THEN d[c - a + 1] ELSE bytes[<<pool[p].payload, c>>]
    <3>1. <<pool[p].payload, c>> \in AllCells /\ a \in Int  BY <1>8, <2>1, <2>2
    <3>2. Copy(p, a, d)  BY <1>7, Zenon
    <3>3. QED  BY <1>4, <3>1, <3>2, CopyAt
  <2>4. CASE i =< l
    <3>1. a =< c /\ c < a + Len(d) /\ c - a + 1 = i  BY <1>6, <2>1, <2>2, <2>4
    <3>2. QED  BY <2>1, <2>2, <2>3, <2>4, <3>1, Zenon
  <2>5. CASE ~(i =< l)
    <3>1. ~(c < a + Len(d)) /\ i - l \in 1..n /\ a + l + (i - l) - 1 = c
      BY <1>6, <2>1, <2>2, <2>5
    <3>2. QED  BY <1>10, <2>1, <2>2, <2>3, <2>5, <3>1, Zenon
  <2>6. QED  BY <2>4, <2>5, Zenon
<1>14. d \o Content(p, s) = [i \in 1..m |-> IF i =< l THEN d[i] ELSE Content(p, s)[i - l]]
  <2>1. PICK q \in Seq(Nat) : q = Content(p, s)  BY <1>10, Zenon
  <2>2. m = Len(d) + Len(q) /\ Len(d) = l
    <3>1. Len(q) = n  BY <1>10, <2>1, Zenon
    <3>2. l = Len(d) /\ m = n + l  BY <1>6, Zenon
    <3>3. n + l = l + n  OBVIOUS
    <3>4. QED  BY <3>1, <3>2, <3>3, Zenon
  <2>3. d \o q = [i \in 1..m |-> IF i =< Len(d) THEN d[i] ELSE q[i - Len(d)]]
    BY <1>4, <2>2, Joined, Zenon
  <2>4. QED  BY <2>1, <2>2, <2>3, Zenon
<1>15. QED  BY <1>12, <1>13, <1>14, Zenon

LEMMA Slice ==
    ASSUME NEW u \in Seq(Nat), NEW m \in Nat, NEW l \in Nat, m + l =< Len(u)
    PROVE  SubSeq(u, m + 1, m + l) = [i \in 1..l |-> u[m + i]]
<1>1. Len(u) \in Nat /\ u \in [1..Len(u) -> Nat]  BY LenProperties, Zenon
<1>2. PICK x \in Int, y \in Int : x = m + 1 /\ y = m + l  OBVIOUS
<1>3. \A i \in x..y : u[i] \in Nat
  <2>1. SUFFICES ASSUME NEW i \in x..y PROVE u[i] \in Nat  BY Zenon
  <2>2. i \in 1..Len(u)  BY <1>1, <1>2
  <2>3. QED  BY <1>1, <2>2, Zenon
<1>4. /\ SubSeq(u, x, y) \in Seq(Nat)
      /\ Len(SubSeq(u, x, y)) = IF x <= y THEN y - x + 1 ELSE 0
      /\ \A i \in 1..(y - x + 1) : SubSeq(u, x, y)[i] = u[x + i - 1]
  BY <1>3, SubSeqProperties
<1>5. Len(SubSeq(u, x, y)) = l /\ y - x + 1 = l  BY <1>2, <1>4
<1>6. SubSeq(u, x, y) \in [1..l -> Nat]  BY <1>4, <1>5, LenProperties, Zenon
<1>7. \A i \in 1..l : SubSeq(u, x, y)[i] = u[m + i]
  <2>1. \A i \in 1..l : x + i - 1 = m + i  BY <1>2
  <2>2. QED  BY <1>4, <1>5, <2>1, Zenon
<1>8. QED  BY <1>2, <1>6, <1>7, Zenon

\* An operation that only moves the window by f to the right, or keeps its
\* start, leaves in it the bytes that were there.
Slides(p, s, f, l) == Owns(p, s) /\ bytes' = bytes /\ Region(p, s, slot[s].offset + f, l)

LEMMA WindowSlides ==
    ASSUME PoolInductive, BytesType, NEW p \in Processes, NEW s \in SlotIds,
           NEW f \in Nat, NEW l \in Nat, Slides(p, s, f, l)
    PROVE  /\ Content(p, s) \in Seq(Nat) /\ Len(Content(p, s)) = view[s].length
           /\ view[s].length \in Nat
           /\ Content(p, s)' = [i \in 1..l |-> Content(p, s)'[i]]
           /\ \A i \in 1..l :
                f + i =< view[s].length => Content(p, s)'[i] = Content(p, s)[f + i]
<1>window. PICK b \in Nat, k \in Nat, o \in Nat, n \in Nat : WindowAt(p, s, b, k, o, n)
  BY OwnedWindow, Zenon DEF Slides
<1>1. /\ view[s] = [base |-> b, data |-> b + o, length |-> n]
      /\ slot[s].offset = o /\ header.slot_capacity = k /\ o + n =< k
      /\ SlotCells(p, pool[p], s) = Cells(pool[p].payload, b, k)
      /\ Cells(pool[p].payload, b, k) \subseteq AllCells
  BY <1>window, Zenon DEF WindowAt
<1>2. PICK a \in Nat, e \in Nat, c \in Nat : a = b + o /\ e = o + f /\ c = a + f
  <2>1. b + o \in Nat /\ o + f \in Nat /\ b + o + f \in Nat  OBVIOUS
  <2>2. QED  BY <2>1, Zenon
<1>3. view[s] = [base |-> b, data |-> a, length |-> n]  BY <1>1, <1>2, Zenon
<1>4. view[s].data = a /\ view[s].length = n  BY <1>3
<1>5. Owns(p, s) /\ bytes' = bytes /\ Region(p, s, e, l) /\ b + e = c
  <2>1. b + e = c  BY <1>2
  <2>2. slot[s].offset + f = e  BY <1>1, <1>2, Zenon
  <2>3. Owns(p, s) /\ bytes' = bytes /\ Region(p, s, slot[s].offset + f, l)  BY Zenon DEF Slides
  <2>4. QED  BY <2>1, <2>2, <2>3, Zenon
<1>6. pool' = pool /\ view'[s].data = c /\ view'[s].length = l
  <2>1. ViewIs(s, b, a, n)  BY <1>3, Zenon DEF ViewIs
  <2>2. QED  BY <1>5, <2>1, RegionWindow
<1>7. Cells(pool[p].payload, a, n) \subseteq AllCells
  <2>1. o + n =< k  BY <1>1, Zenon
  <2>2. a..(a + n - 1) \subseteq b..(b + k - 1)  BY <1>2, <2>1
  <2>3. QED  BY <1>1, <2>2, Zenon DEF Cells
<1>8. /\ Content(p, s) \in Seq(Nat) /\ Len(Content(p, s)) = n
      /\ \A i \in 1..n : Content(p, s)[i] = bytes[<<pool[p].payload, a + i - 1>>]
  BY <1>4, <1>7, ContentOf
<1>9. Content(p, s)' = [i \in 1..l |-> bytes[<<pool[p].payload, c + i - 1>>]]
  BY <1>5, <1>6, Zenon DEF Content
<1>10. ASSUME NEW i \in 1..l, f + i =< n
       PROVE  bytes[<<pool[p].payload, c + i - 1>>] = Content(p, s)[f + i]
  <2>1. f + i \in 1..n /\ a + (f + i) - 1 = c + i - 1  BY <1>2, <1>10
  <2>2. QED  BY <1>8, <2>1, Zenon
<1>11. /\ Content(p, s)' = [i \in 1..l |-> Content(p, s)'[i]]
       /\ \A i \in 1..l : f + i =< n => Content(p, s)'[i] = Content(p, s)[f + i]
  BY <1>9, <1>10, Zenon
<1>12. QED  BY <1>4, <1>8, <1>11, Zenon

LEMMA TrimFrontDrops ==
    ASSUME PoolInductive, BytesType, NEW p \in Processes, NEW s \in SlotIds,
           NEW n \in Nat, trim_front(p, s, n)
    PROVE  Content(p, s)' = SubSeq(Content(p, s), n + 1, view[s].length)
<1>1. Owns(p, s) /\ bytes' = bytes  BY Zenon DEF trim_front
<1>2. view[s].length \in Nat
  <2>1. PICK b \in Nat, k \in Nat, o \in Nat, v \in Nat : WindowAt(p, s, b, k, o, v)
    BY <1>1, OwnedWindow, Zenon
  <2>2. QED  BY <2>1 DEF WindowAt
<1>3. PICK v \in Nat, l \in Nat : v = view[s].length /\ l = v - n /\ v = n + l
  <2>1. n =< view[s].length  BY Zenon DEF trim_front
  <2>2. view[s].length - n \in Nat /\ view[s].length = n + (view[s].length - n)  BY <1>2, <2>1
  <2>3. QED  BY <1>2, <2>2, Zenon
<1>4. Slides(p, s, n, l)  BY <1>1, <1>3, Zenon DEF trim_front, Slides
<1>5. /\ Content(p, s) \in Seq(Nat) /\ Len(Content(p, s)) = v
      /\ Content(p, s)' = [i \in 1..l |-> Content(p, s)'[i]]
      /\ \A i \in 1..l : n + i =< v => Content(p, s)'[i] = Content(p, s)[n + i]
  <2>1. /\ Content(p, s) \in Seq(Nat) /\ Len(Content(p, s)) = view[s].length
        /\ Content(p, s)' = [i \in 1..l |-> Content(p, s)'[i]]
        /\ \A i \in 1..l :
             n + i =< view[s].length => Content(p, s)'[i] = Content(p, s)[n + i]
    BY <1>4, WindowSlides
  <2>2. QED  BY <1>3, <2>1, Zenon
<1>6. \A i \in 1..l : n + i =< v  BY <1>3
<1>7. Content(p, s)' = [i \in 1..l |-> Content(p, s)[n + i]]  BY <1>5, <1>6, Zenon
<1>8. SubSeq(Content(p, s), n + 1, n + l) = [i \in 1..l |-> Content(p, s)[n + i]]
  <2>1. PICK q \in Seq(Nat) : q = Content(p, s) /\ n + l =< Len(q)  BY <1>3, <1>5
  <2>2. SubSeq(q, n + 1, n + l) = [i \in 1..l |-> q[n + i]]  BY <2>1, Slice, Zenon
  <2>3. QED  BY <2>1, <2>2, Zenon
<1>9. QED  BY <1>3, <1>7, <1>8, Zenon

LEMMA TrimBackDrops ==
    ASSUME PoolInductive, BytesType, NEW p \in Processes, NEW s \in SlotIds,
           NEW n \in Nat, trim_back(p, s, n)
    PROVE  Content(p, s)' = SubSeq(Content(p, s), 1, view[s].length - n)
<1>1. Owns(p, s) /\ bytes' = bytes  BY Zenon DEF trim_back
<1>2. view[s].length \in Nat /\ slot[s].offset \in Nat
  <2>1. PICK b \in Nat, k \in Nat, o \in Nat, v \in Nat : WindowAt(p, s, b, k, o, v)
    BY <1>1, OwnedWindow, Zenon
  <2>2. QED  BY <2>1 DEF WindowAt
<1>3. PICK v \in Nat, l \in Nat : v = view[s].length /\ l = v - n /\ l =< v
  <2>1. n =< view[s].length  BY Zenon DEF trim_back
  <2>2. view[s].length - n \in Nat /\ view[s].length - n =< view[s].length  BY <1>2, <2>1
  <2>3. QED  BY <1>2, <2>2, Zenon
<1>4. Slides(p, s, 0, l)
  <2>1. slot[s].offset + 0 = slot[s].offset  BY <1>2
  <2>2. QED  BY <1>1, <1>3, <2>1, Zenon DEF trim_back, Slides
<1>5. /\ Content(p, s) \in Seq(Nat) /\ Len(Content(p, s)) = v
      /\ Content(p, s)' = [i \in 1..l |-> Content(p, s)'[i]]
      /\ \A i \in 1..l : 0 + i =< v => Content(p, s)'[i] = Content(p, s)[0 + i]
  <2>1. /\ Content(p, s) \in Seq(Nat) /\ Len(Content(p, s)) = view[s].length
        /\ Content(p, s)' = [i \in 1..l |-> Content(p, s)'[i]]
        /\ \A i \in 1..l :
             0 + i =< view[s].length => Content(p, s)'[i] = Content(p, s)[0 + i]
    BY <1>4, WindowSlides
  <2>2. QED  BY <1>3, <2>1, Zenon
<1>6. \A i \in 1..l : 0 + i = i /\ i =< v  BY <1>3
<1>7. Content(p, s)' = [i \in 1..l |-> Content(p, s)[i]]  BY <1>5, <1>6, Zenon
<1>8. SubSeq(Content(p, s), 1, l) = [i \in 1..l |-> Content(p, s)[i]]
  <2>1. PICK q \in Seq(Nat) : q = Content(p, s) /\ 0 + l =< Len(q)  BY <1>3, <1>5
  <2>2. SubSeq(q, 0 + 1, 0 + l) = [i \in 1..l |-> q[0 + i]]  BY <2>1, Slice, Zenon
  <2>3. 0 + 1 = 1 /\ 0 + l = l  OBVIOUS
  <2>4. QED  BY <1>6, <2>1, <2>2, <2>3, Zenon
<1>9. QED  BY <1>3, <1>7, <1>8, Zenon

LEMMA ResizeKeepsFront ==
    ASSUME PoolInductive, BytesType, NEW p \in Processes, NEW s \in SlotIds,
           NEW n \in Nat, resize(p, s, n), NEW j \in 1..n, j =< view[s].length
    PROVE  Content(p, s)'[j] = Content(p, s)[j]
<1>1. Owns(p, s) /\ bytes' = bytes  BY Zenon DEF resize
<1>2. slot[s].offset \in Nat
  <2>1. PICK b \in Nat, k \in Nat, o \in Nat, v \in Nat : WindowAt(p, s, b, k, o, v)
    BY <1>1, OwnedWindow, Zenon
  <2>2. QED  BY <2>1, Zenon DEF WindowAt
<1>3. Slides(p, s, 0, n)
  <2>1. slot[s].offset + 0 = slot[s].offset  BY <1>2
  <2>2. QED  BY <1>1, <2>1, Zenon DEF resize, Slides
<1>4. \A i \in 1..n : 0 + i =< view[s].length => Content(p, s)'[i] = Content(p, s)[0 + i]
  BY <1>3, WindowSlides
<1>5. 0 + j = j  OBVIOUS
<1>6. QED  BY <1>4, <1>5, Zenon

\* The window is a double-ended queue over the bytes of the slot, for every
\* capacity, offset and input: append and prepend put exactly the bytes given at
\* its ends, trims drop from its ends and resize keeps the front.
THEOREM WindowIsADeque == WindowSpec => WindowIsDeque
<1> DEFINE Deque ==
      \A p \in Attached : \A s \in SlotIds : view'[s] # view[s] /\ Owns(p, s) =>
        /\ \A d \in Inputs :
            /\ append(p, s, d) => Content(p, s)' = Content(p, s) \o d
            /\ prepend(p, s, d) => Content(p, s)' = d \o Content(p, s)
        /\ \A n \in 0..header.slot_capacity :
            /\ trim_front(p, s, n) =>
                   Content(p, s)' = SubSeq(Content(p, s), n + 1, view[s].length)
            /\ trim_back(p, s, n) =>
                   Content(p, s)' = SubSeq(Content(p, s), 1, view[s].length - n)
            /\ resize(p, s, n) =>
                   \A i \in 1..n : i =< view[s].length => Content(p, s)'[i] = Content(p, s)[i]
<1>1. PoolInductive /\ BytesType => Deque
  <2>1. SUFFICES ASSUME PoolInductive, BytesType, NEW p \in Attached, NEW s \in SlotIds
                 PROVE  /\ \A d \in Inputs :
                            /\ append(p, s, d) => Content(p, s)' = Content(p, s) \o d
                            /\ prepend(p, s, d) => Content(p, s)' = d \o Content(p, s)
                        /\ \A n \in 0..header.slot_capacity :
                            /\ trim_front(p, s, n) =>
                                 Content(p, s)' = SubSeq(Content(p, s), n + 1, view[s].length)
                            /\ trim_back(p, s, n) =>
                                 Content(p, s)' = SubSeq(Content(p, s), 1, view[s].length - n)
                            /\ resize(p, s, n) =>
                                 \A i \in 1..n :
                                   i =< view[s].length => Content(p, s)'[i] = Content(p, s)[i]
    BY Zenon
  <2>2. p \in Processes /\ header.slot_capacity \in Nat  BY <2>1, SlotIdsOf, Zenon
  <2>3. \A n \in 0..header.slot_capacity : n \in Nat  BY <2>2
  <2>4. ASSUME NEW d \in Inputs
        PROVE  /\ append(p, s, d) => Content(p, s)' = Content(p, s) \o d
               /\ prepend(p, s, d) => Content(p, s)' = d \o Content(p, s)
    BY <2>1, <2>2, AppendExtends, PrependExtends, Zenon
  <2>5. ASSUME NEW n \in 0..header.slot_capacity
        PROVE  /\ trim_front(p, s, n) =>
                    Content(p, s)' = SubSeq(Content(p, s), n + 1, view[s].length)
               /\ trim_back(p, s, n) =>
                    Content(p, s)' = SubSeq(Content(p, s), 1, view[s].length - n)
               /\ resize(p, s, n) =>
                    \A i \in 1..n : i =< view[s].length => Content(p, s)'[i] = Content(p, s)[i]
    BY <2>1, <2>2, <2>3, TrimFrontDrops, TrimBackDrops, ResizeKeepsFront, Zenon
  <2>6. QED  BY <2>4, <2>5, Zenon
<1>2. QED  BY <1>1, PoolIsInductive, BytesInvariance, PTL DEF WindowIsDeque
=============================================================================
