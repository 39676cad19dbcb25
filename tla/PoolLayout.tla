---------------------------- MODULE PoolLayout ----------------------------
(***************************************************************************)
(* Where a pool puts its control records and its payload slots: the        *)
(* arithmetic of zipc_pool_format and zipc_pool_attach, with the widths of *)
(* the C types as constants.  A memory object is what one process sees of  *)
(* it, [base, size, page, caps]; page is 0 when it cannot protect pages.   *)
(* A configuration names two memory objects and places the pool in them.   *)
(***************************************************************************)
EXTENDS Naturals, FiniteSets

CONSTANTS SizeMax,      \* SIZE_MAX and UINTPTR_MAX
          Max32,        \* UINT32_MAX
          HeaderSize,   \* sizeof(zipc_pool_header_t), a multiple of Alignment
          ControlSize,  \* sizeof(zipc_slot_control_t), a multiple of Alignment
          Alignment,    \* _Alignof both of them
          Processes,
          MemoryIds,
          Memory,       \* [Processes -> [MemoryIds -> memory object]]
          Configs,      \* the configurations that processes try
          NoPool

Capabilities == {"READ", "WRITE", "ATOMIC", "PROTECT"}

MemoryObject == [base : Nat, size : Nat, page : Nat, caps : SUBSET Capabilities]

Config == [control : MemoryIds, payload : MemoryIds,
           control_offset : Nat, payload_offset : Nat,
           slot_count : 0..Max32, slot_capacity : 0..Max32, slot_stride : 0..Max32,
           payload_alignment : 0..Max32, guard : BOOLEAN, strict : BOOLEAN]

ASSUME LayoutAssumption ==
    /\ Max32 \in Nat \ {0} /\ SizeMax \in Nat \ {0} /\ Max32 =< SizeMax
    /\ HeaderSize \in Nat \ {0} /\ ControlSize \in Nat \ {0} /\ Alignment \in Nat \ {0}
    /\ HeaderSize % Alignment = 0 /\ HeaderSize =< Max32
    /\ Memory \in [Processes -> [MemoryIds -> MemoryObject]]
    /\ \A p \in Processes, m \in MemoryIds :
           Memory[p][m].page # 0 => "PROTECT" \in Memory[p][m].caps
    /\ Configs \subseteq Config
    /\ NoPool \notin Config

is_power_of_two(value) == value # 0 /\ \E k \in 0..value : value = 2^k

\* value rounded up, or 0 when align_up_checked refuses it.
align_up_checked(value, alignment) ==
    IF is_power_of_two(alignment) /\ value =< SizeMax - (alignment - 1)
    THEN ((value + alignment - 1) \div alignment) * alignment
    ELSE 0

memory_address_aligned(memory, offset, alignment) ==
    /\ memory.base # 0
    /\ is_power_of_two(alignment)
    /\ offset + memory.base =< SizeMax
    /\ (memory.base + offset) % alignment = 0

memory_range_fits(memory, offset, length) ==
    /\ memory.base # 0
    /\ offset + length =< memory.size
    /\ memory.base + offset + length =< SizeMax

\* The range check forgets the end of the payload range.
pool_ranges_valid_start(p, c, control, payload) ==
    /\ memory_range_fits(Memory[p][c.control], c.control_offset, control)
    /\ memory_range_fits(Memory[p][c.payload], c.payload_offset, payload)
    /\ c.control = c.payload =>
           \/ c.control_offset > c.payload_offset
           \/ c.control_offset + control =< c.payload_offset

pool_ranges_valid(p, c, control, payload) ==
    /\ memory_range_fits(Memory[p][c.control], c.control_offset, control)
    /\ memory_range_fits(Memory[p][c.payload], c.payload_offset, payload)
    /\ c.control = c.payload =>
           \/ c.control_offset >= c.payload_offset + payload
           \/ c.payload_offset >= c.control_offset + control

\* What guard pages and strict ownership both ask of the payload memory.
Pageable(p, c) ==
    LET memory == Memory[p][c.payload]
    IN  /\ memory.page \in 1..Max32
        /\ "PROTECT" \in memory.caps
        /\ c.payload_offset % memory.page = 0
        /\ memory_address_aligned(memory, c.payload_offset, memory.page)
        /\ c.slot_capacity % memory.page = 0

\* The stride that a configuration asks for, or 0 when it is refused.
Stride(p, c) ==
    IF c.guard
    THEN LET guarded == c.slot_capacity + Memory[p][c.payload].page
         IN  IF guarded =< Max32 /\ c.slot_stride \in {0, guarded} THEN guarded ELSE 0
    ELSE IF c.slot_stride # 0 THEN c.slot_stride
    ELSE LET aligned == align_up_checked(c.slot_capacity, c.payload_alignment)
         IN  IF aligned =< Max32 THEN aligned ELSE 0

\* normalize_config: which configurations are well formed in process p.
Normal(p, c) ==
    /\ c.slot_count # 0 /\ c.slot_capacity # 0 /\ is_power_of_two(c.payload_alignment)
    /\ c.control_offset % Alignment = 0
    /\ memory_address_aligned(Memory[p][c.control], c.control_offset, Alignment)
    /\ c.payload_offset % c.payload_alignment = 0
    /\ memory_address_aligned(Memory[p][c.payload], c.payload_offset, c.payload_alignment)
    /\ c.strict \/ c.guard => Pageable(p, c)
    /\ Stride(p, c) >= c.slot_capacity
    /\ Stride(p, c) % c.payload_alignment = 0
    /\ {"READ", "WRITE", "ATOMIC"} \subseteq Memory[p][c.control].caps
    /\ {"READ", "WRITE"} \subseteq Memory[p][c.payload].caps

\* The sizes are 0 when they do not fit a size_t.
required_control_size(count) ==
    IF count > (SizeMax - HeaderSize) \div ControlSize THEN 0
    ELSE HeaderSize + count * ControlSize

required_payload_size(count, stride) ==
    IF count > SizeMax \div stride THEN 0 ELSE count * stride

\* The checks of zipc_pool_format and zipc_pool_attach that depend on the
\* configuration and on the process's mapping alone.
Placed(p, c) ==
    LET control == required_control_size(c.slot_count)
        payload == required_payload_size(c.slot_count, Stride(p, c))
    IN  /\ control # 0 /\ payload # 0
        /\ pool_ranges_valid(p, c, control, payload)
        /\ c.control_offset + HeaderSize =< SizeMax
        /\ memory_address_aligned(Memory[p][c.control], c.control_offset + HeaderSize,
                                  Alignment)

\* The header that zipc_pool_format writes, and where it writes it.  It does
\* not record where the payload is.
Header(p, c) == [at |-> <<c.control, c.control_offset>>,
                 slot_count |-> c.slot_count, slot_capacity |-> c.slot_capacity,
                 slot_stride |-> Stride(p, c), payload_alignment |-> c.payload_alignment]

ASSUME HeaderAssumption == \A p \in Processes, c \in Configs : Header(p, c) # NoPool

(***************************************************************************)
(* The cells of memory that the parts of an accepted pool take.  A cell is *)
(* a memory object and an offset in it.                                    *)
(***************************************************************************)
Cells(m, offset, length) == {m} \X (offset..(offset + length - 1))

SlotOffset(p, c, s) == c.payload_offset + s * Stride(p, c)

SlotCells(p, c, s) == Cells(c.payload, SlotOffset(p, c, s), c.slot_capacity)

\* Guard pages that start one cell early.
GuardCellsEarly(p, c, s) ==
    Cells(c.payload, SlotOffset(p, c, s) + c.slot_capacity - 1, Memory[p][c.payload].page)

GuardCells(p, c, s) ==
    Cells(c.payload, SlotOffset(p, c, s) + c.slot_capacity, Memory[p][c.payload].page)

ControlCells(c) ==
    Cells(c.control, c.control_offset, HeaderSize + c.slot_count * ControlSize)

\* What zipc_platform_memory_protect_none and _rw accept.
Protectable(p, m, offset, length) ==
    LET memory == Memory[p][m]
    IN  /\ length # 0 /\ "PROTECT" \in memory.caps /\ memory.page # 0
        /\ offset % memory.page = 0 /\ length % memory.page = 0
        /\ offset + length =< memory.size
=============================================================================
