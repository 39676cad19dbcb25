\* Pools of one or two slots, with and without guard pages and strict
\* ownership, in two processes.
CONSTANTS
    SizeMax = 31
    Max32 = 7
    HeaderSize = 2
    ControlSize = 2
    Alignment = 2
    P = P
    Q = Q
    Shm = Shm
    Ddr = Ddr
    Processes = {P, Q}
    MemoryIds = {Shm, Ddr}
    Memory <- MCMemory
    Configs <- MCConfigs
    NoPool = NoPool
    NoView = NoView
    Inputs <- MCInputs
SPECIFICATION MCSpec
CHECK_DEADLOCK FALSE
INVARIANTS SlotsApart  StrictExclusion
PROPERTIES  WindowIsDeque
