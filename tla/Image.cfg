CONSTANTS
    MemorySize = 64
    BlockSize = 12
    DataStart = 34
    BranchReach = 8
    JumpReach = 12
    LowSize = 8
    WordReach = 32
    Session <- MCSession
    ProbeAddress <- MCProbeAddress
    ProbeValue <- MCProbeValue
SPECIFICATION Spec
INVARIANTS
    TypeOK
    ReferencesResolve
    AddressesPointAtData
    DecodesAsWritten
    LiLoads
    BreakpointLines
PROPERTIES
    MemoryIsFlat
CHECK_DEADLOCK FALSE
