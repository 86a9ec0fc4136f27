SPECIFICATION Spec
CONSTANTS
    MemSize = 16
    Page = 8
    Ranges <- SomeRanges
    MaxOps = 2
    MaxErrors = 1
    Connect = "NORMAL"
    MaxCalls = 3
    MaxFaults = 5
    MaxPowerCycles = 1
INVARIANTS
    TypeOK MemoryExact CallsTrue
PROPERTY
    Returns
