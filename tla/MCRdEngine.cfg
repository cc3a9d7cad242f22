SPECIFICATION LiveSpec
CONSTANTS
    Params <- MCParams
    AddrSpace = 16
    LatMod = 3
    SumMod = 2
    BitAnd <- AddrAnd
    AllowStall = TRUE
    AllowRestart = TRUE
    AllowReset = TRUE
INVARIANTS
    TypeOK
    EndMeansAllAnswered
    NoStrayBursts
    LatencyIsAge
    AddressByWait
    InWorkingSet
PROPERTIES
    ArvalidHeld
    RunEnds
    ImplementsContract
