SPECIFICATION LiveSpec
CONSTANTS
    Params <- MCParams
    AddrSpace = 16
    SumMod = 2
    BeatBytes = 1
    LenSpace = 4
    BitAnd <- AddrAnd
    WLead = 1
    AllowRestart = FALSE
    AllowReset = TRUE
INVARIANTS
    TypeOK
    EndMeansAllSent
    NoExtraBursts
    LastBeatMarked
    AddressLagsByOne
PROPERTIES
    ValidHeld
    RunEnds
    ImplementsContract
