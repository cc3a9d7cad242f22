SPECIFICATION LiveSpec
CONSTANTS
    Params <- MCParams
    AddrSpace = 16
    SumMod = 2
    BeatBytes = 1
    LenSpace = 4
    BitAnd <- AddrAnd
    WLead = 2
    AllowRestart = FALSE
    AllowReset = FALSE
INVARIANT
    NoExtraBursts
