SPECIFICATION Spec
CONSTANTS
    Params <- StrideParams
    AddrSpace = 16
    LatMod = 3
    SumMod = 2
    BitAnd <- AddrAnd
    AllowStall = FALSE
    AllowRestart = FALSE
    AllowReset = FALSE
PROPERTY
    StrideBetweenAccesses
