SPECIFICATION Spec
CONSTANTS
    NumChannels = 2
    Boards <- HbmBoard
    ParamRegs <- MCParamRegs
    NumOps <- MCNumOps
    RWait = 2
    ReadGap = 1
    MemPerBus = 2
    MinBusy = 2
    Torn <- OldOrNew
INVARIANT
    SpeedUsesOwnOps
