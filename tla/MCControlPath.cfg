SPECIFICATION LiveSpec
CONSTANTS
    NumChannels = 2
    Boards <- BothBoards
    ParamRegs <- MCParamRegs
    NumOps <- MCNumOps
    RWait = 2
    ReadGap = 1
    MemPerBus = 2
    MinBusy = 2
    Torn <- OldOrNew
INVARIANTS
    TypeOK
    JobAsConfigured
    OneRunPerStart
    ReportIsOwnTotal
PROPERTY
    AllJobsFinish
