SPECIFICATION Spec
CONSTANTS
    Ops = 5
    Latencies = {5, 7}
    RamSize = 4
    RamWidth = 8
    RamLatency = 3
    RWait = 2
    HostGap = 2
    ReadMax = 6
    StartOutlasts = FALSE
INVARIANT
    EverySampleLogged
