SPECIFICATION Spec
CONSTANTS
    Devices <- MCDevices
    MaxProbes = 2
    BufPages = 4
    PerHuge = 2
    MaxLeaked = 3
INVARIANTS
    TypeOK
    UnboundHoldsNothing
    OnlyHeldReleased
    EnginesRun
    NodesServeTheirBars
    BufferAccounted
