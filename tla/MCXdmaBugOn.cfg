SPECIFICATION Spec
CONSTANTS
    Devices <- BugDevices
    MaxProbes = 1
    BufPages = 4
    PerHuge = 2
    MaxLeaked = 3
INVARIANTS
    InstanceOnMmap
