SPECIFICATION Spec
CONSTANTS
    Programs <- MCPrograms
    Iterations = 2
    Unroll = 2
    WordBytes = 8
    IntMax = 7
    NS = 2
    MaxTime = 4
INVARIANTS
    TypeOK
    ReportedWorkDone
    MeasuredTogether
