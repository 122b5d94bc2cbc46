SPECIFICATION FairSpec
CONSTANTS
    Workers = {a, b}
    Observers = {o}
    CancelKeys = {k}
    None = None
    Frames = 1
    MaximumAttempts = 2
    DelegateCancellation = TRUE
    Faults <- DurableFaults
    MaxFaults = 1
INVARIANTS TransportSafe
PROPERTIES RecordMovesOn TransportEnds
CHECK_DEADLOCK FALSE
