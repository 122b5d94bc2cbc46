SPECIFICATION Spec
CONSTANTS
    Runtimes = {a, b}
    Turns = {t1, t2}
    None = None
    Script <- StartScript
    Outcomes = {"toolCalls"}
    MaximumAttempts = 2
    RevisionRetries = 2
    ProviderContext = FALSE
    Cancellation = TRUE
    UsageReceipts = FALSE
    Calls = {"continue", "synchronize"}
    Faults = {"lostAck", "unavailable", "startRejected", "invalidHandle", "crash"}
    MaxFaults = 2
    MaxResumes = 0
SYMMETRY RuntimeSymmetry
INVARIANTS SingleActiveTurn DurableBeforeRemote
CHECK_DEADLOCK FALSE
