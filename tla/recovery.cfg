SPECIFICATION Spec
CONSTANTS
    Runtimes = {a}
    Turns = {t1}
    None = None
    Script <- ToolScript
    Outcomes = {"completed"}
    MaximumAttempts = 2
    RevisionRetries = 2
    ProviderContext = TRUE
    Cancellation = FALSE
    UsageReceipts = TRUE
    Calls = {"cancel", "resume", "stop"}
    Faults = {"lostAck", "startRejected", "resumeRejected", "disconnect", "observationFailed", "resultConflict", "badCheckpoint", "crash"}
    MaxFaults = 2
    MaxResumes = 1
INVARIANTS RecoveryExact
CHECK_DEADLOCK FALSE
