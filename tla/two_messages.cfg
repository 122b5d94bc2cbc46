SPECIFICATION Spec
CONSTANTS
    Runtimes = {a, b}
    Turns = {t1}
    None = None
    Script <- TextScript
    Outcomes = {"completed"}
    MaximumAttempts = 1
    RevisionRetries = 2
    ProviderContext = FALSE
    Cancellation = TRUE
    UsageReceipts = FALSE
    Calls = {"resume", "synchronize"}
    Faults = {}
    MaxFaults = 0
    MaxResumes = 1
INVARIANTS OneAssistantMessage

CHECK_DEADLOCK FALSE
