SPECIFICATION Spec
CONSTANTS
    Runtimes = {a, b}
    Turns = {t1}
    None = None
    Script <- TextScript
    Outcomes = {"completed"}
    MaximumAttempts = 2
    RevisionRetries = 2
    ProviderContext = FALSE
    Cancellation = TRUE
    UsageReceipts = FALSE
    Calls = {"resume"}
    Faults = {"disconnect", "crash", "lostAck", "unavailable"}
    MaxFaults = 2
    MaxResumes = 2
SYMMETRY RuntimeSymmetry
INVARIANTS TypeOK ProjectionExact
PROPERTIES ImplementsConversation
CHECK_DEADLOCK FALSE
