SPECIFICATION FairSpec
CONSTANTS
    Runtimes = {a, b}
    Turns = {t1}
    None = None
    Script <- ShortScript
    Outcomes = {"completed"}
    MaximumAttempts = 1
    RevisionRetries = 2
    ProviderContext = FALSE
    Cancellation = TRUE
    UsageReceipts = FALSE
    Calls = {"cancel", "synchronize"}
    Faults = {"cancelRejected"}
    MaxFaults = 1
    MaxResumes = 0
INVARIANTS OutcomeAgrees CancellationTruthful
PROPERTIES EverythingEnds
CHECK_DEADLOCK FALSE
