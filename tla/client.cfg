SPECIFICATION Spec
\* The browser's controller; two workers, with a heartbeat each, an ender, two
\* tool calls, recorders and pages; a session with two bootstraps.
CONSTANTS
    MaxMessages = 3
    CallWorkers = {"w1", "w2"}
    BeatOf <- BeatOfWorker
    Enders = {"e1"}
    ToolCalls = {"t1", "t2"}
    Recorders = {"r1", "r2"}
    Viewers = {"v1", "v2"}
    Scenarios <- CallScenarios
    LeaseTime = 2
    MaxAttempts = 2
    Bootstraps = {"b1", "b2"}
    Handlers = {"h1", "h2", "h3", "h4", "h5"}
    Tools = {"c1", "c2"}
    SessionPlans <- ToolPlans
    MaxTrackedCalls = 1
    MaxConcurrentTools = 1
    MaxTries = 2
\* Runtimes, the picker, dictation, presence, activity and attachments.
CONSTANTS
    Cases <- OpenCases
    Choices = {1, 2, 3}
    PickerPlans <- Picks
    DictationPlans <- Dictations
    MaxBytes = 2
    Rooms = {"x", "y"}
    Ttl = 1
    TypingTtl = 1
    IdleTime = 1
    MaxClock = 1
    MaxPublished = 4
    MaxMoves = 2
    Workers = {"w1", "w2"}
    MaxTurns = 2
    MaxReconciles = 1
    Tabs = {"t1", "t2"}
    Chats = {"x", "y"}
    Concurrency = 1
    MaxOwned = 2
    TimeToLive = 1
    Drafts <- DraftPlans
INVARIANTS CallTruthful ReadingsTruthful ToolsSettleInCall NothingLeftOpen ViewsSound RuntimesHeld
INVARIANTS SentResolves ShowsNewest TranscriptWanted PickerHoldsOwn
PROPERTIES ActivityForward
CHECK_DEADLOCK FALSE
