SPECIFICATION Spec
\* Two server processes, a turn of four events, a client that reconnects
\* twice; a table of searches and of compactions with one place.
CONSTANTS
    Processes = {"p1", "p2"}
    MaxEvents = 4
    MaxConnections = 3
    Keys = {"k", "j"}
    ServerPlans <- Asks
    Searches <- Queries
    Outputs <- Results
    MaxEntries = 1
    MaxResults = 3
    Timeout = 1
    ContextPlans <- Preflights
    MaxSlots = 1
    MaxRemembered = 2
    MaxAttempts = 2
INVARIANTS EndsMatched
CHECK_DEADLOCK FALSE
