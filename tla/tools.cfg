SPECIFICATION MCSpec
CONSTANTS
    Proposals = {"p", "q"}
    DecisionKeys = {"k1", "k2", "k3"}
    Decision <- MCDecision
    Plans <- MCPlans
    MaxIdempotency = 4
    MaxRetries = 1
    MaxApprovalFaults = 1
    ToolWorkers = {"a", "b"}
    Requests = {"r1", "r2", "r3"}
    RequestKeys = {"k", "l"}
    Workloads <- MCWorkloads
    MaxConcurrency = 1
    MaxAborts = 3
    MaxIterations = 2
    MaxTotalToolCalls = 2
    CallCounts = {1, 2}
    MaxTurns = 4
    MaxLoopRuns = 3
INVARIANTS VerdictAgrees AuditSound ExecutorSound LoopSound
PROPERTIES DispatchedIsApproved StoredDecisionIsLogged RequestsEnd
CHECK_DEADLOCK FALSE
