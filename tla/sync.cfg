SPECIFICATION MCSpec
CONSTANTS
    Mutations = {"m", "n", "x", "y"}
    Writers = {"w"}
    BatchOf <- MCBatchOf
    ReadLimit = 1
    MaxAttempts = 2
    Devices = {"a", "b"}
    Stores = {"s", "t"}
    Scenarios <- MCScenarios
    MaxConflicts = 2
    Callers = {"c1", "c2", "c3", "c4", "c5"}
    Batches <- MCBatches
    PageSize = 1
    MaxRepeats = 1
INVARIANTS ServerLogSound ReplicasSound StoresSound
PROPERTIES ViewsSettle
CHECK_DEADLOCK FALSE
