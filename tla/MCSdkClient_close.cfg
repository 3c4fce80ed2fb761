\* Liveness: no symmetry.
SPECIFICATION FairSpec
CONSTANTS
    Ids <- OneId
    Workers = {w1, w2}
    Calls = {"cached", "close"}
    SyncEnabled = TRUE
    MaxRetries = 0
    TTL = 1
    MaxLatency = 1
    Faults = {"request"}
    MaxTime = 3
    MaxChanges = 0
\* A panic stops the process.
CHECK_DEADLOCK FALSE
INVARIANTS
    ClosedMeansStopped
PROPERTIES
    Fresh
    CallsReturn
