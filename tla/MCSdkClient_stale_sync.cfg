SPECIFICATION Spec
CONSTANTS
    Ids <- OneId
    Workers = {w1}
    Calls = {"cached", "change"}
    SyncEnabled = TRUE
    MaxRetries = 0
    TTL = 1
    MaxLatency = 1
    Faults = {}
    MaxTime = 0
    MaxChanges = 1
INVARIANTS
    ReadYourPublish
