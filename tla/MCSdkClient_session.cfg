SPECIFICATION Spec
CONSTANTS
    Ids <- TwoIds
    Workers = {w1}
    Calls = {"get", "cached", "change", "forget", "update"}
    SyncEnabled = FALSE
    MaxRetries = 1
    TTL = 1
    MaxLatency = 1
    Faults = {"request", "answer"}
    MaxTime = 2
    MaxChanges = 2
INVARIANTS
    TypeOK
    ReadYourPublish
    MonotonicReads
    WritesBounded
    OwnAnswers
