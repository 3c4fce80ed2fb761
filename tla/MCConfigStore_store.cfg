\* Liveness under the fairness of goroutines and lock queues: no symmetry.
SPECIFICATION FairSpec
CONSTANTS
    a = a
    b = b
    v1 = v1
    v2 = v2
    Keys = {k1}
    Handlers = {h1, h2}
    NoHandler = NoHandler
    Paths = {a, b}
    Values = {v1, v2}
    Requests <- MCRequests
    Faults = {"statement", "commit_ack"}
    MaxId = 2
    MaxVersion = 2
INVARIANTS
    TypeOK
    VersionsGapless
    VersionIsFresh
    NoOrphans
    StoredAsCommitted
    CommittedOnce
    PublishedIsCommitted
PROPERTIES
    CallsReturn
    AnswerIsOneVersion
    ImplementsVersionedConfig
