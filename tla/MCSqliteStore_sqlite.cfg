\* Liveness: no symmetry.
SPECIFICATION FairSpec
CONSTANTS
    p = p
    a = a
    b = b
    Keys = {k1, k2}
    Handlers = {h1, h2}
    Paths = {p}
    Values = {a, b}
    Requests <- MCRequests
    Nobody = Nobody
    Failing = TRUE
    Crashing = TRUE
    MaxId = 2
    MaxVersion = 2
INVARIANTS
    TypeOK
    WriterIsCurrent
    TablesAgree
PROPERTIES
    WriterLeaves
    ImplementsVersionedConfig
