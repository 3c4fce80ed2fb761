SPECIFICATION Spec
CONSTANTS
    p = p
    q = q
    Names = {"s", "u", "console", "admin"}
    Paths = {p, q}
    Callers = {w1}
    Shared <- TheStore
    Faults = {"request", "answer", "statement"}
    MaxInt = 15
    MaxVersion = 3
    HttpRequests <- MCHttpRequests
    Commands <- MCCommands
    RequiredClient = "console"
    RequiredRoles = {"admin"}
INVARIANTS
    TypeOK
    AnswerTellsEffect
    ClaimsWereTrue
    ShowTellsPublished
    VersionAsAsked
PROPERTIES
    ImplementsVersionedConfig
